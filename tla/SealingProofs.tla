---------------------------- MODULE SealingProofs ----------------------------
(***************************************************************************)
(* TLAPS proofs about AssignmentCollector and SealingCore as MCSealing     *)
(* composes them.                                                          *)
(***************************************************************************)
EXTENDS MCSealing, FiniteSetTheorems, WellFoundedInduction, TLAPS

-----------------------------------------------------------------------------
(***************************************************************************)
(* AssignmentCollector.                                                    *)
(***************************************************************************)
Verifiers == UNION {UNION {Assigned[ir][c] : c \in Chunks} : ir \in Incorporated}
Statuses == {"caching", "verifying", "orphaned"}
Places == {"idle", "load", "process", "compare", "readApprovals", "readCollectors", "each",
           "aggregate", "done"}

\* The verifiers assigned to a chunk whose valid approval of it is known
Supporters(ir, c) ==
    {v \in Assigned[ir][c] : \E a \in verified : a.valid /\ a.verifier = v /\ a.chunk = c}

\* A chunk has collected enough signatures.
Sufficient(ir, c) == M!Cardinality(signers[ir][c]) >= Required

TaskRecord ==
    [at : Places, loaded : Statuses \cup (Statuses \X Incorporated \X Chunks),
     todo : SUBSET (Incorporated \X Approvals)]

\* What a call may hold, given the approvals that are known: the pairs it still has to
\* process are of known approvals, and the place where it is fits.
HoldsKnown(t, rec, known) ==
    /\ rec \in TaskRecord
    /\ rec.todo \subseteq Incorporated \X known
    /\ rec.at = "readApprovals" => t[1] \in Incorporated
    /\ rec.at = "readCollectors" => t[1] \in known
    /\ rec.at = "aggregate" => rec.loaded \in Statuses \X Incorporated \X Chunks
    /\ rec.at # "aggregate" => rec.loaded \in Statuses

\* A chunk that is about to be aggregated has enough signatures.
AboutToAggregate(t) ==
    task[t].at = "aggregate" => Sufficient(task[t].loaded[2], task[t].loaded[3])

\* Signatures come from valid approvals of the verifiers assigned, and what is aggregated
\* has enough of them.
ChunkOK(ir, c) ==
    /\ signers[ir][c] \subseteq Supporters(ir, c)
    /\ c \in aggregated[ir] => Sufficient(ir, c)

TasksOK ==
    /\ task \in [M!Inputs \X M!Origins -> TaskRecord]
    /\ \A t \in M!Inputs \X M!Origins : HoldsKnown(t, task[t], verified) /\ AboutToAggregate(t)

\* The inductive invariant: what is sealed is aggregated, too.
CollectorInv ==
    /\ M!TypeOK
    /\ signers \in [Incorporated -> [Chunks -> SUBSET Verifiers]]
    /\ aggregated \in [Incorporated -> SUBSET Chunks]
    /\ \A a \in verified : a.valid
    /\ \A ir \in Incorporated, c \in Chunks : ChunkOK(ir, c)
    /\ \A ir \in seals : aggregated[ir] = Chunks
    /\ TasksOK

\* What is assumed of the collector's constants
LEMMA CollectorConstants ==
    /\ Required \in Nat \ {0}
    /\ \A a \in Approvals : a.valid => a.chunk \in Chunks
    /\ \A ir \in Incorporated, c \in Chunks : IsFiniteSet(Assigned[ir][c])
BY SealingAssumption DEF SealingAssumption, M!ConstantsAssumption, M!IsFiniteSet, IsFiniteSet

\* More approvals support at least as much, and a larger set of signers suffices when a
\* smaller one does.
LEMMA LargerSuffices ==
    ASSUME NEW P, NEW Q, P \subseteq Q, IsFiniteSet(Q), M!Cardinality(P) >= Required
    PROVE  M!Cardinality(Q) >= Required
<1>1. IsFiniteSet(P) /\ Cardinality(P) <= Cardinality(Q)
  BY FS_Subset
<1>2. Cardinality(P) \in Nat /\ Cardinality(Q) \in Nat
  BY <1>1, FS_CardinalityType
<1>3. M!Cardinality(P) = Cardinality(P) /\ M!Cardinality(Q) = Cardinality(Q)
  BY DEF M!Cardinality, Cardinality
<1> QED BY <1>1, <1>2, <1>3, CollectorConstants

\* One call goes on, while approvals and signatures are only added: what the other calls
\* hold stays right.
LEMMA OneTaskMoves ==
    ASSUME TasksOK, NEW t \in M!Inputs \X M!Origins, NEW rec,
           task' = [task EXCEPT ![t] = rec],
           verified \subseteq verified',
           \A ir \in Incorporated, c \in Chunks : Sufficient(ir, c) => Sufficient(ir, c)',
           HoldsKnown(t, rec, verified'),
           AboutToAggregate(t)'
    PROVE  TasksOK'
<1>1. task' \in [M!Inputs \X M!Origins -> TaskRecord]
  BY DEF TasksOK, HoldsKnown
<1>2. ASSUME NEW u \in M!Inputs \X M!Origins
      PROVE  HoldsKnown(u, task'[u], verified') /\ AboutToAggregate(u)'
  <2>1. CASE u = t
    BY <2>1 DEF TasksOK
  <2>2. CASE u # t
    <3>1. task'[u] = task[u] /\ HoldsKnown(u, task[u], verified) /\ AboutToAggregate(u)
      BY <2>2 DEF TasksOK
    <3>2. HoldsKnown(u, task'[u], verified')
      BY <3>1 DEF HoldsKnown
    <3>3. ASSUME task'[u].at = "aggregate"
          PROVE  M!Cardinality(signers'[task'[u].loaded[2]][task'[u].loaded[3]]) >= Required
      <4>1. task[u].loaded[2] \in Incorporated /\ task[u].loaded[3] \in Chunks
        BY <3>1, <3>3 DEF HoldsKnown
      <4>2. Sufficient(task[u].loaded[2], task[u].loaded[3])
        BY <3>1, <3>3 DEF AboutToAggregate
      <4>3. M!Cardinality(signers'[task[u].loaded[2]][task[u].loaded[3]]) >= Required
        BY <4>1, <4>2 DEF Sufficient
      <4> QED BY <3>1, <4>3
    <3> QED BY <3>2, <3>3 DEF AboutToAggregate, Sufficient
  <2> QED BY <2>1, <2>2
<1> QED BY <1>1, <1>2 DEF TasksOK

\* A call goes on to a place other than "aggregate" and nothing it shares changes.
LEMMA QuietMove ==
    ASSUME CollectorInv, NEW t \in M!Inputs \X M!Origins, NEW rec,
           task' = [task EXCEPT ![t] = rec],
           HoldsKnown(t, rec, verified), rec.at # "aggregate",
           UNCHANGED <<verified, signers>>
    PROVE  TasksOK'
<1>1. task'[t] = rec
  BY DEF CollectorInv, TasksOK
<1>2. AboutToAggregate(t)'
  BY <1>1 DEF AboutToAggregate
<1>3. \A ir \in Incorporated, c \in Chunks : Sufficient(ir, c) => Sufficient(ir, c)'
  BY DEF Sufficient
<1> QED BY <1>2, <1>3, OneTaskMoves DEF CollectorInv

\* The parts of the invariant that are not about calls depend on these variables.
LEMMA VerifyingKept ==
    ASSUME CollectorInv, TasksOK', M!TypeOK',
           UNCHANGED <<verified, signers, aggregated, seals>>
    PROVE  CollectorInv'
BY DEF CollectorInv, ChunkOK, Supporters, Sufficient

\* Nothing is known, signed or under way at the start.
LEMMA CollectorInit == M!Init => CollectorInv
<1> SUFFICES ASSUME M!Init PROVE CollectorInv
  OBVIOUS
<1>1. M!TypeOK
  BY DEF M!Init, M!TypeOK
<1>2. signers \in [Incorporated -> [Chunks -> SUBSET Verifiers]]
      /\ aggregated \in [Incorporated -> SUBSET Chunks]
  BY DEF M!Init
<1>3. \A ir \in Incorporated, c \in Chunks : ChunkOK(ir, c)
  BY DEF M!Init, ChunkOK
<1>4. M!Idle \in TaskRecord /\ M!Idle.at = "idle" /\ M!Idle.todo = {} /\ M!Idle.loaded = "caching"
  BY DEF M!Idle, TaskRecord, Places, Statuses
<1>5. task \in [M!Inputs \X M!Origins -> TaskRecord]
  BY <1>4 DEF M!Init
<1>6. ASSUME NEW t \in M!Inputs \X M!Origins
      PROVE  HoldsKnown(t, task[t], verified) /\ AboutToAggregate(t)
  <2>1. task[t] = M!Idle
    BY DEF M!Init
  <2> QED BY <1>4, <2>1 DEF HoldsKnown, AboutToAggregate, Statuses
<1> QED BY <1>1, <1>2, <1>3, <1>5, <1>6 DEF CollectorInv, TasksOK, M!Init

\* The state machine: loading the collector, comparing, caching, and the orphaned state
LEMMA MachineTaskStep ==
    ASSUME CollectorInv, NEW t \in M!Inputs \X M!Origins,
           \/ \E pc \in {"idle", "load"} : M!LoadCollector(t, pc)
           \/ M!Compare(t) \/ M!ProcessCached(t) \/ M!ProcessOrphaned(t)
    PROVE  CollectorInv'
<1> DEFINE old == task[t]
<1>1. old \in TaskRecord /\ HoldsKnown(t, old, verified)
  BY DEF CollectorInv, TasksOK
<1>2. /\ status' = status /\ changer' = changer
      /\ UNCHANGED <<collectors, verified, signers, aggregated, seals>>
      /\ cachedResults' \subseteq Incorporated /\ cachedApprovals' \subseteq Approvals
  BY DEF M!LoadCollector, M!Compare, M!ProcessCached, M!ProcessOrphaned, M!machine, M!verifying,
     CollectorInv, M!TypeOK
<1>3. PICK pc \in {"process", "load", "done", "compare"}, loaded \in Statuses,
           todo \in SUBSET old.todo :
         task' = [task EXCEPT ![t] = [at |-> pc, loaded |-> loaded, todo |-> todo]]
  <2>1. CASE \E pc \in {"idle", "load"} : M!LoadCollector(t, pc)
    <3>1. status \in Statuses
      BY DEF CollectorInv, M!TypeOK, Statuses
    <3>2. task' = [task EXCEPT ![t] = [at |-> "process", loaded |-> status, todo |-> old.todo]]
      BY <2>1 DEF M!LoadCollector, M!Move
    <3> QED BY <3>1, <3>2, Zenon
  <2>2. old.at # "aggregate" => old.loaded \in Statuses
    BY <1>1 DEF HoldsKnown
  <2>3. CASE M!Compare(t)
    BY <2>2, <2>3 DEF M!Compare, M!HasReturned, M!At, M!Goto, M!Done, M!Move, Statuses
  <2>4. CASE M!ProcessCached(t)
    BY <2>2, <2>4 DEF M!ProcessCached, M!At, M!Goto, M!Move
  <2>5. CASE M!ProcessOrphaned(t)
    BY <2>5 DEF M!ProcessOrphaned, M!Done, M!Move, Statuses
  <2> QED BY <2>1, <2>3, <2>4, <2>5
<1> DEFINE rec == [at |-> pc, loaded |-> loaded, todo |-> todo]
<1>4. HoldsKnown(t, rec, verified) /\ rec.at # "aggregate"
  BY <1>1 DEF HoldsKnown, TaskRecord, Places
<1> HIDE DEF rec
<1>5. TasksOK'
  BY <1>2, <1>3, <1>4, QuietMove DEF rec
<1>6. M!TypeOK'
  BY <1>2, <1>5 DEF CollectorInv, M!TypeOK, TasksOK
<1> QED BY <1>2, <1>5, <1>6, VerifyingKept

\* The goroutine that changes the state gives what was cached to the worker pool.
LEMMA ChangerStep ==
    ASSUME CollectorInv,
           \/ M!Caching2Verifying \/ M!ToOrphaned
           \/ M!ReIngestResults \/ M!ReIngestApprovals
    PROVE  CollectorInv'
<1>1. /\ UNCHANGED <<cachedResults, cachedApprovals, collectors, verified, signers, aggregated,
                     seals>>
      /\ status' \in Statuses /\ changer' \in {"idle", "results", "approvals"}
  BY DEF M!Caching2Verifying, M!ToOrphaned, M!ReIngestResults, M!ReIngestApprovals, M!verifying,
     CollectorInv, M!TypeOK, Statuses
<1> DEFINE begun == [at |-> "load", loaded |-> "caching", todo |-> {}]
<1>2. begun \in TaskRecord /\ begun.at = "load" /\ begun.todo = {} /\ begun.loaded \in Statuses
  BY DEF TaskRecord, Places, Statuses
<1>3. [M!Idle EXCEPT !.at = "load"] = begun
  BY DEF M!Idle
<1> HIDE DEF begun
<1>4. /\ task' \in [M!Inputs \X M!Origins -> TaskRecord]
      /\ \A t \in M!Inputs \X M!Origins : task'[t] = task[t] \/ task'[t] = begun
  <2>1. CASE M!Caching2Verifying \/ M!ToOrphaned
    BY <2>1 DEF M!Caching2Verifying, M!ToOrphaned, CollectorInv, TasksOK
  <2>2. CASE M!ReIngestResults
    BY <1>2, <1>3, <2>2 DEF M!ReIngestResults, M!Begin, CollectorInv, TasksOK
  <2>3. CASE M!ReIngestApprovals
    BY <1>2, <1>3, <2>3 DEF M!ReIngestApprovals, M!Begin, CollectorInv, TasksOK
  <2> QED BY <2>1, <2>2, <2>3
<1>5. ASSUME NEW t \in M!Inputs \X M!Origins
      PROVE  HoldsKnown(t, task'[t], verified') /\ AboutToAggregate(t)'
  <2>1. HoldsKnown(t, task[t], verified) /\ AboutToAggregate(t)
    BY DEF CollectorInv, TasksOK
  <2>2. CASE task'[t] = task[t]
    BY <1>1, <2>1, <2>2 DEF AboutToAggregate, Sufficient
  <2>3. CASE task'[t] = begun
    BY <1>2, <2>3 DEF HoldsKnown, AboutToAggregate
  <2> QED BY <1>4, <2>2, <2>3
<1>6. TasksOK'
  BY <1>4, <1>5 DEF TasksOK
<1>7. M!TypeOK'
  BY <1>1, <1>6 DEF CollectorInv, M!TypeOK, TasksOK, Statuses
<1> QED BY <1>1, <1>6, <1>7, VerifyingKept

\* ProcessIncorporatedResult, and reading the known approvals or the collectors
LEMMA ReadStep ==
    ASSUME CollectorInv, NEW t \in M!Inputs \X M!Origins,
           M!ProcessIncorporatedResult(t) \/ M!ReadApprovals(t) \/ M!ReadCollectors(t)
    PROVE  CollectorInv'
<1> DEFINE old == task[t]
<1>1. old \in TaskRecord /\ HoldsKnown(t, old, verified)
  BY DEF CollectorInv, TasksOK
<1>2. /\ UNCHANGED <<status, cachedResults, cachedApprovals, changer, verified, signers,
                     aggregated, seals>>
      /\ collectors' \subseteq Incorporated
  BY DEF M!ProcessIncorporatedResult, M!ReadApprovals, M!ReadCollectors, M!machine, M!verifying,
     CollectorInv, M!TypeOK
<1>3. PICK rec : /\ task' = [task EXCEPT ![t] = rec]
                 /\ HoldsKnown(t, rec, verified) /\ rec.at # "aggregate"
  <2>1. CASE M!ProcessIncorporatedResult(t)
    <3> DEFINE rec == [at |-> IF t[1] \in collectors THEN "compare" ELSE "readApprovals",
                       loaded |-> old.loaded, todo |-> old.todo]
    <3>1. task' = [task EXCEPT ![t] = rec]
      BY <2>1 DEF M!ProcessIncorporatedResult, M!Goto, M!Move
    <3>2. HoldsKnown(t, rec, verified) /\ rec.at # "aggregate"
      BY <1>1, <2>1 DEF M!ProcessIncorporatedResult, M!At, HoldsKnown, TaskRecord, Places
    <3> QED BY <3>1, <3>2
  <2>2. CASE M!ReadApprovals(t)
    <3> DEFINE rec == [at |-> "each", loaded |-> old.loaded, todo |-> {t[1]} \X verified]
    <3>1. task' = [task EXCEPT ![t] = rec]
      BY <2>2 DEF M!ReadApprovals, M!Move
    <3>2. {t[1]} \X verified \subseteq Incorporated \X verified
      BY <1>1, <2>2 DEF M!ReadApprovals, M!At, HoldsKnown
    <3>3. verified \subseteq Approvals
      BY DEF CollectorInv, M!TypeOK
    <3>4. HoldsKnown(t, rec, verified) /\ rec.at # "aggregate"
      BY <1>1, <2>2, <3>2, <3>3 DEF M!ReadApprovals, M!At, HoldsKnown, TaskRecord, Places
    <3> QED BY <3>1, <3>4
  <2>3. CASE M!ReadCollectors(t)
    <3> DEFINE rec == [at |-> "each", loaded |-> old.loaded, todo |-> collectors \X {t[1]}]
    <3>1. task' = [task EXCEPT ![t] = rec]
      BY <2>3 DEF M!ReadCollectors, M!Move
    <3>2. collectors \X {t[1]} \subseteq Incorporated \X verified
      BY <1>1, <2>3 DEF M!ReadCollectors, M!At, HoldsKnown, CollectorInv, M!TypeOK
    <3>3. verified \subseteq Approvals
      BY DEF CollectorInv, M!TypeOK
    <3>4. HoldsKnown(t, rec, verified) /\ rec.at # "aggregate"
      BY <1>1, <2>3, <3>2, <3>3 DEF M!ReadCollectors, M!At, HoldsKnown, TaskRecord, Places
    <3> QED BY <3>1, <3>4
  <2> QED BY <2>1, <2>2, <2>3
<1>4. TasksOK'
  BY <1>2, <1>3, QuietMove
<1>5. M!TypeOK'
  BY <1>2, <1>4 DEF CollectorInv, M!TypeOK, TasksOK
<1> QED BY <1>2, <1>4, <1>5, VerifyingKept

\* ProcessApproval: a valid approval becomes known.
LEMMA ProcessApprovalStep ==
    ASSUME CollectorInv, NEW t \in M!Inputs \X M!Origins, M!ProcessApproval(t)
    PROVE  CollectorInv'
<1> DEFINE old == task[t]
<1>1. old \in TaskRecord /\ HoldsKnown(t, old, verified) /\ old.at = "process"
  BY DEF CollectorInv, TasksOK, M!ProcessApproval, M!At
<1>2. /\ UNCHANGED <<status, cachedResults, cachedApprovals, changer, collectors, signers,
                     aggregated, seals>>
      /\ t[1] \in Approvals
  BY DEF M!ProcessApproval, M!machine
<1>3. PICK rec :
         /\ task' = [task EXCEPT ![t] = rec]
         /\ HoldsKnown(t, rec, verified') /\ rec.at # "aggregate"
         /\ \/ verified' = verified
            \/ verified' = verified \cup {t[1]} /\ t[1].valid
  <2>1. CASE t[1].valid /\ verified' = verified \cup {t[1]}
    <3> DEFINE rec == [at |-> IF t[1] \in verified THEN "compare" ELSE "readCollectors",
                       loaded |-> old.loaded, todo |-> old.todo]
    <3>1. task' = [task EXCEPT ![t] = rec]
      BY <2>1 DEF M!ProcessApproval, M!Goto, M!Move
    <3>2. HoldsKnown(t, rec, verified') /\ rec.at # "aggregate"
      BY <1>1, <2>1 DEF HoldsKnown, TaskRecord, Places
    <3> QED BY <2>1, <3>1, <3>2
  <2>2. CASE M!Done(t) /\ UNCHANGED verified
    <3> DEFINE rec == [at |-> "done", loaded |-> "caching", todo |-> {}]
    <3>1. HoldsKnown(t, rec, verified') /\ rec.at # "aggregate"
      BY DEF HoldsKnown, TaskRecord, Places, Statuses
    <3> QED BY <2>2, <3>1 DEF M!Done, M!Move
  <2> QED BY <2>1, <2>2 DEF M!ProcessApproval
<1>4. task'[t] = rec
  BY <1>3 DEF CollectorInv, TasksOK
<1>5. AboutToAggregate(t)'
  BY <1>3, <1>4 DEF AboutToAggregate
<1>6. \A ir \in Incorporated, c \in Chunks : Sufficient(ir, c) => Sufficient(ir, c)'
  BY <1>2 DEF Sufficient
<1>7. verified \subseteq verified' /\ verified' \subseteq Approvals /\ \A a \in verified' : a.valid
  BY <1>2, <1>3 DEF CollectorInv, M!TypeOK
<1>8. TasksOK'
  BY <1>3, <1>5, <1>6, <1>7, OneTaskMoves DEF CollectorInv
<1>9. M!TypeOK'
  BY <1>2, <1>7, <1>8 DEF CollectorInv, M!TypeOK, TasksOK
<1>10. \A ir \in Incorporated, c \in Chunks : ChunkOK(ir, c)'
  BY <1>2, <1>7 DEF CollectorInv, ChunkOK, Supporters, Sufficient
<1> QED BY <1>2, <1>7, <1>8, <1>9, <1>10 DEF CollectorInv

\* ApprovalCollector.ProcessApproval: the signature of an assigned verifier is added, under
\* the approval that the call holds.
LEMMA AddSignatureStep ==
    ASSUME CollectorInv, NEW t \in M!Inputs \X M!Origins, NEW ir, NEW a, M!AddSignature(t, ir, a)
    PROVE  CollectorInv'
<1> DEFINE old == task[t]
           rest == old.todo \ {<<ir, a>>}
           all == signers[ir][a.chunk] \cup {a.verifier}
<1>1. old \in TaskRecord /\ HoldsKnown(t, old, verified) /\ old.at = "each"
  BY DEF CollectorInv, TasksOK, M!AddSignature, M!At
<1>2. /\ UNCHANGED <<status, cachedResults, cachedApprovals, changer, collectors, verified,
                     aggregated, seals>>
  BY DEF M!AddSignature, M!machine
<1>3. ir \in Incorporated /\ a \in verified
  BY <1>1 DEF M!AddSignature, HoldsKnown
<1>4. a.valid /\ a.chunk \in Chunks
  BY <1>3, CollectorConstants DEF CollectorInv, M!TypeOK
<1>5. CASE UNCHANGED signers /\ M!Move(t, "each", old.loaded, rest)
  <2> DEFINE rec == [at |-> "each", loaded |-> old.loaded, todo |-> rest]
  <2>1. HoldsKnown(t, rec, verified) /\ rec.at # "aggregate"
    BY <1>1 DEF HoldsKnown, TaskRecord
  <2>2. task' = [task EXCEPT ![t] = rec]
    BY <1>5 DEF M!Move
  <2> HIDE DEF rec
  <2>3. TasksOK'
    BY <1>2, <1>5, <2>1, <2>2, QuietMove
  <2>4. M!TypeOK'
    BY <1>2, <2>3 DEF CollectorInv, M!TypeOK, TasksOK
  <2> QED BY <1>2, <1>5, <2>3, <2>4, VerifyingKept
<1>6. CASE /\ a.verifier \in Assigned[ir][a.chunk]
           /\ signers' = [signers EXCEPT ![ir][a.chunk] = all]
           /\ IF M!Cardinality(all) >= Required
              THEN M!Move(t, "aggregate", <<old.loaded, ir, a.chunk>>, rest)
              ELSE M!Move(t, "each", old.loaded, rest)
  <2> DEFINE enough == M!Cardinality(all) >= Required
             rec == [at |-> IF enough THEN "aggregate" ELSE "each",
                     loaded |-> IF enough THEN <<old.loaded, ir, a.chunk>> ELSE old.loaded,
                     todo |-> rest]
  <2>1. HoldsKnown(t, rec, verified)
    <3>1. old.loaded \in Statuses /\ rest \subseteq old.todo
      BY <1>1 DEF HoldsKnown
    <3>2. <<old.loaded, ir, a.chunk>> \in Statuses \X Incorporated \X Chunks
      BY <1>3, <1>4, <3>1
    <3> HIDE DEF enough, rest
    <3> QED BY <1>1, <3>1, <3>2 DEF HoldsKnown, TaskRecord, Places
  <2>2. task' = [task EXCEPT ![t] = rec]
    BY <1>6 DEF M!Move
  <2>3. \A i \in Incorporated, c \in Chunks :
           signers'[i][c] = IF i = ir /\ c = a.chunk THEN all ELSE signers[i][c]
    BY <1>3, <1>4, <1>6 DEF CollectorInv
  <2>4. a.verifier \in Supporters(ir, a.chunk)
    BY <1>3, <1>4, <1>6 DEF Supporters
  <2>5. ASSUME NEW i \in Incorporated, NEW c \in Chunks
        PROVE  /\ signers[i][c] \subseteq signers'[i][c]
               /\ signers'[i][c] \subseteq Supporters(i, c)
               /\ IsFiniteSet(signers'[i][c])
               /\ Sufficient(i, c) => Sufficient(i, c)'
    <3>1. signers[i][c] \subseteq Supporters(i, c)
      BY DEF CollectorInv, ChunkOK
    <3>2. signers[i][c] \subseteq signers'[i][c] /\ signers'[i][c] \subseteq Supporters(i, c)
      BY <2>3, <2>4, <3>1
    <3>3. Supporters(i, c) \subseteq Assigned[i][c]
      BY DEF Supporters
    <3>4. IsFiniteSet(signers'[i][c])
      BY <3>2, <3>3, CollectorConstants, FS_Subset
    <3>5. Sufficient(i, c) => Sufficient(i, c)'
      BY <3>2, <3>4, LargerSuffices DEF Sufficient
    <3> QED BY <3>2, <3>4, <3>5
  <2>6. AboutToAggregate(t)'
    <3>1. task'[t] = rec
      BY <2>2 DEF CollectorInv, TasksOK
    <3>2. ASSUME rec.at = "aggregate"
          PROVE  M!Cardinality(signers'[rec.loaded[2]][rec.loaded[3]]) >= Required
      <4>1. enough
        BY <3>2
      <4>2. rec.loaded = <<old.loaded, ir, a.chunk>>
        BY <4>1
      <4>3. rec.loaded[2] = ir /\ rec.loaded[3] = a.chunk
        BY <4>2
      <4>4. signers'[ir][a.chunk] = all
        BY <1>3, <1>4, <2>3
      <4> QED BY <4>1, <4>3, <4>4
    <3> HIDE DEF rec
    <3> QED BY <3>1, <3>2 DEF AboutToAggregate, Sufficient
  <2> HIDE DEF rec, all
  <2>7. TasksOK'
    BY <1>2, <2>1, <2>2, <2>5, <2>6, OneTaskMoves DEF CollectorInv
  <2>8. M!TypeOK'
    BY <1>2, <2>7 DEF CollectorInv, M!TypeOK, TasksOK
  <2>9. \A i \in Incorporated, c \in Chunks : ChunkOK(i, c)'
    BY <1>2, <2>5 DEF CollectorInv, ChunkOK, Supporters
  <2>10. signers' \in [Incorporated -> [Chunks -> SUBSET Verifiers]]
    <3>1. all \subseteq Verifiers
      <4>1. Assigned[ir][a.chunk] \subseteq Verifiers
        BY <1>3, <1>4 DEF Verifiers
      <4>2. signers[ir][a.chunk] \subseteq Verifiers
        BY <1>3, <1>4 DEF CollectorInv
      <4> QED BY <1>6, <4>1, <4>2 DEF all
    <3> QED BY <1>3, <1>4, <1>6, <3>1 DEF CollectorInv
  <2> QED BY <1>2, <2>7, <2>8, <2>9, <2>10 DEF CollectorInv
<1> QED BY <1>5, <1>6 DEF M!AddSignature

\* PutSignature: a chunk with enough signatures is aggregated, and the last one seals.
LEMMA AggregateStep ==
    ASSUME CollectorInv, NEW t \in M!Inputs \X M!Origins, M!Aggregate(t)
    PROVE  CollectorInv'
<1> DEFINE old == task[t]
           ir == old.loaded[2]
           chunk == old.loaded[3]
           rec == [at |-> "each", loaded |-> old.loaded[1], todo |-> old.todo]
<1>1. old \in TaskRecord /\ HoldsKnown(t, old, verified) /\ old.at = "aggregate"
      /\ AboutToAggregate(t)
  BY DEF CollectorInv, TasksOK, M!Aggregate, M!At
<1>2. /\ UNCHANGED <<status, cachedResults, cachedApprovals, changer, collectors, verified,
                     signers>>
      /\ aggregated' = [aggregated EXCEPT ![ir] = aggregated[ir] \cup {chunk}]
      /\ seals' = IF aggregated[ir] \cup {chunk} = Chunks THEN seals \cup {ir} ELSE seals
      /\ task' = [task EXCEPT ![t] = rec]
  BY DEF M!Aggregate, M!machine, M!Move
<1>3. old.loaded[1] \in Statuses /\ ir \in Incorporated /\ chunk \in Chunks
      /\ Sufficient(ir, chunk)
  BY <1>1 DEF HoldsKnown, AboutToAggregate
<1>4. HoldsKnown(t, rec, verified) /\ rec.at # "aggregate"
  BY <1>1, <1>3 DEF HoldsKnown, TaskRecord, Places
<1> HIDE DEF rec, ir, chunk
<1>5. TasksOK'
  BY <1>2, <1>4, QuietMove
<1>6. aggregated' \in [Incorporated -> SUBSET Chunks]
  BY <1>2, <1>3 DEF CollectorInv
<1>7. seals' \subseteq Incorporated
  BY <1>2, <1>3 DEF CollectorInv, M!TypeOK
<1>8. M!TypeOK'
  BY <1>2, <1>5, <1>6, <1>7 DEF CollectorInv, M!TypeOK, TasksOK
<1>9. ASSUME NEW i \in Incorporated, NEW c \in Chunks PROVE ChunkOK(i, c)'
  <2>1. ChunkOK(i, c) /\ (Sufficient(i, c)' <=> Sufficient(i, c))
    BY <1>2 DEF CollectorInv, Sufficient
  <2>2. c \in aggregated'[i] => c \in aggregated[i] \/ (i = ir /\ c = chunk)
    BY <1>2, <1>3 DEF CollectorInv
  <2> QED BY <1>2, <1>3, <2>1, <2>2 DEF ChunkOK, Supporters
<1>10. ASSUME NEW i \in seals' PROVE aggregated'[i] = Chunks
  <2>1. CASE i = ir
    <3>1. aggregated'[i] = aggregated[ir] \cup {chunk}
      BY <1>2, <1>3, <2>1 DEF CollectorInv
    <3>2. ir \in seals => aggregated[ir] = Chunks
      BY DEF CollectorInv
    <3> QED BY <1>2, <1>3, <1>10, <2>1, <3>1, <3>2
  <2>2. CASE i # ir
    <3>1. i \in seals
      BY <1>2, <1>10, <2>2
    <3>2. aggregated'[i] = aggregated[i]
      BY <1>2, <1>7, <2>2 DEF CollectorInv
    <3> QED BY <3>1, <3>2 DEF CollectorInv
  <2> QED BY <2>1, <2>2
<1> QED BY <1>2, <1>5, <1>6, <1>8, <1>9, <1>10 DEF CollectorInv

\* Every step of the composition keeps the invariant of AssignmentCollector.
LEMMA CollectorStep == CollectorInv /\ [Next]_vars => CollectorInv'
<1> SUFFICES ASSUME CollectorInv, [Next]_vars PROVE CollectorInv'
  OBVIOUS
<1>1. CASE M!Next
  <2>1. DOMAIN task = M!Inputs \X M!Origins
    BY DEF CollectorInv, M!TypeOK
  <2>2. ASSUME NEW i \in M!Inputs, M!Submit(i) PROVE CollectorInv'
    <3>1. <<i, "engine">> \in M!Inputs \X M!Origins
      BY DEF M!Origins
    <3> QED BY <2>2, <3>1, MachineTaskStep DEF M!Submit
  <2>3. ASSUME NEW t \in DOMAIN task, M!TaskStep(t) PROVE CollectorInv'
    <3>1. CASE M!Load(t)
      BY <2>1, <3>1, MachineTaskStep DEF M!Load
    <3>2. CASE \E p \in task[t].todo : M!AddSignature(t, p[1], p[2])
      BY <2>1, <3>2, AddSignatureStep
    <3> QED BY <2>1, <2>3, <3>1, <3>2, MachineTaskStep, ReadStep, ProcessApprovalStep,
               AggregateStep DEF M!TaskStep
  <2> QED BY <1>1, <2>2, <2>3, ChangerStep DEF M!Next, M!Step
<1>2. CASE UNCHANGED collector
  <2>1. TasksOK'
    BY <1>2 DEF collector, CollectorInv, TasksOK, AboutToAggregate, Sufficient
  <2>2. M!TypeOK'
    BY <1>2 DEF collector, CollectorInv, M!TypeOK
  <2> QED BY <1>2, <2>1, <2>2, VerifyingKept DEF collector
<1> QED BY <1>1, <1>2 DEF Next, vars, OnlyCore

\* AssignmentCollector: a candidate seal is approved, for any number of incorporated results,
\* chunks, approvals and calls at a time.
THEOREM SealIsApprovedTheorem == Spec => []SealIsApproved
<1>1. Init => CollectorInv
  BY CollectorInit DEF Init
<1>2. CollectorInv => SealIsApproved
  <2> SUFFICES ASSUME CollectorInv PROVE SealIsApproved
    OBVIOUS
  <2>1. ASSUME NEW ir \in seals, NEW c \in Chunks
        PROVE  M!Cardinality(Supporters(ir, c)) >= Required
    <3>1. ir \in Incorporated /\ c \in aggregated[ir]
      BY DEF CollectorInv, M!TypeOK
    <3>2. signers[ir][c] \subseteq Supporters(ir, c) /\ Sufficient(ir, c)
      BY <3>1 DEF CollectorInv, ChunkOK
    <3>3. Supporters(ir, c) \subseteq Assigned[ir][c] /\ IsFiniteSet(Assigned[ir][c])
      BY <3>1, CollectorConstants DEF Supporters
    <3>4. IsFiniteSet(Supporters(ir, c))
      BY <3>3, FS_Subset
    <3> QED BY <3>2, <3>4, LargerSuffices DEF Sufficient
  <2> QED BY <2>1 DEF SealIsApproved, M!SealIsApproved, Supporters, CollectorInv
<1> QED BY <1>1, <1>2, CollectorStep, PTL DEF Spec

-----------------------------------------------------------------------------
(***************************************************************************)
(* Following parents or previous results.  Chain and Ancestry are recursive *)
(* functions; that they satisfy their equation follows from the existence  *)
(* of a function that does, the closure of a node under the next one.      *)
(***************************************************************************)

\* A set of natural numbers has a least element.
LEMMA LeastNatural ==
    ASSUME NEW N \in SUBSET Nat, N # {}
    PROVE  \E x \in N : \A y \in N : x <= y
<1> DEFINE Less == {p \in Nat \X Nat : p[1] < p[2]}
<1>1. IsWellFoundedOn(Less, Nat)
  BY NatLessThanWellFounded, Zenon DEF OpToRel
<1> HIDE DEF Less
<1>2. PICK x \in N : \A y \in N : ~ (<<y, x>> \in Less)
  BY <1>1, WFMin
<1>3. ASSUME NEW y \in N PROVE x <= y
  <2>1. ~ (y < x)
    BY <1>2 DEF Less
  <2> QED BY <2>1
<1> QED BY <1>3

Solves(g, N, Ends, f) ==
    /\ g = [x \in N |-> g[x]]
    /\ \A x \in N : g[x] = {x} \cup IF x \in Ends THEN {} ELSE g[f[x]]

\* The sets reached from a node by following f up to an end satisfy the recursive equation.
LEMMA RecursionHasSolution ==
    ASSUME NEW N, NEW Ends, NEW f, \A x \in N \ Ends : f[x] \in N
    PROVE  \E g : Solves(g, N, Ends, f)
<1> DEFINE Closed(P) == P \in SUBSET N /\ \A y \in P : y \notin Ends => f[y] \in P
           Reached(x) == {z \in N : \A P \in SUBSET N : Closed(P) /\ x \in P => z \in P}
           g == [x \in N |-> Reached(x)]
<1>1. ASSUME NEW x \in N, x \in Ends PROVE Reached(x) = {x}
  <2>1. Closed({x})
    BY <1>1
  <2> HIDE DEF Closed
  <2> QED BY <2>1
<1>2. ASSUME NEW x \in N, x \notin Ends PROVE Reached(x) = {x} \cup Reached(f[x])
  <2>1. x \in Reached(x)
    OBVIOUS
  <2>2. ASSUME NEW z \in Reached(f[x]) PROVE z \in Reached(x)
    BY <1>2
  <2>3. ASSUME NEW z \in Reached(x), z # x PROVE z \in Reached(f[x])
    <3> SUFFICES ASSUME NEW P \in SUBSET N, Closed(P), f[x] \in P PROVE z \in P
      OBVIOUS
    <3>1. Closed(P \cup {x}) /\ x \in P \cup {x} /\ P \cup {x} \in SUBSET N
      BY <1>2
    <3>2. z \in P \cup {x}
      BY <3>1
    <3> QED BY <2>3, <3>2
  <2> QED BY <2>1, <2>2, <2>3
<1> HIDE DEF Reached
<1>3. ASSUME NEW x \in N PROVE g[x] = {x} \cup IF x \in Ends THEN {} ELSE g[f[x]]
  BY <1>1, <1>2
<1>4. g = [x \in N |-> g[x]]
  OBVIOUS
<1> HIDE DEF g
<1>5. Solves(g, N, Ends, f)
  BY <1>3, <1>4 DEF Solves
<1> QED BY <1>5

\* What is assumed of the constants of the core, apart from the seals
LEMMA CoreConstants ==
    /\ Root \in Blocks
    /\ Height \in [Blocks -> Nat]
    /\ \A b \in Blocks \ {Root} : Parent[b] \in Blocks /\ Height[b] = Height[Parent[b]] + 1
    /\ BlockOf \in [Results -> Blocks \ {Root}]
    /\ \A r \in Results : Previous[r] # NoResult =>
          Previous[r] \in Results /\ BlockOf[Previous[r]] = Parent[BlockOf[r]]
    /\ Incoming \in Seq(K!IncorporatedResults)
    /\ K!IncorporatedResults \cap ResultApprovals = {}
    /\ \A i \in K!Inputs : i.result \in Results
BY SealingAssumption DEF SealingAssumption, K!ConstantsAssumption

\* Chain satisfies its equation.
LEMMA ChainEquation ==
    \A b \in Blocks : K!Chain[b] = {b} \cup IF b = Root THEN {} ELSE K!Chain[Parent[b]]
<1> DEFINE IsChain(g) == g = [b \in Blocks |-> {b} \cup IF b = Root THEN {} ELSE g[Parent[b]]]
           Ends == {Root}
<1>1. \E g : IsChain(g)
  <2>1. \A x \in Blocks \ Ends : Parent[x] \in Blocks
    BY CoreConstants
  <2>2. PICK g : Solves(g, Blocks, Ends, Parent)
    <3> HIDE DEF Ends
    <3> QED BY <2>1, RecursionHasSolution
  <2>3. IsChain(g)
    BY <2>2 DEF Solves
  <2> HIDE DEF IsChain
  <2> QED BY <2>3
<1>2. K!Chain = CHOOSE g : IsChain(g)
  BY DEF K!Chain
<1>3. IsChain(K!Chain)
  <2> HIDE DEF IsChain
  <2> QED BY <1>1, <1>2
<1> QED BY <1>3

\* So does Ancestry.
LEMMA AncestryEquation ==
    \A r \in Results :
        K!Ancestry[r] = {r} \cup IF Previous[r] = NoResult THEN {} ELSE K!Ancestry[Previous[r]]
<1> DEFINE IsAncestry(g) ==
             g = [r \in Results |->
                    {r} \cup IF Previous[r] = NoResult THEN {} ELSE g[Previous[r]]]
           Ends == {r \in Results : Previous[r] = NoResult}
<1>1. \E g : IsAncestry(g)
  <2>1. \A x \in Results \ Ends : Previous[x] \in Results
    BY CoreConstants
  <2>2. PICK g : Solves(g, Results, Ends, Previous)
    <3> HIDE DEF Ends
    <3> QED BY <2>1, RecursionHasSolution
  <2>3. IsAncestry(g)
    BY <2>2 DEF Solves
  <2> HIDE DEF IsAncestry
  <2> QED BY <2>3
<1>2. K!Ancestry = CHOOSE g : IsAncestry(g)
  BY DEF K!Ancestry
<1>3. IsAncestry(K!Ancestry)
  <2> HIDE DEF IsAncestry
  <2> QED BY <1>1, <1>2
<1> QED BY <1>3

\* Induction along the parents, for a set of blocks
LEMMA BlockInduction ==
    ASSUME NEW P \in SUBSET Blocks, Root \in P,
           \A b \in Blocks \ {Root} : Parent[b] \in P => b \in P
    PROVE  P = Blocks
<1> SUFFICES ASSUME P # Blocks PROVE FALSE
  OBVIOUS
<1> DEFINE heights == {Height[b] : b \in Blocks \ P}
<1>1. heights \in SUBSET Nat /\ heights # {}
  <2>1. \A b \in Blocks : Height[b] \in Nat
    BY CoreConstants
  <2>2. PICK b \in Blocks \ P : TRUE
    OBVIOUS
  <2>3. Height[b] \in heights
    OBVIOUS
  <2> QED BY <2>1, <2>3
<1>2. PICK h \in heights : \A k \in heights : h <= k
  <2> HIDE DEF heights
  <2> QED BY <1>1, LeastNatural
<1>3. PICK b \in Blocks \ P : Height[b] = h
  OBVIOUS
<1>4. b # Root /\ Parent[b] \in Blocks /\ Height[b] = Height[Parent[b]] + 1 /\ Parent[b] \notin P
  BY CoreConstants
<1>5. Height[Parent[b]] \in heights /\ Height[Parent[b]] \in Nat
  BY <1>4, CoreConstants
<1> HIDE DEF heights
<1> QED BY <1>2, <1>3, <1>4, <1>5

\* Induction along the previous results, for a set of results
LEMMA ResultInduction ==
    ASSUME NEW P \in SUBSET Results,
           \A r \in Results : (Previous[r] # NoResult => Previous[r] \in P) => r \in P
    PROVE  P = Results
<1> SUFFICES ASSUME P # Results PROVE FALSE
  OBVIOUS
<1> DEFINE levels == {K!Level(r) : r \in Results \ P}
<1>1. levels \in SUBSET Nat /\ levels # {}
  <2>1. \A r \in Results : K!Level(r) \in Nat
    BY CoreConstants DEF K!Level
  <2>2. PICK r \in Results \ P : TRUE
    OBVIOUS
  <2>3. K!Level(r) \in levels
    OBVIOUS
  <2> QED BY <2>1, <2>3
<1>2. PICK h \in levels : \A k \in levels : h <= k
  <2> HIDE DEF levels
  <2> QED BY <1>1, LeastNatural
<1>3. PICK r \in Results \ P : K!Level(r) = h
  OBVIOUS
<1>4. Previous[r] \in Results \ P
  BY CoreConstants
<1>5. K!Level(r) = K!Level(Previous[r]) + 1 /\ K!Level(Previous[r]) \in Nat
  BY <1>4, CoreConstants DEF K!Level
<1>6. K!Level(Previous[r]) \in levels
  BY <1>4
<1> HIDE DEF levels
<1> QED BY <1>2, <1>3, <1>5, <1>6

\* A chain goes down to the root, height by height.
LEMMA ChainGoesDown ==
    ASSUME NEW b \in Blocks
    PROVE  /\ b \in K!Chain[b]
           /\ Height[Root] <= Height[b]
           /\ \A x \in K!Chain[b] : x \in Blocks /\ (x = b \/ Height[x] < Height[b])
<1> DEFINE P == {y \in Blocks : /\ Height[Root] <= Height[y]
                                /\ \A x \in K!Chain[y] :
                                      x \in Blocks /\ (x = y \/ Height[x] < Height[y])}
<1>1. Root \in P
  BY ChainEquation, CoreConstants
<1>2. ASSUME NEW y \in Blocks \ {Root}, Parent[y] \in P PROVE y \in P
  <2>1. /\ K!Chain[y] = {y} \cup K!Chain[Parent[y]]
        /\ Height[y] = Height[Parent[y]] + 1 /\ Height[Parent[y]] \in Nat
        /\ \A x \in Blocks : Height[x] \in Nat
    BY ChainEquation, CoreConstants
  <2> QED BY <1>2, <2>1, CoreConstants
<1>3. P = Blocks
  <2> HIDE DEF P
  <2>1. P \in SUBSET Blocks
    BY DEF P
  <2> QED BY <1>1, <1>2, <2>1, BlockInduction
<1>4. b \in K!Chain[b]
  BY ChainEquation
<1> QED BY <1>3, <1>4

\* What is on the chain of a block on a chain is on that chain.
LEMMA ChainIsTransitive ==
    ASSUME NEW z \in Blocks, NEW y \in K!Chain[z], NEW x \in K!Chain[y]
    PROVE  x \in K!Chain[z]
<1> DEFINE P == {b \in Blocks : y \in K!Chain[b] => x \in K!Chain[b]}
<1>1. Root \in P
  BY ChainEquation, CoreConstants
<1>2. ASSUME NEW b \in Blocks \ {Root}, Parent[b] \in P PROVE b \in P
  <2>1. K!Chain[b] = {b} \cup K!Chain[Parent[b]]
    BY ChainEquation
  <2> QED BY <1>2, <2>1
<1>3. P = Blocks
  <2> HIDE DEF P
  <2>1. P \in SUBSET Blocks
    BY DEF P
  <2> QED BY <1>1, <1>2, <2>1, BlockInduction
<1> QED BY <1>3

\* A chain has one block of a height.
LEMMA ChainHasOnePerHeight ==
    ASSUME NEW z \in Blocks, NEW x \in K!Chain[z], NEW y \in K!Chain[z], Height[x] = Height[y]
    PROVE  x = y
<1> DEFINE P == {b \in Blocks : x \in K!Chain[b] /\ y \in K!Chain[b] => x = y}
<1>1. Root \in P
  BY ChainEquation, CoreConstants
<1>2. ASSUME NEW b \in Blocks \ {Root}, Parent[b] \in P PROVE b \in P
  <2>1. K!Chain[b] = {b} \cup K!Chain[Parent[b]] /\ Parent[b] \in Blocks
        /\ Height[b] = Height[Parent[b]] + 1
    BY ChainEquation, CoreConstants
  <2>2. \A v \in K!Chain[Parent[b]] : Height[v] # Height[b]
    <3>1. \A v \in K!Chain[Parent[b]] :
             v \in Blocks /\ (v = Parent[b] \/ Height[v] < Height[Parent[b]])
      BY <2>1, ChainGoesDown
    <3>2. \A v \in Blocks : Height[v] \in Nat
      BY CoreConstants
    <3> QED BY <2>1, <3>1, <3>2
  <2> QED BY <1>2, <2>1, <2>2
<1>3. P = Blocks
  <2> HIDE DEF P
  <2>1. P \in SUBSET Blocks
    BY DEF P
  <2> QED BY <1>1, <1>2, <2>1, BlockInduction
<1> QED BY <1>3

\* The sealed block goes up a chain, and is below the block that finalizes its seal.
LEMMA SealsGoUp ==
    ASSUME NEW z \in Blocks
    PROVE  /\ SealedBy[z] \in K!Chain[z]
           /\ z # Root => Height[SealedBy[z]] < Height[z]
           /\ \A x \in K!Chain[z] : Height[SealedBy[x]] <= Height[SealedBy[z]]
<1>1. /\ \A b \in Blocks \ {Root} :
            /\ SealedBy[b] \in K!Chain[Parent[b]]
            /\ Height[SealedBy[Parent[b]]] <= Height[SealedBy[b]]
      /\ SealedBy[Root] = Root
  BY SealingAssumption DEF SealingAssumption, K!ConstantsAssumption
<1>2. SealedBy[z] \in K!Chain[z]
  BY <1>1, ChainEquation
<1>3. ASSUME z # Root PROVE Height[SealedBy[z]] < Height[z]
  <2>1. /\ Parent[z] \in Blocks /\ SealedBy[z] \in K!Chain[Parent[z]]
        /\ Height[z] = Height[Parent[z]] + 1
    BY <1>1, <1>3, CoreConstants
  <2>2. SealedBy[z] \in Blocks /\ (SealedBy[z] = Parent[z] \/ Height[SealedBy[z]] < Height[Parent[z]])
    BY <2>1, ChainGoesDown
  <2>3. Height[SealedBy[z]] \in Nat /\ Height[Parent[z]] \in Nat
    BY <2>1, <2>2, CoreConstants
  <2> QED BY <2>1, <2>2, <2>3
<1> DEFINE P == {b \in Blocks : \A x \in K!Chain[b] : Height[SealedBy[x]] <= Height[SealedBy[b]]}
<1>4. \A b \in Blocks : Height[SealedBy[b]] \in Nat
  <2> SUFFICES ASSUME NEW b \in Blocks PROVE Height[SealedBy[b]] \in Nat
    OBVIOUS
  <2>1. SealedBy[b] \in K!Chain[b]
    BY <1>1, ChainEquation
  <2>2. SealedBy[b] \in Blocks
    BY <2>1, ChainGoesDown
  <2> QED BY <2>2, CoreConstants
<1>5. Root \in P
  BY <1>4, ChainEquation, CoreConstants
<1>6. ASSUME NEW b \in Blocks \ {Root}, Parent[b] \in P PROVE b \in P
  <2>1. K!Chain[b] = {b} \cup K!Chain[Parent[b]] /\ Parent[b] \in Blocks
    BY ChainEquation, CoreConstants
  <2>2. \A x \in K!Chain[Parent[b]] : Height[SealedBy[x]] <= Height[SealedBy[b]]
    <3>1. \A x \in K!Chain[Parent[b]] :
             x \in Blocks /\ Height[SealedBy[x]] <= Height[SealedBy[Parent[b]]]
      BY <1>6, <2>1, ChainGoesDown
    <3> QED BY <1>1, <1>4, <2>1, <3>1
  <2> QED BY <1>4, <2>1, <2>2
<1>7. P = Blocks
  <2> HIDE DEF P
  <2>1. P \in SUBSET Blocks
    BY DEF P
  <2> QED BY <1>5, <1>6, <2>1, BlockInduction
<1> QED BY <1>2, <1>3, <1>7

\* The results that a result builds on are for lower blocks.
LEMMA AncestryGoesDown ==
    ASSUME NEW r \in Results
    PROVE  /\ r \in K!Ancestry[r]
           /\ \A e \in K!Ancestry[r] : e \in Results /\ (e = r \/ K!Level(e) < K!Level(r))
<1> DEFINE P == {q \in Results : \A e \in K!Ancestry[q] :
                                    e \in Results /\ (e = q \/ K!Level(e) < K!Level(q))}
<1>1. ASSUME NEW q \in Results, Previous[q] # NoResult => Previous[q] \in P PROVE q \in P
  <2>1. CASE Previous[q] = NoResult
    BY <2>1, AncestryEquation
  <2>2. CASE Previous[q] # NoResult
    <3>1. K!Ancestry[q] = {q} \cup K!Ancestry[Previous[q]]
      BY <2>2, AncestryEquation
    <3>2. K!Level(q) = K!Level(Previous[q]) + 1 /\ \A e \in Results : K!Level(e) \in Nat
      BY <2>2, CoreConstants DEF K!Level
    <3> QED BY <1>1, <2>2, <3>1, <3>2
  <2> QED BY <2>1, <2>2
<1>2. P = Results
  <2> HIDE DEF P
  <2>1. P \in SUBSET Results
    BY DEF P
  <2> QED BY <1>1, <2>1, ResultInduction
<1>3. r \in K!Ancestry[r]
  BY AncestryEquation
<1> QED BY <1>2, <1>3

-----------------------------------------------------------------------------
(***************************************************************************)
(* SealingCore.                                                            *)
(***************************************************************************)
\* The finalizer follows the finalized chain, and the tree the finalizer: the sealed block
\* of the tree is on the finalized chain and not above the one the finalizer will set.
FinalizationOK ==
    /\ counterSealed \in Nat /\ lowestLevel \in Nat /\ treeFinalizedHeight \in Nat
    /\ finalizer \in [at : {"idle", "seal", "prune"}, block : Blocks]
    /\ finalizer.block \in K!Chain[final] /\ treeSealed \in K!Chain[final]
    /\ counterFinalized = Height[finalizer.block]
    /\ treeFinalizedHeight <= Height[finalizer.block]
    /\ treeSealedHeight = Height[treeSealed]
    /\ Height[treeSealed] <= Height[SealedBy[finalizer.block]]

QueuesOK ==
    /\ coming \in Seq(K!IncorporatedResults) /\ pending \in Seq(K!IncorporatedResults)
    /\ DOMAIN work = K!Inputs

\* The inductive invariant of SealingCore
CoreInv ==
    /\ K!TypeOK
    /\ FinalizationOK
    /\ QueuesOK
    /\ K!NoApprovalLost
    /\ K!ProcessableFork

\* A level is a natural number.
LEMMA LevelType == \A r \in Results : K!Level(r) \in Nat
BY CoreConstants DEF K!Level

\* The core starts from the root, which is finalized and sealed.
LEMMA CoreInit == K!Init => CoreInv
<1> SUFFICES ASSUME K!Init PROVE CoreInv
  OBVIOUS
<1>1. Root \in K!Chain[Root] /\ Root \in Blocks /\ Height[Root] \in Nat
  BY ChainGoesDown, CoreConstants
<1>2. SealedBy[Root] = Root
  BY SealingAssumption DEF SealingAssumption, K!ConstantsAssumption
<1>3. finalizer \in [at : {"idle", "seal", "prune"}, block : Blocks] /\ finalizer.block = Root
  BY <1>1 DEF K!Init
<1>4. FinalizationOK
  BY <1>1, <1>2, <1>3 DEF K!Init, FinalizationOK
<1>5. QueuesOK
  BY CoreConstants DEF K!Init, QueuesOK
<1>6. tree \in [Results -> {"absent", "caching", "verifying", "orphaned"}] /\ K!InTree(tree) = {}
  BY DEF K!Init, K!InTree
<1>7. K!TypeOK
  BY <1>1, <1>3, <1>6 DEF K!Init, K!TypeOK
<1>8. K!NoApprovalLost
  BY DEF K!Init, K!NoApprovalLost, K!Inputs
<1>9. K!ProcessableFork
  BY <1>6 DEF K!ProcessableFork
<1> QED BY <1>4, <1>5, <1>7, <1>8, <1>9 DEF CoreInv

\* A step that leaves finalization and the tree alone
LEMMA TreeKept ==
    ASSUME CoreInv, QueuesOK', K!NoApprovalLost',
           approvalsCache' \subseteq ResultApprovals, processed' \subseteq K!Inputs,
           UNCHANGED <<final, finalizer, counterFinalized, counterSealed, tree, treeSealed,
                       treeFinalizedHeight, treeSealedHeight, lowestLevel, fatal>>
    PROVE  CoreInv'
<1>1. K!TypeOK'
  BY DEF CoreInv, K!TypeOK, K!InTree
<1>2. FinalizationOK'
  BY DEF CoreInv, FinalizationOK
<1>3. K!ProcessableFork'
  BY DEF CoreInv, K!ProcessableFork, K!InTree, K!IsRelevant
<1> QED BY <1>1, <1>2, <1>3 DEF CoreInv

\* The processing of an incorporated result goes on, with the tree as it is.
LEMMA ResultGoesOn ==
    ASSUME CoreInv,
           NEW ir \in K!IncorporatedResults, NEW pc,
           work' = [work EXCEPT ![ir] = pc],
           coming' \in Seq(K!IncorporatedResults), pending' \in Seq(K!IncorporatedResults),
           approvalsCache' \subseteq ResultApprovals, processed' \subseteq K!Inputs,
           processed \subseteq processed',
           approvalsCache \subseteq approvalsCache' \cup processed',
           counterSealed' = counterSealed
    PROVE  QueuesOK' /\ K!NoApprovalLost'
<1>1. QueuesOK'
  BY DEF CoreInv, QueuesOK
<1>2. ASSUME NEW a \in ResultApprovals, work'[a] = "done"
      PROVE  a \in processed' \cup approvalsCache' \/ counterSealed' >= K!Level(a.result)
  <2>1. a # ir /\ a \in K!Inputs
    BY CoreConstants DEF K!Inputs
  <2>2. work[a] = "done"
    BY <1>2, <2>1 DEF CoreInv, QueuesOK
  <2> QED BY <2>2 DEF CoreInv, K!NoApprovalLost
<1> QED BY <1>1, <1>2 DEF K!NoApprovalLost, K!Level

\* The queue of incorporated results, and the steps of a worker with one of them apart from
\* creating a collector
LEMMA ResultStep ==
    ASSUME CoreInv,
           \/ K!OnBlockIncorporated \/ K!PopResult
           \/ \E ir \in K!IncorporatedResults :
                 \/ K!CheckFork(ir) \/ K!GetOrCreateCollector(ir)
                 \/ K!ProcessIncorporatedResult(ir) \/ K!ProcessPendingApprovals(ir)
    PROVE  CoreInv'
<1>1. UNCHANGED <<final, finalizer, counterFinalized, counterSealed, tree, treeSealed,
                  treeFinalizedHeight, treeSealedHeight, lowestLevel, fatal>>
  BY DEF K!OnBlockIncorporated, K!PopResult, K!CheckFork, K!GetOrCreateCollector,
     K!ProcessIncorporatedResult, K!ProcessPendingApprovals, K!queueVars, K!coreVars, K!treeVars
<1>2. /\ coming \in Seq(K!IncorporatedResults) /\ pending \in Seq(K!IncorporatedResults)
      /\ approvalsCache \subseteq ResultApprovals /\ processed \subseteq K!Inputs
      /\ ResultApprovals \subseteq K!Inputs /\ K!IncorporatedResults \subseteq K!Inputs
  BY DEF CoreInv, QueuesOK, K!TypeOK, K!Inputs
<1>3. CASE K!OnBlockIncorporated
  <2>1. coming' \in Seq(K!IncorporatedResults) /\ pending' \in Seq(K!IncorporatedResults)
    BY <1>2, <1>3 DEF K!OnBlockIncorporated
  <2>2. UNCHANGED <<work, approvalsCache, processed>>
    BY <1>3 DEF K!OnBlockIncorporated
  <2>3. QueuesOK' /\ K!NoApprovalLost'
    BY <1>1, <2>1, <2>2 DEF CoreInv, QueuesOK, K!NoApprovalLost
  <2> QED BY <1>1, <1>2, <2>2, <2>3, TreeKept
<1>4. CASE K!PopResult
  <2>1. Head(pending) \in K!IncorporatedResults /\ pending' \in Seq(K!IncorporatedResults)
        /\ UNCHANGED <<coming, approvalsCache, processed>>
    BY <1>2, <1>4 DEF K!PopResult
  <2>2. PICK pc : work' = [work EXCEPT ![Head(pending)] = pc]
    BY <1>4 DEF K!PopResult, K!Goto
  <2>3. QueuesOK' /\ K!NoApprovalLost'
    BY <1>1, <1>2, <2>1, <2>2, ResultGoesOn
  <2> QED BY <1>1, <1>2, <2>1, <2>3, TreeKept
<1>5. ASSUME NEW ir \in K!IncorporatedResults,
             \/ K!CheckFork(ir) \/ K!GetOrCreateCollector(ir)
             \/ K!ProcessIncorporatedResult(ir) \/ K!ProcessPendingApprovals(ir)
      PROVE  CoreInv'
  <2>1. UNCHANGED <<coming, pending>>
    BY <1>5 DEF K!CheckFork, K!GetOrCreateCollector,
       K!ProcessIncorporatedResult, K!ProcessPendingApprovals, K!queueVars
  <2>2. PICK pc : work' = [work EXCEPT ![ir] = pc]
    BY <1>5 DEF K!CheckFork, K!GetOrCreateCollector,
       K!ProcessIncorporatedResult, K!ProcessPendingApprovals, K!Goto
  <2>3. /\ approvalsCache' \subseteq ResultApprovals /\ processed' \subseteq K!Inputs
        /\ processed \subseteq processed'
        /\ approvalsCache \subseteq approvalsCache' \cup processed'
    BY <1>2, <1>5 DEF K!CheckFork, K!GetOrCreateCollector,
       K!ProcessIncorporatedResult, K!ProcessPendingApprovals
  <2>4. QueuesOK' /\ K!NoApprovalLost'
    BY <1>1, <1>2, <2>1, <2>2, <2>3, ResultGoesOn
  <2> QED BY <1>1, <2>3, <2>4, TreeKept
<1> QED BY <1>3, <1>4, <1>5

\* The steps of a worker with an approval
LEMMA ApprovalStep ==
    ASSUME CoreInv, NEW a \in ResultApprovals, K!ApprovalStep(a)
    PROVE  CoreInv'
<1>1. UNCHANGED <<final, coming, pending, finalizer, counterFinalized, counterSealed, tree,
                  treeSealed, treeFinalizedHeight, treeSealedHeight, lowestLevel, fatal>>
  BY DEF K!ApprovalStep, K!PopApproval, K!GetCollector, K!ProcessApproval, K!PutApproval,
     K!queueVars, K!coreVars, K!treeVars
<1>2. PICK pc :
         /\ work' = [work EXCEPT ![a] = pc]
         /\ pc = "done" => a \in processed' \cup approvalsCache' \/ counterSealed >= K!Level(a.result)
  BY DEF K!ApprovalStep, K!PopApproval, K!GetCollector, K!ProcessApproval, K!PutApproval,
     K!Goto, K!IsOutdated
<1>3. a \in K!Inputs
  BY DEF K!Inputs
<1>4. /\ approvalsCache' \subseteq ResultApprovals /\ processed' \subseteq K!Inputs
      /\ processed \subseteq processed' /\ approvalsCache \subseteq approvalsCache'
  BY <1>3 DEF CoreInv, K!TypeOK, K!ApprovalStep, K!PopApproval, K!GetCollector,
     K!ProcessApproval, K!PutApproval
<1>5. ASSUME NEW b \in ResultApprovals, work'[b] = "done"
      PROVE  b \in processed' \cup approvalsCache' \/ counterSealed' >= K!Level(b.result)
  <2>1. CASE b = a
    BY <1>1, <1>2, <1>3, <1>5, <2>1 DEF CoreInv, QueuesOK
  <2>2. CASE b # a
    <3>1. work[b] = "done"
      BY <1>2, <1>5, <2>2 DEF CoreInv, QueuesOK, K!Inputs
    <3> QED BY <1>1, <1>4, <3>1 DEF CoreInv, K!NoApprovalLost
  <2> QED BY <2>1, <2>2
<1>6. K!NoApprovalLost'
  BY <1>5 DEF K!NoApprovalLost, K!Level
<1>7. QueuesOK'
  BY <1>1, <1>2 DEF CoreInv, QueuesOK
<1> QED BY <1>1, <1>4, <1>6, <1>7, TreeKept

\* The finalized chain grows above what the tree knows as finalized, so no result becomes
\* relevant or irrelevant.
LEMMA FinalizeStep ==
    ASSUME CoreInv, NEW b \in Blocks, K!Finalize(b)
    PROVE  CoreInv'
<1>1. /\ b # Root /\ Parent[b] = final /\ final' = b
      /\ UNCHANGED <<coming, pending, finalizer, counterFinalized, counterSealed, tree,
                     treeSealed, treeFinalizedHeight, treeSealedHeight, lowestLevel,
                     approvalsCache, work, processed, fatal>>
  BY DEF K!Finalize, K!coreVars, K!treeVars
<1>2. final \in Blocks /\ K!Chain[final'] = {b} \cup K!Chain[final]
      /\ Height[b] = Height[final] + 1 /\ Height[final] \in Nat
  BY <1>1, ChainEquation, CoreConstants DEF CoreInv, K!TypeOK
<1>3. treeFinalizedHeight < Height[b]
  <2>1. finalizer.block \in Blocks
        /\ (finalizer.block = final \/ Height[finalizer.block] < Height[final])
    BY <1>2, ChainGoesDown DEF CoreInv, FinalizationOK
  <2>2. treeFinalizedHeight <= Height[finalizer.block] /\ treeFinalizedHeight \in Nat
        /\ Height[finalizer.block] \in Nat
    BY <2>1, CoreConstants DEF CoreInv, FinalizationOK
  <2> QED BY <1>2, <2>1, <2>2
<1>4. FinalizationOK'
  BY <1>1, <1>2 DEF CoreInv, FinalizationOK
<1>5. K!TypeOK' /\ QueuesOK' /\ K!NoApprovalLost'
  BY <1>1 DEF CoreInv, K!TypeOK, K!InTree, QueuesOK, K!NoApprovalLost
<1>6. ASSUME NEW r \in Results, K!IsRelevant(r)' PROVE K!IsRelevant(r)
  <2> SUFFICES ASSUME NEW x \in K!Chain[BlockOf[r]], Height[x] <= treeFinalizedHeight
               PROVE  x \in K!Chain[final]
    BY DEF K!IsRelevant
  <2>1. x \in {b} \cup K!Chain[final]
    BY <1>1, <1>2, <1>6 DEF K!IsRelevant
  <2>2. x # b
    BY <1>2, <1>3 DEF CoreInv, FinalizationOK
  <2> QED BY <2>1, <2>2
<1>7. K!ProcessableFork'
  <2>1. K!ProcessableFork /\ K!InTree(tree) \subseteq Results
    BY DEF CoreInv, K!InTree
  <2> QED BY <1>1, <1>6, <2>1 DEF K!ProcessableFork, K!InTree
<1> QED BY <1>4, <1>5, <1>7 DEF CoreInv

\* The goroutine of finalization reads the finalized block and sets the counters.
LEMMA CountersStep ==
    ASSUME CoreInv, K!ProcessFinalizedBlock \/ K!SetSealed
    PROVE  CoreInv'
<1>1. UNCHANGED <<final, coming, pending, tree, treeSealed, treeFinalizedHeight,
                  treeSealedHeight, lowestLevel, approvalsCache, work, processed, fatal>>
  BY DEF K!ProcessFinalizedBlock, K!SetSealed, K!queueVars, K!treeVars
<1>2. final \in Blocks /\ finalizer.block \in Blocks /\ finalizer.block \in K!Chain[final]
      /\ finalizer \in [at : {"idle", "seal", "prune"}, block : Blocks]
      /\ counterSealed \in Nat
  BY DEF CoreInv, K!TypeOK, FinalizationOK
<1>3. \A b \in Blocks : Height[b] \in Nat /\ Height[SealedBy[b]] \in Nat
  <2> SUFFICES ASSUME NEW b \in Blocks PROVE Height[b] \in Nat /\ Height[SealedBy[b]] \in Nat
    OBVIOUS
  <2>1. SealedBy[b] \in Blocks
    BY SealsGoUp, ChainGoesDown
  <2> QED BY <2>1, CoreConstants
<1>4. counterSealed' \in Nat /\ counterSealed' >= counterSealed
  BY <1>2, <1>3 DEF K!ProcessFinalizedBlock, K!SetSealed
<1>5. K!NoApprovalLost'
  <2>1. ASSUME NEW a \in ResultApprovals, work[a] = "done"
        PROVE  a \in processed \cup approvalsCache \/ counterSealed' >= K!Level(a.result)
    <3>1. K!Level(a.result) \in Nat
      BY LevelType, CoreConstants DEF K!Inputs
    <3> QED BY <1>2, <1>4, <2>1, <3>1 DEF CoreInv, K!NoApprovalLost
  <2> QED BY <1>1, <2>1 DEF K!NoApprovalLost, K!Level
<1>6. CASE K!ProcessFinalizedBlock
  <2>1. /\ finalizer' = [at |-> "seal", block |-> final] /\ Height[final] > counterFinalized
        /\ counterFinalized' = Height[final] /\ counterSealed' = counterSealed
    BY <1>6 DEF K!ProcessFinalizedBlock
  <2>2. finalizer' \in [at : {"idle", "seal", "prune"}, block : Blocks] /\ finalizer'.block = final
        /\ finalizer'.at = "seal"
    BY <1>2, <2>1
  <2>3. final \in K!Chain[final] /\ Height[SealedBy[finalizer.block]] <= Height[SealedBy[final]]
    BY <1>2, ChainGoesDown, SealsGoUp
  <2>4. treeFinalizedHeight <= Height[final]
    BY <1>2, <1>3, <2>1 DEF CoreInv, FinalizationOK
  <2>5. Height[treeSealed] <= Height[SealedBy[final]]
    BY <1>2, <1>3, <2>3 DEF CoreInv, FinalizationOK, K!TypeOK
  <2>6. FinalizationOK'
    BY <1>1, <1>4, <2>1, <2>2, <2>3, <2>4, <2>5 DEF CoreInv, FinalizationOK
  <2>7. K!TypeOK' /\ QueuesOK' /\ K!ProcessableFork'
    BY <1>1, <1>2, <2>2 DEF CoreInv, K!TypeOK, K!InTree, QueuesOK, K!ProcessableFork, K!IsRelevant
  <2> QED BY <1>5, <2>6, <2>7 DEF CoreInv
<1>7. CASE K!SetSealed
  <2>1. /\ finalizer' = [finalizer EXCEPT !.at = "prune"] /\ counterFinalized' = counterFinalized
    BY <1>7 DEF K!SetSealed
  <2>2. finalizer' \in [at : {"idle", "seal", "prune"}, block : Blocks]
        /\ finalizer'.block = finalizer.block /\ finalizer'.at = "prune"
    BY <1>2, <2>1
  <2>3. FinalizationOK'
    BY <1>1, <1>4, <2>1, <2>2 DEF CoreInv, FinalizationOK
  <2>4. K!TypeOK' /\ QueuesOK' /\ K!ProcessableFork'
    BY <1>1, <1>2, <2>2 DEF CoreInv, K!TypeOK, K!InTree, QueuesOK, K!ProcessableFork, K!IsRelevant
  <2> QED BY <1>5, <2>3, <2>4 DEF CoreInv
<1> QED BY <1>6, <1>7

\* What updateForkState visits: the vertex itself unless it is in the new state, and with a
\* vertex its children in the tree.
LEMMA ForkGoesDown ==
    ASSUME NEW tr, NEW v \in Results, NEW new
    PROVE  /\ tr[v] \notin {"absent", new} => v \in K!Fork(tr, v, new)
           /\ \A r \in K!InTree(tr) :
                 Previous[r] # NoResult /\ Previous[r] \in K!Fork(tr, v, new) /\ tr[r] # new
                    => r \in K!Fork(tr, v, new)
           /\ K!Fork(tr, v, new) \subseteq K!InTree(tr)
<1>1. ASSUME tr[v] \notin {"absent", new} PROVE v \in K!Fork(tr, v, new)
  <2>1. v \in K!Ancestry[v] /\ v \in K!InTree(tr)
    BY <1>1, AncestryGoesDown DEF K!InTree
  <2>2. ASSUME NEW e \in K!Ancestry[v], v \in K!Ancestry[e] PROVE e = v
    <3>1. e \in Results /\ (e = v \/ K!Level(e) < K!Level(v))
      BY AncestryGoesDown
    <3>2. v = e \/ K!Level(v) < K!Level(e)
      BY <2>2, <3>1, AncestryGoesDown
    <3> QED BY <3>1, <3>2, LevelType
  <2> QED BY <1>1, <2>1, <2>2 DEF K!Fork
<1>2. ASSUME NEW r \in K!InTree(tr), Previous[r] # NoResult,
             Previous[r] \in K!Fork(tr, v, new), tr[r] # new
      PROVE  r \in K!Fork(tr, v, new)
  <2>1. r \in Results /\ tr[r] # "absent"
    BY DEF K!InTree
  <2>2. K!Ancestry[r] = {r} \cup K!Ancestry[Previous[r]]
    BY <1>2, <2>1, AncestryEquation
  <2> QED BY <1>2, <2>1, <2>2 DEF K!Fork
<1> QED BY <1>1, <1>2 DEF K!Fork

\* A new collector takes the state of its parent, or is processable on top of the sealed
\* block, and hands it down to the collectors that were added before it.
LEMMA CreateCollectorStep ==
    ASSUME CoreInv, NEW ir \in K!IncorporatedResults, K!CreateCollector(ir)
    PROVE  CoreInv'
<1> DEFINE r == ir.result
           added == [tree EXCEPT ![r] = "caching"]
           parent == IF Previous[r] = NoResult THEN "absent" ELSE tree[Previous[r]]
           new == IF Parent[BlockOf[r]] = treeSealed THEN "verifying"
                  ELSE IF parent = "absent" THEN "caching" ELSE parent
<1>1. UNCHANGED <<final, coming, pending, finalizer, counterFinalized, counterSealed,
                  treeSealed, treeFinalizedHeight, treeSealedHeight, lowestLevel,
                  approvalsCache, processed>>
  BY DEF K!CreateCollector, K!queueVars, K!coreVars
<1>2. PICK pc : work' = [work EXCEPT ![ir] = pc]
  BY DEF K!CreateCollector, K!Goto
<1>3. /\ coming \in Seq(K!IncorporatedResults) /\ pending \in Seq(K!IncorporatedResults)
      /\ approvalsCache \subseteq ResultApprovals /\ processed \subseteq K!Inputs
  BY DEF CoreInv, QueuesOK, K!TypeOK
<1>4. QueuesOK' /\ K!NoApprovalLost'
  BY <1>1, <1>2, <1>3, ResultGoesOn
<1>5. fatal' \in BOOLEAN
  BY DEF K!CreateCollector, CoreInv, K!TypeOK
<1>6. r \in Results
  BY CoreConstants DEF K!Inputs
<1>7. FinalizationOK'
  BY <1>1 DEF CoreInv, FinalizationOK
<1>8. CASE tree' = tree
  <2>1. K!TypeOK' /\ K!ProcessableFork'
    BY <1>1, <1>5, <1>8 DEF CoreInv, K!TypeOK, K!InTree, K!ProcessableFork, K!IsRelevant
  <2> QED BY <1>4, <1>7, <2>1 DEF CoreInv
<1>9. CASE /\ K!Level(r) >= lowestLevel /\ tree[r] = "absent"
           /\ tree' = K!UpdateForkState(added, r, new)
  <2>1. tree \in [Results -> {"absent", "caching", "verifying", "orphaned"}]
        /\ \A q \in K!InTree(tree) : K!Level(q) >= lowestLevel
    BY DEF CoreInv, K!TypeOK
  <2>2. parent \in {"absent", "caching", "verifying", "orphaned"}
    BY <1>6, <2>1, CoreConstants
  <2>3. new \in {"caching", "verifying", "orphaned"}
    BY <2>2
  <2>4. /\ added[r] = "caching"
        /\ \A q \in Results : q # r => added[q] = tree[q]
        /\ added \in [Results -> {"absent", "caching", "verifying", "orphaned"}]
    BY <1>6, <2>1
  <2>5. K!InTree(added) = K!InTree(tree) \cup {r}
    BY <1>6, <2>4 DEF K!InTree
  <2>6. Parent[BlockOf[r]] = treeSealed => new = "verifying"
    OBVIOUS
  <2>7. Parent[BlockOf[r]] # treeSealed /\ Previous[r] # NoResult /\ tree[Previous[r]] = "verifying"
           => new = "verifying"
    OBVIOUS
  <2> HIDE DEF added, parent, new
  <2> DEFINE fork == K!Fork(added, r, new)
  <2>8. /\ added[r] # new => r \in fork
        /\ \A q \in K!InTree(added) :
              Previous[q] # NoResult /\ Previous[q] \in fork /\ added[q] # new => q \in fork
        /\ fork \subseteq K!InTree(added)
    <3>1. added[r] # "absent"
      BY <2>4
    <3> QED BY <1>6, <3>1, ForkGoesDown
  <2> HIDE DEF fork
  <2>9. /\ tree' \in [Results -> {"absent", "caching", "verifying", "orphaned"}]
        /\ \A q \in Results : tree'[q] = IF q \in fork THEN new ELSE added[q]
    BY <1>9, <2>3, <2>4 DEF K!UpdateForkState, fork
  <2>10. K!InTree(tree') = K!InTree(tree) \cup {r}
    <3>1. \A q \in Results : tree'[q] # "absent" <=> added[q] # "absent"
      BY <2>3, <2>8, <2>9 DEF K!InTree
    <3> QED BY <2>5, <3>1 DEF K!InTree
  <2>11. K!TypeOK'
    <3>1. \A q \in K!InTree(tree') : K!Level(q) >= lowestLevel
      BY <1>9, <2>1, <2>10
    <3>2. \A q \in K!InTree(tree)' : K!Level(q) >= lowestLevel'
      BY <1>1, <3>1 DEF K!InTree
    <3> QED BY <1>1, <1>5, <2>9, <3>2 DEF CoreInv, K!TypeOK, K!InTree, K!Level
  <2>12. ASSUME NEW q \in K!InTree(tree'), K!IsRelevant(q), tree'[q] = "caching",
                \/ Parent[BlockOf[q]] = treeSealed
                \/ Previous[q] # NoResult /\ tree'[Previous[q]] = "verifying"
         PROVE  FALSE
    <3>1. q \in Results /\ (Previous[q] # NoResult => Previous[q] \in Results)
      BY CoreConstants DEF K!InTree
    <3>2. K!ProcessableFork
      BY DEF CoreInv
    <3>3. CASE q = r
      <4>1. new = "caching"
        BY <1>6, <2>4, <2>8, <2>9, <2>12, <3>3
      <4>2. Previous[r] # NoResult /\ tree'[Previous[r]] = "verifying"
        BY <2>6, <2>12, <3>3, <4>1
      <4>3. Previous[r] # r
        BY <2>12, <3>3, <4>2
      <4>4. tree[Previous[r]] = "verifying"
        BY <2>4, <2>9, <3>1, <3>3, <4>1, <4>2, <4>3
      <4> QED BY <2>6, <2>7, <4>1, <4>2, <4>4
    <3>4. CASE q # r
      <4>1. q \in K!InTree(tree)
        BY <2>10, <2>12, <3>4
      <4>2. CASE tree[q] # "caching"
        <5>1. q \in fork /\ new = "caching"
          BY <2>4, <2>9, <2>12, <3>1, <3>4, <4>2
        <5>2. r \in K!Ancestry[q] /\ r \in K!Ancestry[r]
          BY <1>6, <5>1, AncestryGoesDown DEF fork, K!Fork
        <5> QED BY <2>4, <5>1, <5>2 DEF fork, K!Fork
      <4>3. CASE tree[q] = "caching"
        <5>1. Previous[q] # NoResult /\ tree'[Previous[q]] = "verifying"
              /\ tree[Previous[q]] # "verifying"
          BY <2>12, <3>2, <4>1, <4>3 DEF K!ProcessableFork
        <5>2. Previous[q] \in fork /\ new = "verifying"
          BY <2>4, <2>9, <3>1, <5>1
        <5>3. q \in fork
          BY <2>4, <2>5, <2>8, <3>1, <3>4, <4>1, <4>3, <5>1, <5>2
        <5> QED BY <2>9, <2>12, <3>1, <5>2, <5>3
      <4> QED BY <4>2, <4>3
    <3> QED BY <3>3, <3>4
  <2>13. K!ProcessableFork'
    BY <1>1, <2>12 DEF K!ProcessableFork, K!InTree, K!IsRelevant
  <2> QED BY <1>4, <1>7, <2>11, <2>13 DEF CoreInv
<1> HIDE DEF added, new, parent
<1>10. \/ tree' = tree
       \/ /\ K!Level(r) >= lowestLevel /\ tree[r] = "absent"
          /\ tree' = K!UpdateForkState(added, r, new)
  BY DEF K!CreateCollector, added, new, parent
<1> QED BY <1>8, <1>9, <1>10

\* FinalizeForkAtLevel: when the sealed block moves on, the finalized fork above it becomes
\* processable together with what descends from its head.
LEMMA FinalizeForkStep ==
    ASSUME CoreInv, K!FinalizeForkAtLevel
    PROVE  CoreInv'
<1> DEFINE f == finalizer.block
           s == SealedBy[f]
           orphaned == K!OrphanForks(tree, f)
           newSeal == treeSealedHeight < Height[s]
           limit == IF lowestLevel < Height[s] THEN Height[s] ELSE lowestLevel
           recovered == IF newSeal THEN K!RecoverFork(orphaned, s, f) ELSE orphaned
<1>1. /\ finalizer' = [finalizer EXCEPT !.at = "idle"]
      /\ UNCHANGED <<final, coming, pending, counterFinalized, counterSealed, approvalsCache,
                     work, processed>>
      /\ fatal' \in BOOLEAN
  BY DEF K!FinalizeForkAtLevel, K!queueVars, CoreInv, K!TypeOK
<1>2. QueuesOK' /\ K!NoApprovalLost'
  BY <1>1 DEF CoreInv, QueuesOK, K!NoApprovalLost
<1>3. finalizer' \in [at : {"idle", "seal", "prune"}, block : Blocks]
      /\ finalizer'.block = f /\ finalizer'.at = "idle" /\ f \in Blocks /\ final \in Blocks
      /\ f \in K!Chain[final]
  BY <1>1 DEF CoreInv, FinalizationOK, K!TypeOK
<1>4. CASE UNCHANGED <<tree, treeSealed, treeFinalizedHeight, treeSealedHeight, lowestLevel>>
  <2>1. FinalizationOK'
    BY <1>1, <1>3, <1>4 DEF CoreInv, FinalizationOK
  <2>2. K!TypeOK'
    BY <1>1, <1>3, <1>4 DEF CoreInv, K!TypeOK, K!InTree
  <2>3. K!ProcessableFork'
    BY <1>1, <1>4 DEF CoreInv, K!ProcessableFork, K!InTree, K!IsRelevant
  <2> QED BY <1>2, <2>1, <2>2, <2>3 DEF CoreInv
<1>5. CASE /\ treeSealed' = s
           /\ treeFinalizedHeight' = Height[f]
           /\ treeSealedHeight' = IF newSeal THEN Height[s] ELSE treeSealedHeight
           /\ tree' = K!Prune(recovered, limit)
           /\ lowestLevel' = limit
  <2>1. s \in K!Chain[f] /\ s \in Blocks /\ s \in K!Chain[final]
        /\ (f # Root => Height[s] < Height[f])
    <3>1. s \in K!Chain[f] /\ (f # Root => Height[s] < Height[f])
      BY <1>3, SealsGoUp
    <3>2. s \in Blocks
      BY <1>3, <3>1, ChainGoesDown
    <3>3. s \in K!Chain[final]
      BY <1>3, <3>1, ChainIsTransitive
    <3> QED BY <3>1, <3>2, <3>3
  <2>2. /\ treeSealed \in K!Chain[final] /\ treeSealed \in Blocks
        /\ treeSealedHeight = Height[treeSealed] /\ Height[treeSealed] <= Height[s]
        /\ treeFinalizedHeight <= Height[f] /\ treeFinalizedHeight \in Nat
        /\ lowestLevel \in Nat
    BY DEF CoreInv, FinalizationOK, K!TypeOK
  <2>3. \A b \in Blocks : Height[b] \in Nat /\ Height[Root] <= Height[b]
    BY ChainGoesDown, CoreConstants
  <2>4. treeSealedHeight' = Height[s] /\ (~newSeal => s = treeSealed)
    <3>1. ~newSeal => Height[s] = Height[treeSealed]
      BY <2>1, <2>2, <2>3
    <3>2. ~newSeal => s = treeSealed
      BY <1>3, <2>1, <2>2, <3>1, ChainHasOnePerHeight
    <3> QED BY <1>5, <2>2, <3>2
  <2>5. newSeal => Height[s] < Height[f]
    <3>1. SealedBy[Root] = Root
      BY SealingAssumption DEF SealingAssumption, K!ConstantsAssumption
    <3> QED BY <2>1, <2>2, <2>3, <3>1
  <2>6. limit \in Nat /\ Height[f] \in Nat
    BY <1>3, <2>1, <2>2, <2>3
  <2> HIDE DEF newSeal, limit, s, f
  <2>7. FinalizationOK'
    BY <1>1, <1>3, <1>5, <2>1, <2>3, <2>4, <2>6 DEF CoreInv, FinalizationOK, s, f
  <2>8. tree \in [Results -> {"absent", "caching", "verifying", "orphaned"}]
    BY DEF CoreInv, K!TypeOK
  <2>9. /\ orphaned \in [Results -> {"absent", "caching", "verifying", "orphaned"}]
        /\ \A r \in Results :
              orphaned[r] = tree[r] \/ (orphaned[r] = "orphaned" /\ tree[r] # "absent")
    <3>1. \A v \in Results : K!Fork(tree, v, "orphaned") \subseteq K!InTree(tree)
      BY ForkGoesDown
    <3>2. \A v \in K!InTree(tree) : v \in Results /\ tree[v] # "absent"
      BY DEF K!InTree
    <3> QED BY <2>8, <3>1, <3>2 DEF K!OrphanForks
  <2> HIDE DEF orphaned
  <2> DEFINE fork == K!FinalizedFork(orphaned, s, f)
             head == {r \in fork : K!Level(r) = Height[f]}
  <2>10. fork \subseteq K!InTree(orphaned) /\ K!InTree(orphaned) \subseteq Results
    BY DEF K!FinalizedFork, K!InTree
  <2>11. \A v \in head : K!Fork(orphaned, v, "verifying") \subseteq K!InTree(orphaned)
    BY <2>10, ForkGoesDown
  <2>12. /\ recovered \in [Results -> {"absent", "caching", "verifying", "orphaned"}]
         /\ \A r \in Results :
               recovered[r] =
                  IF newSeal /\ (r \in fork \/ \E v \in head : r \in K!Fork(orphaned, v, "verifying"))
                  THEN "verifying" ELSE orphaned[r]
    BY <2>9 DEF K!RecoverFork
  <2>13. \A r \in Results : recovered[r] # "absent" <=> tree[r] # "absent"
    <3>1. \A r \in K!InTree(orphaned) : orphaned[r] # "absent"
      BY DEF K!InTree
    <3> HIDE DEF fork, head, recovered
    <3> QED BY <2>9, <2>10, <2>11, <2>12, <3>1
  <2> HIDE DEF recovered
  <2>14. /\ tree' \in [Results -> {"absent", "caching", "verifying", "orphaned"}]
         /\ \A r \in Results : tree'[r] = IF K!Level(r) < limit THEN "absent" ELSE recovered[r]
    BY <1>5, <2>12 DEF K!Prune
  <2>15. K!TypeOK'
    <3>1. \A r \in K!InTree(tree)' : K!Level(r) >= limit
      BY <2>6, <2>14, LevelType DEF K!InTree
    <3>2. \A r \in K!InTree(tree') : K!Level(r) >= lowestLevel'
      BY <1>5, <3>1 DEF K!InTree
    <3> QED BY <1>1, <1>3, <1>5, <2>1, <2>14, <3>2 DEF CoreInv, K!TypeOK, K!InTree, K!Level
  <2>16. ASSUME NEW r \in Results, tree'[r] = "caching", K!IsRelevant(r)',
                \/ Parent[BlockOf[r]] = s
                \/ Previous[r] # NoResult /\ tree'[Previous[r]] = "verifying"
         PROVE  FALSE
    <3>1. recovered[r] = "caching" /\ orphaned[r] = "caching" /\ tree[r] = "caching"
          /\ r \in K!InTree(orphaned) /\ r \in K!InTree(tree)
      BY <2>9, <2>12, <2>14, <2>16 DEF K!InTree
    <3>2. K!IsRelevant(r)
      <4> SUFFICES ASSUME NEW x \in K!Chain[BlockOf[r]], Height[x] <= treeFinalizedHeight
                   PROVE  x \in K!Chain[final]
        BY DEF K!IsRelevant
      <4>1. x \in Blocks
        BY ChainGoesDown, CoreConstants
      <4>2. Height[x] <= Height[f]
        BY <2>2, <2>3, <2>6, <4>1 DEF f
      <4> QED BY <1>1, <1>5, <2>16, <4>2 DEF K!IsRelevant
    <3>3. K!Level(r) <= Height[f] => K!IsFinalized(BlockOf[r])
      <4>1. BlockOf[r] \in K!Chain[BlockOf[r]]
        BY ChainGoesDown, CoreConstants
      <4> QED BY <1>1, <1>5, <2>16, <4>1 DEF K!IsRelevant, K!Level, K!IsFinalized
    <3>4. /\ K!Level(r) = Height[Parent[BlockOf[r]]] + 1 /\ Height[Parent[BlockOf[r]]] \in Nat
      BY CoreConstants DEF K!Level
    <3>5. newSeal => r \notin fork /\ \A v \in head : r \notin K!Fork(orphaned, v, "verifying")
      BY <2>12, <3>1
    <3>6. ~newSeal \/ Parent[BlockOf[r]] # s
      <4> SUFFICES ASSUME newSeal, Parent[BlockOf[r]] = s PROVE FALSE
        OBVIOUS
      <4>1. Height[s] < K!Level(r) /\ K!Level(r) <= Height[f]
        BY <2>5, <2>6, <3>4
      <4> QED BY <3>1, <3>3, <3>5, <4>1 DEF K!FinalizedFork
    <3>7. CASE Parent[BlockOf[r]] = s
      <4>1. Parent[BlockOf[r]] = treeSealed
        BY <2>4, <3>6, <3>7
      <4> QED BY <3>1, <3>2, <4>1 DEF CoreInv, K!ProcessableFork
    <3>8. CASE Previous[r] # NoResult /\ tree'[Previous[r]] = "verifying"
      <4> DEFINE q == Previous[r]
      <4>1. q \in Results /\ K!Level(r) = K!Level(q) + 1 /\ K!Level(q) \in Nat
        BY <3>8, CoreConstants DEF K!Level
      <4>2. recovered[q] = "verifying"
        BY <2>14, <3>8, <4>1
      <4>3. tree[q] # "verifying"
        BY <3>1, <3>2, <3>8 DEF CoreInv, K!ProcessableFork
      <4>4. orphaned[q] # "verifying"
        BY <2>9, <4>1, <4>3
      <4>5. newSeal /\ (q \in fork \/ \E v \in head : q \in K!Fork(orphaned, v, "verifying"))
        BY <2>12, <4>1, <4>2, <4>4
      <4>6. CASE q \in fork
        <5>1. Height[s] < K!Level(q) /\ K!Level(q) <= Height[f] /\ orphaned[q] # "absent"
          BY <4>6 DEF K!FinalizedFork, K!InTree
        <5>2. CASE K!Level(r) <= Height[f]
          <6>1. Height[s] < K!Level(r)
            BY <2>1, <2>3, <4>1, <5>1
          <6> QED BY <3>1, <3>3, <3>5, <4>5, <5>2, <6>1 DEF K!FinalizedFork
        <5>3. CASE ~(K!Level(r) <= Height[f])
          <6>1. q \in head
            BY <2>6, <4>1, <4>6, <5>1, <5>3
          <6>2. q \in K!Fork(orphaned, q, "verifying")
            BY <4>1, <4>4, <5>1, ForkGoesDown
          <6>3. r \in K!Fork(orphaned, q, "verifying")
            BY <3>1, <3>8, <4>1, <6>2, ForkGoesDown
          <6> QED BY <3>5, <4>5, <6>1, <6>3
        <5> QED BY <5>2, <5>3
      <4>7. ASSUME NEW v \in head, q \in K!Fork(orphaned, v, "verifying") PROVE FALSE
        <5>1. v \in Results
          BY <2>10
        <5>2. r \in K!Fork(orphaned, v, "verifying")
          BY <3>1, <3>8, <4>7, <5>1, ForkGoesDown
        <5> QED BY <3>5, <4>5, <5>2
      <4> QED BY <4>5, <4>6, <4>7
    <3> QED BY <2>16, <3>7, <3>8
  <2>17. K!ProcessableFork'
    BY <1>5, <2>16 DEF K!ProcessableFork, K!InTree, s, f
  <2> QED BY <1>2, <2>7, <2>15, <2>17 DEF CoreInv
<1> HIDE DEF f, s, orphaned, newSeal, limit, recovered
<1>6. \/ UNCHANGED <<tree, treeSealed, treeFinalizedHeight, treeSealedHeight, lowestLevel>>
      \/ /\ treeSealed' = s
         /\ treeFinalizedHeight' = Height[f]
         /\ treeSealedHeight' = IF newSeal THEN Height[s] ELSE treeSealedHeight
         /\ tree' = K!Prune(recovered, limit)
         /\ lowestLevel' = limit
  BY DEF K!FinalizeForkAtLevel, K!treeVars, f, s, orphaned, newSeal, limit, recovered
<1> QED BY <1>4, <1>5, <1>6

\* Every step of the composition keeps the invariant of SealingCore.
LEMMA CoreStep == CoreInv /\ [Next]_vars => CoreInv'
<1> SUFFICES ASSUME CoreInv, [Next]_vars PROVE CoreInv'
  OBVIOUS
<1>1. CASE K!Next
  <2>1. ASSUME NEW ir \in K!IncorporatedResults, K!ResultStep(ir) PROVE CoreInv'
    BY <2>1, ResultStep, CreateCollectorStep DEF K!ResultStep
  <2> QED BY <1>1, <2>1, FinalizeStep, CountersStep, FinalizeForkStep, ResultStep, ApprovalStep
       DEF K!Next
<1>2. CASE UNCHANGED core
  <2>1. K!TypeOK' /\ FinalizationOK' /\ QueuesOK'
    BY <1>2 DEF core, CoreInv, K!TypeOK, K!InTree, FinalizationOK, QueuesOK
  <2>2. K!NoApprovalLost' /\ K!ProcessableFork'
    BY <1>2 DEF core, CoreInv, K!NoApprovalLost, K!ProcessableFork, K!InTree, K!IsRelevant
  <2> QED BY <2>1, <2>2 DEF CoreInv
<1> QED BY <1>1, <1>2 DEF Next, vars, OnlyCollector

\* The inductive invariant of SealingCore holds.
LEMMA CoreInvariant == Spec => []CoreInv
<1>1. Init => CoreInv
  BY CoreInit DEF Init
<1> QED BY <1>1, CoreStep, PTL DEF Spec

\* SealingCore: in any tree of blocks and results, a relevant result on top of the sealed
\* block or of a processable one is processable, in whatever order workers and finalization
\* act.
THEOREM ProcessableForkTheorem == Spec => []ProcessableFork
<1>1. CoreInv => ProcessableFork
  BY DEF CoreInv, ProcessableFork
<1> QED BY <1>1, CoreInvariant, PTL

\* SealingCore: no approval is lost, however it races with the creation of the collector and
\* with sealing.
THEOREM NoApprovalLostTheorem == Spec => []NoApprovalLost
<1>1. CoreInv => NoApprovalLost
  BY DEF CoreInv, NoApprovalLost
<1> QED BY <1>1, CoreInvariant, PTL

=============================================================================
