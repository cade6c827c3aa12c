---------------------------- MODULE SealingCore ----------------------------
(***************************************************************************)
(* The sealing engine and Core (engine/consensus/sealing) with the         *)
(* AssignmentCollectorTree and the LruCache of approvals                   *)
(* (engine/consensus/approvals).                                           *)
(*                                                                         *)
(* Several workers take incorporated results and approvals from the        *)
(* engine's queues while another goroutine processes finalized blocks.  A  *)
(* step is one access to a counter, to the tree (under its lock) or to the *)
(* cache.  What a collector does with its inputs is AssignmentCollector.   *)
(* An error from the tree ends the process (log.Fatal).                    *)
(***************************************************************************)
EXTENDS Integers, Sequences, FiniteSets

CONSTANTS
    Blocks,      \* a tree of blocks
    Root,        \* the block that is finalized and sealed at the start
    Parent,      \* Parent[b] for every other block
    Height,      \* the height of a block
    SealedBy,    \* SealedBy[b]: the block of the highest seal in the fork of b
    Results,     \* the execution results, at most one for a block
    BlockOf,     \* the executed block of a result
    Previous,    \* the previous result, or NoResult
    NoResult,
    Incoming,    \* bound: the incorporated results [result, block] in the order in
                 \* which their blocks are incorporated
    Approvals,   \* bound: the approvals that arrive, records with the field result
    Workers      \* bound: the workers (8 in the code)

IncorporatedResults == {Incoming[i] : i \in DOMAIN Incoming}
Inputs == IncorporatedResults \cup Approvals

\* The chain from the root to a block, and a result with the ones it builds on.
Chain[b \in Blocks] == {b} \cup IF b = Root THEN {} ELSE Chain[Parent[b]]
Ancestry[r \in Results] ==
    {r} \cup IF Previous[r] = NoResult THEN {} ELSE Ancestry[Previous[r]]

\* What the model assumes of its constants: heights grow by one along the parents, a
\* result builds on one of the parent block, a seal is in a later block than the one it
\* seals, and the seals of a fork go up it.
ConstantsAssumption ==
    /\ Root \in Blocks
    /\ Height \in [Blocks -> Nat]
    /\ \A b \in Blocks \ {Root} :
          /\ Parent[b] \in Blocks /\ Height[b] = Height[Parent[b]] + 1
          /\ SealedBy[b] \in Blocks /\ SealedBy[b] \in Chain[Parent[b]]
          /\ Height[SealedBy[Parent[b]]] <= Height[SealedBy[b]]
    /\ SealedBy[Root] = Root
    /\ BlockOf \in [Results -> Blocks \ {Root}]
    /\ \A r \in Results : Previous[r] # NoResult =>
          Previous[r] \in Results /\ BlockOf[Previous[r]] = Parent[BlockOf[r]]
    /\ Incoming \in Seq(IncorporatedResults)
    /\ IncorporatedResults \cap Approvals = {}
    /\ \A i \in Inputs : i.result \in Results

VARIABLES
    final,                  \* the latest finalized block of the protocol state
    coming, pending,        \* what is not incorporated yet, and the engine's queue
    finalizer,              \* the goroutine of finalization events: where it is and
                            \* the block it processes
    counterFinalized, counterSealed,  \* the counters of Core
    tree,                   \* the status of a result's collector in the tree
    treeSealed, treeFinalizedHeight, treeSealedHeight, lowestLevel,
    approvalsCache,
    task,                   \* where the processing of an input is
    processed,              \* the inputs a collector has got
    fatal

treeVars == <<tree, treeSealed, treeFinalizedHeight, treeSealedHeight, lowestLevel>>
queueVars == <<final, coming, pending>>
coreVars == <<finalizer, counterFinalized, counterSealed>>
vars == <<queueVars, coreVars, treeVars, approvalsCache, task, processed, fatal>>

Init ==
    /\ final = Root
    /\ coming = Incoming /\ pending = <<>>
    /\ finalizer = [at |-> "idle", block |-> Root]
    /\ counterFinalized = Height[Root] /\ counterSealed = Height[Root]
    /\ tree = [r \in Results |-> "absent"]
    /\ treeSealed = Root
    /\ treeFinalizedHeight = Height[Root] /\ treeSealedHeight = Height[Root]
    /\ lowestLevel = Height[Root]
    /\ approvalsCache = {}
    /\ task = [i \in Inputs |-> "new"]
    /\ processed = {}
    /\ fatal = FALSE

\* headers.ByHeight: the finalized block of a height
IsFinalized(b) == b \in Chain[final]

Level(r) == Height[BlockOf[r]]
InTree(tr) == {r \in Results : tr[r] # "absent"}

-----------------------------------------------------------------------------
(***************************************************************************)
(* AssignmentCollectorTree.                                                *)
(***************************************************************************)
\* Mutated form: the descendants keep their state.
ForkOfVertexOnly(tr, v, new) == IF tr[v] = new THEN {} ELSE {v}

\* What updateForkState(v, new) visits and changes: it goes down from v, and does
\* not go past a vertex that is in the new state or missing.
Fork(tr, v, new) ==
    {r \in InTree(tr) :
        /\ v \in Ancestry[r]
        /\ \A e \in Ancestry[r] : v \in Ancestry[e] => tr[e] \notin {"absent", new}}

UpdateForkState(tr, v, new) ==
    [r \in Results |-> IF r \in Fork(tr, v, new) THEN new ELSE tr[r]]

\* ChangeProcessingStatus refuses to leave the orphaned state.
IsInvalid(tr, v, new) == new # "orphaned" /\ \E r \in Fork(tr, v, new) : tr[r] = "orphaned"

\* STEP 1 of FinalizeForkAtLevel: orphan the conflicting results of the newly
\* finalized heights.
OrphanForks(tr, f) ==
    LET conflicting == {r \in InTree(tr) :
                          /\ treeFinalizedHeight < Level(r) /\ Level(r) <= Height[f]
                          /\ ~IsFinalized(BlockOf[r])}
    IN  [r \in Results |->
            IF \E v \in conflicting : r \in Fork(tr, v, "orphaned") THEN "orphaned" ELSE tr[r]]

\* selectCollectorsForFinalizedFork
FinalizedFork(tr, s, f) ==
    {r \in InTree(tr) : Height[s] < Level(r) /\ Level(r) <= Height[f] /\ IsFinalized(BlockOf[r])}

\* The fallback after a new seal: the finalized fork is made processable, and so
\* are the descendants of its head.
RecoverFork(tr, s, f) ==
    LET fork == FinalizedFork(tr, s, f)
        head == {r \in fork : Level(r) = Height[f]}
    IN  [r \in Results |->
            IF r \in fork \/ \E v \in head : r \in Fork(tr, v, "verifying") THEN "verifying" ELSE tr[r]]

CannotRecover(tr, s, f) ==
    \E r \in FinalizedFork(tr, s, f) :
        \/ tr[r] = "orphaned"
        \/ Level(r) = Height[f] /\ IsInvalid(tr, r, "verifying")

\* LevelledForest.PruneUpToLevel
Prune(tr, limit) == [r \in Results |-> IF Level(r) < limit THEN "absent" ELSE tr[r]]

\* prune of Core: FinalizeForkAtLevel under the lock of the tree.  It runs only
\* for a block higher than the one before, so its early return is not taken.
FinalizeForkAtLevel ==
    LET f == finalizer.block
        s == SealedBy[f]
        orphaned == OrphanForks(tree, f)
        newSeal == treeSealedHeight < Height[s]
        limit == IF lowestLevel < Height[s] THEN Height[s] ELSE lowestLevel
    IN
    /\ finalizer.at = "prune" /\ ~fatal
    /\ finalizer' = [finalizer EXCEPT !.at = "idle"]
    /\ \/ /\ newSeal /\ CannotRecover(orphaned, s, f)
          /\ fatal' = TRUE
          /\ UNCHANGED treeVars
       \/ /\ ~(newSeal /\ CannotRecover(orphaned, s, f))
          /\ treeSealed' = s
          /\ treeFinalizedHeight' = Height[f]
          /\ treeSealedHeight' = IF newSeal THEN Height[s] ELSE treeSealedHeight
          /\ tree' = Prune(IF newSeal THEN RecoverFork(orphaned, s, f) ELSE orphaned, limit)
          /\ lowestLevel' = limit
          /\ UNCHANGED fatal
    /\ UNCHANGED <<queueVars, counterFinalized, counterSealed, approvalsCache, task, processed>>

-----------------------------------------------------------------------------
(***************************************************************************)
(* Finalization.                                                           *)
(***************************************************************************)
\* The protocol state finalizes a block.
Finalize(b) ==
    /\ b # Root /\ Parent[b] = final /\ ~fatal
    /\ final' = b
    /\ UNCHANGED <<coming, pending, coreVars, treeVars, approvalsCache, task, processed, fatal>>

\* finalizationProcessingLoop reads the latest finalized block (several events may
\* be one notification) and ProcessFinalizedBlock sets the first counter.
ProcessFinalizedBlock ==
    /\ finalizer.at = "idle" /\ ~fatal
    /\ Height[final] > counterFinalized
    /\ counterFinalized' = Height[final]
    /\ finalizer' = [at |-> "seal", block |-> final]
    /\ UNCHANGED <<queueVars, counterSealed, treeVars, approvalsCache, task, processed, fatal>>

SetSealed ==
    /\ finalizer.at = "seal" /\ ~fatal
    /\ LET h == Height[SealedBy[finalizer.block]] IN
       counterSealed' = IF h > counterSealed THEN h ELSE counterSealed
    /\ finalizer' = [finalizer EXCEPT !.at = "prune"]
    /\ UNCHANGED <<queueVars, counterFinalized, treeVars, approvalsCache, task, processed, fatal>>

-----------------------------------------------------------------------------
(***************************************************************************)
(* Incorporated results.                                                   *)
(***************************************************************************)
Goto(i, pc) == task' = [task EXCEPT ![i] = pc]
Active == {i \in Inputs : task[i] \notin {"new", "done"}}
IsOutdated(r) == counterSealed >= Level(r)

\* processIncorporatedBlock queues the results of a block.
OnBlockIncorporated ==
    /\ coming # <<>> /\ ~fatal
    /\ pending' = Append(pending, Head(coming))
    /\ coming' = Tail(coming)
    /\ UNCHANGED <<final, coreVars, treeVars, approvalsCache, task, processed, fatal>>

\* A worker takes an incorporated result and checkBlockOutdated.
PopResult ==
    /\ pending # <<>> /\ Cardinality(Active) < Workers /\ ~fatal
    /\ pending' = Tail(pending)
    /\ Goto(Head(pending), IF IsOutdated(Head(pending).result) THEN "done" ELSE "fork")
    /\ UNCHANGED <<final, coming, coreVars, treeVars, approvalsCache, processed, fatal>>

\* A block at a finalized height must be finalized.
CheckFork(ir) ==
    /\ task[ir] = "fork" /\ ~fatal
    /\ Goto(ir, IF Height[ir.block] <= counterFinalized /\ ~IsFinalized(ir.block)
                THEN "done" ELSE "get")
    /\ UNCHANGED <<queueVars, coreVars, treeVars, approvalsCache, processed, fatal>>

GetOrCreateCollector(ir) ==
    /\ task[ir] = "get" /\ ~fatal
    /\ Goto(ir, IF tree[ir.result] # "absent" THEN "process" ELSE "create")
    /\ UNCHANGED <<queueVars, coreVars, treeVars, approvalsCache, processed, fatal>>

\* The second half, under the lock: the state of a new collector is its parent's,
\* or verifying when its block is the child of the sealed one.
CreateCollector(ir) ==
    LET r == ir.result
        added == [tree EXCEPT ![r] = "caching"]
        parent == IF Previous[r] = NoResult THEN "absent" ELSE tree[Previous[r]]
        new == IF Parent[BlockOf[r]] = treeSealed THEN "verifying"
               ELSE IF parent = "absent" THEN "caching" ELSE parent
    IN
    /\ task[ir] = "create" /\ ~fatal
    /\ \/ /\ Level(r) < lowestLevel
          /\ Goto(ir, "done")
          /\ UNCHANGED <<tree, fatal>>
       \/ /\ Level(r) >= lowestLevel /\ tree[r] # "absent"
          /\ Goto(ir, "process")
          /\ UNCHANGED <<tree, fatal>>
       \/ /\ Level(r) >= lowestLevel /\ tree[r] = "absent"
          /\ ~IsInvalid(added, r, new)
          /\ tree' = UpdateForkState(added, r, new)
          /\ Goto(ir, "processNew")
          /\ UNCHANGED fatal
       \/ /\ Level(r) >= lowestLevel /\ tree[r] = "absent"
          /\ IsInvalid(added, r, new)
          /\ fatal' = TRUE
          /\ Goto(ir, "done")
          /\ UNCHANGED tree
    /\ UNCHANGED <<queueVars, coreVars, treeSealed, treeFinalizedHeight, treeSealedHeight,
                   lowestLevel, approvalsCache, processed>>

ProcessIncorporatedResult(ir) ==
    /\ task[ir] \in {"process", "processNew"} /\ ir \in IncorporatedResults /\ ~fatal
    /\ processed' = processed \cup {ir}
    /\ Goto(ir, IF task[ir] = "processNew" THEN "take" ELSE "done")
    /\ UNCHANGED <<queueVars, coreVars, treeVars, approvalsCache, fatal>>

\* Mutated form: the cache is emptied of all approvals.
ProcessPendingApprovalsAll(ir) ==
    /\ task[ir] = "take" /\ ~fatal
    /\ approvalsCache' = {}
    /\ processed' = processed \cup {a \in approvalsCache : a.result = ir.result}
    /\ Goto(ir, "done")
    /\ UNCHANGED <<queueVars, coreVars, treeVars, fatal>>

\* processPendingApprovals: what is cached for a new collector.
ProcessPendingApprovals(ir) ==
    LET taken == {a \in approvalsCache : a.result = ir.result} IN
    /\ task[ir] = "take" /\ ~fatal
    /\ approvalsCache' = approvalsCache \ taken
    /\ processed' = processed \cup taken
    /\ Goto(ir, "done")
    /\ UNCHANGED <<queueVars, coreVars, treeVars, fatal>>

-----------------------------------------------------------------------------
(***************************************************************************)
(* Approvals.                                                              *)
(***************************************************************************)
\* A worker turns to an approval when no incorporated result is queued.
PopApproval(a) ==
    /\ task[a] = "new" /\ pending = <<>> /\ Cardinality(Active) < Workers /\ ~fatal
    /\ Goto(a, IF IsOutdated(a.result) THEN "done" ELSE "get")
    /\ UNCHANGED <<queueVars, coreVars, treeVars, approvalsCache, processed, fatal>>

GetCollector(a) ==
    /\ task[a] = "get" /\ a \in Approvals /\ ~fatal
    /\ Goto(a, IF tree[a.result] # "absent" THEN "process" ELSE "put")
    /\ UNCHANGED <<queueVars, coreVars, treeVars, approvalsCache, processed, fatal>>

ProcessApproval(a) ==
    /\ task[a] = "process" /\ a \in Approvals /\ ~fatal
    /\ processed' = processed \cup {a}
    /\ Goto(a, "done")
    /\ UNCHANGED <<queueVars, coreVars, treeVars, approvalsCache, fatal>>

PutApproval(a) ==
    /\ task[a] = "put" /\ ~fatal
    /\ approvalsCache' = approvalsCache \cup {a}
    /\ Goto(a, "done")
    /\ UNCHANGED <<queueVars, coreVars, treeVars, processed, fatal>>

-----------------------------------------------------------------------------
ResultStep(ir) ==
    \/ CheckFork(ir)
    \/ GetOrCreateCollector(ir)
    \/ CreateCollector(ir)
    \/ ProcessIncorporatedResult(ir)
    \/ ProcessPendingApprovals(ir)

ApprovalStep(a) ==
    \/ PopApproval(a)
    \/ GetCollector(a)
    \/ ProcessApproval(a)
    \/ PutApproval(a)

Next ==
    \/ \E b \in Blocks : Finalize(b)
    \/ ProcessFinalizedBlock
    \/ SetSealed
    \/ FinalizeForkAtLevel
    \/ OnBlockIncorporated
    \/ PopResult
    \/ \E ir \in IncorporatedResults : ResultStep(ir)
    \/ \E a \in Approvals : ApprovalStep(a)

Spec == Init /\ [][Next]_vars

-----------------------------------------------------------------------------
(***************************************************************************)
(* Properties.                                                             *)
(***************************************************************************)

\* Where the variables may be; the tree holds no result below its lowest level.
TypeOK ==
    /\ final \in Blocks /\ treeSealed \in Blocks /\ finalizer.block \in Blocks
    /\ finalizer.at \in {"idle", "seal", "prune"}
    /\ tree \in [Results -> {"absent", "caching", "verifying", "orphaned"}]
    /\ \A r \in InTree(tree) : Level(r) >= lowestLevel
    /\ approvalsCache \subseteq Approvals /\ processed \subseteq Inputs
    /\ fatal \in BOOLEAN

\* The block of a result does not conflict with what the tree knows as finalized.
IsRelevant(r) ==
    \A b \in Chain[BlockOf[r]] : Height[b] <= treeFinalizedHeight => b \in Chain[final]

\* In whatever order the workers add the collectors and the finalized blocks move
\* the sealed block on: a relevant result is processable, not caching, when its
\* block is a child of the sealed one or when the previous result is processable.
ProcessableFork ==
    \A r \in InTree(tree) :
        IsRelevant(r) /\ (\/ Parent[BlockOf[r]] = treeSealed
                          \/ Previous[r] # NoResult /\ tree[Previous[r]] = "verifying")
            => tree[r] # "caching"

\* An approval that has been processed is with a collector, in the cache, or for a
\* block that is sealed: it is not lost when the result's collector is created, or
\* pruned, at the same time.
NoApprovalLost ==
    \A a \in Approvals : task[a] = "done" =>
        a \in processed \cup approvalsCache \/ counterSealed >= Level(a.result)

\* The tree is "Safe for concurrent access": no order of the workers' calls and of
\* finalization is an error, which would end the process.
NoException == ~fatal

=============================================================================
