----------------------------- MODULE Compactor -----------------------------
(***************************************************************************)
(* Persistence of the execution state: Ledger.Set (ledger/complete/        *)
(* ledger.go), the Compactor that writes updates to the write-ahead log    *)
(* and starts checkpoints (compactor.go), the files of both (wal/), and    *)
(* recovery from them.                                                     *)
(*                                                                         *)
(* A trie is identified with the update that creates it; Root is the empty *)
(* trie.  Parent[u] is the trie an update starts from.  A process that     *)
(* crashes keeps its files only.                                           *)
(***************************************************************************)
EXTENDS Integers, Sequences, FiniteSets, TLC, SequencesExt

CONSTANTS
    Updates, Root, Parent, NoUpdate,
    Capacity,                \* of the forest and of the checkpoint queue
    CheckpointDistance, CheckpointsToKeep,
    MaxSegment,              \* bound: the highest segment number
    MaxCrashes, MaxFailures  \* bounds: crashes, failed file operations

VARIABLES
    log,               \* the records of the write-ahead log with their segments (file)
    lastSegment,       \* the segment opened last (file)
    checkpoints,       \* the tries in each complete checkpoint (file)
    forest,            \* the tries in memory, oldest first
    setter,            \* where the call of Set for an update is
    trieUpdateCh,      \* the channel of updates
    updatesClosed,     \* whether it is closed
    resultCh, trieCh,  \* the two channels of a call
    loop,              \* where the compactor's goroutine is
    update,            \* the update whose trie it waits for
    trieQueue, activeSegmentNum, nextCheckpointNum,
    toStart,           \* the checkpoint that is due: at most one number and its tries
    trigger,           \* triggerCheckpointOnNextSegmentFinish
    stopping,          \* whether Done of ledger and compactor have been called
    job,               \* the checkpoint goroutine
    checkpointResultCh,
    crashes, failures

files == <<log, lastSegment, checkpoints>>
calls == <<forest, setter, trieUpdateCh, resultCh, trieCh>>
compactor == <<loop, update, trieQueue, activeSegmentNum, nextCheckpointNum, toStart>>
checkpointing == <<job, checkpointResultCh>>
control == <<updatesClosed, trigger, stopping>>
vars == <<files, calls, compactor, checkpointing, control, crashes, failures>>

Segments == 0..MaxSegment
Tries == Updates \cup {Root}
NoJob == [step |-> "none", num |-> 0, tries |-> <<>>]

\* Segments are counted, and NewCompactor replaces a distance below one.
ConstantsAssumption == MaxSegment \in Nat /\ CheckpointDistance \in Nat \ {0}

-----------------------------------------------------------------------------
(***************************************************************************)
(* The two FIFO queues and recovery.                                       *)
(***************************************************************************)
\* TrieQueue.Push, TrieCache.Push: the oldest trie makes room.
Push(q, t) ==
    LET new == Append(q, t) IN
    IF Len(new) > Capacity THEN Tail(new) ELSE new

\* Forest.AddTrie: a trie that is there is not added again.
AddTrie(f, t) == IF t \in ToSet(f) THEN f ELSE Push(f, t)

\* Forest.Update during a replay: it fails (and the empty sequence stands for that)
\* if the trie to start from is not there.
Update(f, u) == IF Parent[u] \in ToSet(f) THEN AddTrie(f, u) ELSE <<>>

Latest == CHOOSE n \in {-1} \cup DOMAIN checkpoints : \A m \in DOMAIN checkpoints : n >= m

\* Replay: a new forest, the tries of the latest checkpoint, and the records of
\* the segments after it.
Recovered ==
    LET tries == IF Latest = -1 THEN <<>> ELSE checkpoints[Latest] IN
    FoldLeft(LAMBDA f, r : Update(f, r.update),
             FoldLeft(AddTrie, <<Root>>, tries),
             SelectSeq(log, LAMBDA r : r.segment > Latest))

\* NewCompactor and the start of run, with the tries and the segment they find.
StartCompactor(tries, active) ==
    /\ loop' = "select" /\ update' = NoUpdate /\ toStart' = {}
    /\ trieQueue' = tries
    /\ activeSegmentNum' = active
    /\ nextCheckpointNum' = IF active > Latest + CheckpointDistance THEN active
                            ELSE Latest + CheckpointDistance

Init ==
    /\ log = <<>> /\ lastSegment = 0 /\ checkpoints = <<>>
    /\ forest = <<Root>>
    /\ setter = [u \in Updates |-> "idle"]
    /\ trieUpdateCh = <<>> /\ updatesClosed = FALSE
    /\ resultCh = [u \in Updates |-> "none"] /\ trieCh = [u \in Updates |-> "none"]
    /\ loop = "select" /\ update = NoUpdate /\ toStart = {}
    /\ trieQueue = <<Root>>
    /\ activeSegmentNum = 0 /\ nextCheckpointNum = CheckpointDistance - 1
    /\ trigger = FALSE /\ stopping = FALSE
    /\ job = NoJob /\ checkpointResultCh = <<>>
    /\ crashes = 0 /\ failures = 0

Fails == failures < MaxFailures /\ failures' = failures + 1

-----------------------------------------------------------------------------
(***************************************************************************)
(* Ledger.set, called by the goroutines that execute blocks.               *)
(***************************************************************************)
\* The update is sent to the compactor.  A block is executed when its parent is.
Send(u) ==
    /\ setter[u] = "idle" /\ Parent[u] \in {Root} \cup {v \in Updates : setter[v] = "set"}
    /\ ~updatesClosed
    /\ setter' = [setter EXCEPT ![u] = "sent"]
    /\ trieUpdateCh' = Append(trieUpdateCh, u)
    /\ UNCHANGED <<files, forest, resultCh, trieCh, compactor, checkpointing, control,
                   crashes, failures>>

\* Forest.NewTrie, while the compactor writes the record.
NewTrie(u) ==
    /\ setter[u] = "sent"
    /\ setter' = [setter EXCEPT ![u] = IF Parent[u] \in ToSet(forest) THEN "created" ELSE "failed"]
    /\ UNCHANGED <<files, forest, trieUpdateCh, resultCh, trieCh, compactor, checkpointing,
                   control, crashes, failures>>

\* Mutated form: the channel of the trie is closed only after a success.
ReturnOpen(u) ==
    /\ setter[u] \in {"created", "failed"} /\ resultCh[u] # "none"
    /\ IF setter[u] = "created" /\ resultCh[u] = "ok"
       THEN /\ forest' = AddTrie(forest, u)
            /\ trieCh' = [trieCh EXCEPT ![u] = "trie"]
            /\ setter' = [setter EXCEPT ![u] = "set"]
       ELSE setter' = [setter EXCEPT ![u] = "error"] /\ UNCHANGED <<forest, trieCh>>
    /\ UNCHANGED <<files, trieUpdateCh, resultCh, compactor, checkpointing, control,
                   crashes, failures>>

\* The result of the write is awaited; on success of both the trie is added and
\* sent.  The channel of the trie is closed in any case.
Return(u) ==
    /\ setter[u] \in {"created", "failed"} /\ resultCh[u] # "none"
    /\ IF setter[u] = "created" /\ resultCh[u] = "ok"
       THEN /\ forest' = AddTrie(forest, u)
            /\ trieCh' = [trieCh EXCEPT ![u] = "trie"]
            /\ setter' = [setter EXCEPT ![u] = "set"]
       ELSE /\ trieCh' = [trieCh EXCEPT ![u] = "closed"]
            /\ setter' = [setter EXCEPT ![u] = "error"]
            /\ UNCHANGED forest
    /\ UNCHANGED <<files, trieUpdateCh, resultCh, compactor, checkpointing, control,
                   crashes, failures>>

-----------------------------------------------------------------------------
(***************************************************************************)
(* The compactor's goroutine.                                              *)
(***************************************************************************)
\* The admin tool asks for a checkpoint when the segment is finished.
TriggerCheckpoint ==
    /\ ~trigger /\ ~stopping
    /\ trigger' = TRUE
    /\ UNCHANGED <<files, calls, compactor, checkpointing, updatesClosed, stopping, crashes, failures>>

\* DiskWAL.RecordUpdate: a record goes to the open segment or to a new one.  The
\* result is sent.
RecordUpdate(u) ==
    /\ trieUpdateCh' = Tail(trieUpdateCh)
    /\ \/ /\ Fails
          /\ resultCh' = [resultCh EXCEPT ![u] = "error"]
          /\ UNCHANGED <<log, lastSegment>>
       \/ /\ lastSegment' \in {lastSegment, lastSegment + 1} \cap (0..MaxSegment)
          /\ log' = Append(log, [segment |-> lastSegment', update |-> u])
          /\ resultCh' = [resultCh EXCEPT ![u] = "ok"]
          /\ UNCHANGED failures

\* The update and, when it opens a new segment, the checkpoint that is due, with
\* the tries up to the finished segment.
ProcessTrieUpdate ==
    LET u == Head(trieUpdateCh)
        next == IF trigger /\ nextCheckpointNum >= activeSegmentNum
                THEN activeSegmentNum ELSE nextCheckpointNum
    IN
    /\ loop = "select" /\ trieUpdateCh # <<>>
    /\ RecordUpdate(u)
    /\ trigger' = FALSE
    /\ nextCheckpointNum' = next
    /\ activeSegmentNum' = IF resultCh'[u] = "ok" THEN lastSegment' ELSE activeSegmentNum
    /\ toStart' = IF activeSegmentNum' # activeSegmentNum /\ next <= activeSegmentNum
                  THEN {[num |-> next, tries |-> trieQueue]} ELSE {}
    /\ loop' = "await" /\ update' = u
    /\ UNCHANGED <<checkpoints, forest, setter, trieCh, trieQueue, checkpointing,
                   updatesClosed, stopping, crashes>>

\* Starts the checkpoint that is due, or puts it off if one is under way.
StartCheckpoint ==
    \/ toStart = {} /\ UNCHANGED <<nextCheckpointNum, job>>
    \/ \E c \in toStart :
        IF job = NoJob
        THEN /\ job' = [step |-> "create", num |-> c.num, tries |-> c.tries]
             /\ nextCheckpointNum' = c.num + CheckpointDistance
        ELSE nextCheckpointNum' = activeSegmentNum /\ UNCHANGED job

\* Mutated form: a trie that is not there yet is not awaited.
AwaitTrieNot ==
    /\ loop = "await"
    /\ trieQueue' = IF trieCh[update] = "trie" THEN Push(trieQueue, update) ELSE trieQueue
    /\ loop' = "select" /\ update' = NoUpdate /\ toStart' = {}
    /\ StartCheckpoint
    /\ UNCHANGED <<files, calls, activeSegmentNum, checkpointResultCh, control, crashes, failures>>

\* The trie is awaited, so that the queue is in step with the log.  Then the
\* checkpoint is started.
AwaitTrie ==
    /\ loop = "await" /\ trieCh[update] # "none"
    /\ trieQueue' = IF trieCh[update] = "trie" THEN Push(trieQueue, update) ELSE trieQueue
    /\ loop' = "select" /\ update' = NoUpdate /\ toStart' = {}
    /\ StartCheckpoint
    /\ UNCHANGED <<files, calls, activeSegmentNum, checkpointResultCh, control, crashes, failures>>

\* The end of a checkpoint: one that failed is tried again with the next segment.
ReceiveResult ==
    /\ loop = "select" /\ checkpointResultCh # <<>>
    /\ checkpointResultCh' = Tail(checkpointResultCh)
    /\ nextCheckpointNum' = IF Head(checkpointResultCh) = "createError"
                            THEN activeSegmentNum ELSE nextCheckpointNum
    /\ UNCHANGED <<files, calls, loop, update, trieQueue, activeSegmentNum, toStart, job,
                   control, crashes, failures>>

-----------------------------------------------------------------------------
(***************************************************************************)
(* Shutdown.  Done is called on all components at once.                    *)
(***************************************************************************)
Shutdown ==
    /\ ~stopping /\ stopping' = TRUE
    /\ UNCHANGED <<files, calls, compactor, checkpointing, updatesClosed, trigger, crashes, failures>>

\* Ledger.Done.
CloseUpdates ==
    /\ stopping /\ ~updatesClosed
    /\ updatesClosed' = TRUE
    /\ UNCHANGED <<files, calls, compactor, checkpointing, trigger, stopping, crashes, failures>>

\* Compactor.Done reaches the loop, which cancels the context.
Stop ==
    /\ stopping /\ loop = "select"
    /\ loop' = "drain"
    /\ UNCHANGED <<files, calls, update, trieQueue, activeSegmentNum, nextCheckpointNum, toStart,
                   checkpointing, control, crashes, failures>>

\* The updates left in the channel are recorded, until it is closed.
Drain ==
    /\ loop = "drain" /\ trieUpdateCh # <<>>
    /\ RecordUpdate(Head(trieUpdateCh))
    /\ UNCHANGED <<checkpoints, forest, setter, trieCh, compactor, checkpointing, control, crashes>>

Stopped ==
    /\ loop = "drain" /\ trieUpdateCh = <<>> /\ updatesClosed
    /\ loop' = "stopped"
    /\ UNCHANGED <<files, calls, update, trieQueue, activeSegmentNum, nextCheckpointNum, toStart,
                   checkpointing, control, crashes, failures>>

-----------------------------------------------------------------------------
(***************************************************************************)
(* The checkpoint goroutine.                                               *)
(***************************************************************************)
JobStep(from, to) == job.step = from /\ job' = [job EXCEPT !.step = to]

\* createCheckpoint: the parts are written, which nobody looks for without a header,
\* then the header, by renaming a file: the checkpoint appears at once.  An error
\* removes what was written.  A cancelled goroutine stops here.
CreateCheckpoint ==
    /\ \/ /\ JobStep("create", IF loop \in {"drain", "stopped"} THEN "ok" ELSE "cleanup")
          /\ checkpoints' = [n \in {job.num} \cup DOMAIN checkpoints |->
                                IF n = job.num THEN job.tries ELSE checkpoints[n]]
          /\ UNCHANGED failures
       \/ JobStep("create", "createError") /\ Fails /\ UNCHANGED checkpoints
    /\ UNCHANGED <<log, lastSegment, calls, compactor, checkpointResultCh, control, crashes>>

\* cleanupCheckpoints: the oldest go first, header before parts, until enough
\* are left or a removal fails.
CleanupCheckpoints ==
    LET superfluous == {n \in DOMAIN checkpoints :
                            Cardinality({m \in DOMAIN checkpoints : m > n}) >= CheckpointsToKeep}
    IN
    /\ \/ /\ CheckpointsToKeep > 0
          /\ \E n \in superfluous :
                /\ \A m \in superfluous : n <= m
                /\ checkpoints' = [m \in DOMAIN checkpoints \ {n} |-> checkpoints[m]]
          /\ JobStep("cleanup", "cleanup")
          /\ UNCHANGED failures
       \/ /\ CheckpointsToKeep = 0 \/ superfluous = {}
          /\ JobStep("cleanup", "ok")
          /\ UNCHANGED <<checkpoints, failures>>
       \/ /\ CheckpointsToKeep > 0 /\ superfluous # {} /\ Fails
          /\ JobStep("cleanup", "removeError")
          /\ UNCHANGED checkpoints
    /\ UNCHANGED <<log, lastSegment, calls, compactor, checkpointResultCh, control, crashes>>

\* The result is sent, then the semaphore is released.
SendResult ==
    /\ job.step \in {"ok", "createError", "removeError"} /\ checkpointResultCh = <<>>
    /\ checkpointResultCh' = <<job.step>>
    /\ job' = [job EXCEPT !.step = "sent"]
    /\ UNCHANGED <<files, calls, compactor, control, crashes, failures>>

Release ==
    /\ job.step = "sent" /\ job' = NoJob
    /\ UNCHANGED <<files, calls, compactor, checkpointResultCh, control, crashes, failures>>

-----------------------------------------------------------------------------
\* The process ends, wherever it is, and starts again: the log continues with a
\* new segment, the forest is recovered.  Blocks whose execution was not completed
\* are executed again, be their update in the log or not.
Crash ==
    /\ crashes < MaxCrashes /\ lastSegment < MaxSegment
    /\ crashes' = crashes + 1
    /\ lastSegment' = lastSegment + 1
    /\ forest' = Recovered
    /\ StartCompactor(Recovered, lastSegment')
    /\ \E executed \in SUBSET {u \in Updates : setter[u] = "set"} :
            /\ \A u \in Updates : setter[u] # "idle" => Parent[u] \in executed \cup {Root}
            /\ setter' = [u \in Updates |-> IF u \in executed THEN "set" ELSE "idle"]
    /\ trieUpdateCh' = <<>> /\ updatesClosed' = FALSE
    /\ resultCh' = [u \in Updates |-> "none"] /\ trieCh' = [u \in Updates |-> "none"]
    /\ trigger' = FALSE /\ stopping' = FALSE
    /\ job' = NoJob /\ checkpointResultCh' = <<>>
    /\ UNCHANGED <<log, checkpoints, failures>>

Step ==
    \/ \E u \in Updates : NewTrie(u) \/ Return(u)
    \/ ProcessTrieUpdate \/ AwaitTrie \/ ReceiveResult
    \/ CloseUpdates \/ Stop \/ Drain \/ Stopped
    \/ CreateCheckpoint \/ CleanupCheckpoints \/ SendResult \/ Release

Next ==
    \/ \E u \in Updates : Send(u)
    \/ TriggerCheckpoint \/ Shutdown \/ Step \/ Crash

Spec == Init /\ [][Next]_vars /\ WF_vars(Step)

-----------------------------------------------------------------------------
(***************************************************************************)
(* Properties.                                                             *)
(***************************************************************************)
\* Where the variables may be.
TypeOK ==
    /\ log \in Seq([segment : Segments, update : Updates])
    /\ lastSegment \in Segments /\ activeSegmentNum \in 0..lastSegment
    /\ DOMAIN checkpoints \subseteq 0..(lastSegment - 1)
    /\ {forest, trieQueue} \cup {checkpoints[n] : n \in DOMAIN checkpoints} \subseteq Seq(Tries)
    /\ Len(forest) \in 1..Capacity /\ Len(trieQueue) \in 1..Capacity
    /\ setter \in [Updates -> {"idle", "sent", "created", "failed", "set", "error"}]
    /\ loop \in {"select", "await", "drain", "stopped"}
    /\ update \in Updates \cup {NoUpdate} /\ Cardinality(toStart) <= 1
    /\ nextCheckpointNum \in Nat

\* A call of Set returns only when its update is in the log, and that record, if no
\* checkpoint was made with it, will be replayed: a checkpoint is for segments that are
\* finished, to which no record is added any more, also after a restart.
Durable ==
    /\ \A u \in Updates : setter[u] = "set" => \E i \in 1..Len(log) : log[i].update = u
    /\ \A n \in DOMAIN checkpoints : n < lastSegment
    /\ \A i \in 1..Len(log) : log[i].segment <= lastSegment
    /\ job.step = "create" => job.num < lastSegment

\* Wherever the process stops, the log can be replayed on top of the latest
\* checkpoint, and that gives the newest state for which Set has returned, and
\* the newest states of the log altogether unless some were set twice.
Recoverable ==
    LET updates == [i \in 1..Len(log) |-> log[i].update]
        all == <<Root>> \o updates
    IN
    /\ Recovered # <<>>
    /\ Last(forest) \in ToSet(Recovered)
    /\ Cardinality(ToSet(updates)) = Len(log) =>
            IsSuffix(Recovered, all) /\ Len(Recovered) = (IF Len(all) < Capacity THEN Len(all) ELSE Capacity)

\* A call of Set that has sent its update returns, also during a shutdown.
SetReturns == \A u \in Updates : []<>(setter[u] \notin {"sent", "created", "failed"})

=============================================================================
