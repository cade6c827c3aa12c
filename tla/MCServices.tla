----------------------------- MODULE MCServices -----------------------------
(***************************************************************************)
(* Small instances of the services that the engines of all nodes are built *)
(* on: JobConsumer, Component, Requester, and the ledger with its Compactor. *)
(* A behaviour exercises one of them, chosen at the start by "subject".     *)
(***************************************************************************)
EXTENDS Integers, Sequences, FiniteSets, TLC

CONSTANTS
    Subjects,
    None, DefaultIndex, LastJob, MaxProcessing, MaxSearchAhead, Checkers, EarlyCheck,
    MaxCrashes, MaxFailures,                                          \* JobConsumer
    OuterLoops, InnerLoops, Host, MaxRestarts,                        \* Component
    Entities, Providers, Selector, RetryAttempts, BatchThreshold, MaxAdds, MaxForces,  \* Requester
    Updates, Root, Parent, Capacity, CheckpointDistance, CheckpointsToKeep, MaxSegment,  \* Compactor
    c1, c2, l1, l2, l3, e1, e2, e3, p1, p2

VARIABLES
    subject,
    head, persisted, finished, due, checker, isChecking, lock, phase, processedIndex,
    processings, jobWorker, crashes, failures,
    runner, restarts, cancelled, thrown, propagator, closed, worker, failed,
    items, requests, sent, poller, ongoing, forces, added, handled,
    log, lastSegment, checkpoints, forest, setter, trieUpdateCh, updatesClosed, resultCh,
    trieCh, loop, update, trieQueue, activeSegmentNum, nextCheckpointNum, toStart, trigger,
    stopping, job, checkpointResultCh, ledgerCrashes, ledgerFailures

J == INSTANCE JobConsumer WITH worker <- jobWorker
C == INSTANCE Component
R == INSTANCE Requester
L == INSTANCE Compactor WITH
        crashes <- ledgerCrashes, failures <- ledgerFailures, NoUpdate <- None

ASSUME ServicesAssumption ==
    J!ConstantsAssumption /\ C!ConstantsAssumption /\ R!ConstantsAssumption /\ L!ConstantsAssumption

jobs == <<head, persisted, finished, due, checker, isChecking, lock, phase, processedIndex,
          processings, jobWorker, crashes, failures>>
component == <<runner, restarts, cancelled, thrown, propagator, closed, worker, failed>>
requester == <<items, requests, sent, poller, ongoing, forces, added, handled>>
ledger == <<log, lastSegment, checkpoints, forest, setter, trieUpdateCh, updatesClosed,
            resultCh, trieCh, loop, update, trieQueue, activeSegmentNum, nextCheckpointNum,
            toStart, trigger, stopping, job, checkpointResultCh, ledgerCrashes, ledgerFailures>>
vars == <<subject, jobs, component, requester, ledger>>

\* One entity has one provider, one has two and one has none.
MCSelector ==
    [e \in {e1, e2, e3} |-> IF e = e1 THEN {p1} ELSE IF e = e2 THEN {p1, p2} ELSE {}]

\* The second and the third update start from the first.
MCParent == (1 :> Root) @@ (2 :> 1) @@ (3 :> 1)

Init ==
    /\ subject \in Subjects
    /\ J!Init
    /\ C!Init
    /\ R!Init
    /\ L!Init

OnlyJobs == subject = "jobs" /\ UNCHANGED <<subject, component, requester, ledger>>
OnlyComponent == subject = "component" /\ UNCHANGED <<subject, jobs, requester, ledger>>
OnlyRequester == subject = "requester" /\ UNCHANGED <<subject, jobs, component, ledger>>
OnlyLedger == subject = "ledger" /\ UNCHANGED <<subject, jobs, component, requester>>

Next ==
    \/ OnlyJobs /\ J!Next
    \/ OnlyComponent /\ C!Next
    \/ OnlyRequester /\ R!Next
    \/ OnlyLedger /\ L!Next

\* The fairness of the four.
Step ==
    \/ OnlyJobs /\ J!Step
    \/ OnlyComponent /\ C!Step
    \/ OnlyRequester /\ R!Step
    \/ OnlyLedger /\ L!Step

Spec == Init /\ [][Next]_vars /\ WF_vars(Step)

\* JobConsumer: the stored index never passes a job that is not done, whatever the
\* order in which jobs end and whenever the process crashes or a write fails (and
\* the types are kept, as in the next two).
NoJobSkipped == J!TypeOK /\ J!NoJobSkipped

\* JobConsumer: every job is done at last while the consumer runs.
EveryJobIsFinished ==
    []<>(subject = "jobs" /\ phase = "running" => (DefaultIndex + 1)..head \subseteq finished)

\* JobConsumer: after a restart the consumer resumes from the index it had stored.
ProgressKept == [][persisted # None => persisted' # None /\ persisted' >= persisted]_vars

\* Component: when the component is done, an error of a worker has reached the
\* parent, and RunComponent leaves no worker of the component behind.
DoneIsFinal == C!TypeOK /\ C!ErrorReachesParent /\ C!NoWorkerLeft

\* Component: after a cancellation or an error, RunComponent returns or restarts.
ShutsDown ==
    []<>(subject = "component" => runner = "returned" \/ ("root" \notin cancelled /\ failed = {}))

\* Requester: an entity is handed over at most once for each time it is asked for.
HandledOnce == R!TypeOK /\ R!HandledOnce

\* Requester: while the polling loop runs, every entity with a provider is
\* delivered or given up at last.
RequestsEnd == []<>(subject = "requester" /\ poller => \A e \in R!Needed : Selector[e] = {})

\* Requester: every entity with a provider is delivered or given up at last.
AlwaysRetried == []<>(subject = "requester" => \A e \in R!Needed : Selector[e] = {})

\* Compactor: wherever the process stops, the log can be replayed on top of the
\* latest checkpoint, and that gives the newest state for which Set has returned.
Recoverable == L!TypeOK /\ L!Durable /\ L!Recoverable

\* Compactor: a call of Set that has sent its update returns, also during a
\* shutdown and when a write fails.
SetReturns == \A u \in Updates : []<>(setter[u] \notin {"sent", "created", "failed"})

=============================================================================
