---------------------------- MODULE JobConsumer ----------------------------
(***************************************************************************)
(* The job queue's Consumer (module/jobqueue/consumer.go) with the workers *)
(* that run its jobs, and the loop of ComponentConsumer (or the goroutines *)
(* of BlockConsumer) that calls Check when there may be new jobs.          *)
(*                                                                         *)
(* The process may crash: the processed index and the jobs are persistent, *)
(* the rest is not.                                                        *)
(***************************************************************************)
EXTENDS Integers, FiniteSets

CONSTANTS
    None,
    DefaultIndex,     \* the index that counts as processed at first (a root height)
    LastJob,          \* bound: the highest index of a job
    MaxProcessing, MaxSearchAhead,
    Checkers,         \* the goroutines that call Check
    EarlyCheck,       \* whether Check may be called before Start
    MaxCrashes, MaxFailures  \* bounds: crashes, failed writes of the processed index

Indices == 1..LastJob

\* What the model assumes of its constants.
ConstantsAssumption ==
    /\ LastJob \in Nat /\ DefaultIndex \in 0..LastJob
    /\ None \notin 0..LastJob

VARIABLES
    head,             \* the highest job there is (persistent)
    persisted,        \* progress: the processed index, or None (persistent)
    finished,         \* the jobs whose work has been done at least once (persistent)
    due,              \* signals not yet turned into a call of Check
    checker,          \* where a checker is
    isChecking, lock, \* who holds the mutex, or None
    phase,            \* "new", then "running", then "stopped"
    processedIndex,
    processings,      \* the status of a job: "none", "processing" or "done"
    worker,           \* the goroutine of a job: "none", "working" or "notifying"
    crashes, failures

persistent == <<head, persisted, finished>>
volatile == <<due, checker, isChecking, lock, phase, processedIndex, processings, worker>>
vars == <<persistent, volatile, crashes, failures>>

Init ==
    /\ head = DefaultIndex /\ persisted = None /\ finished = {} /\ due = 0
    /\ checker = [c \in Checkers |-> "idle"]
    /\ isChecking = FALSE /\ lock = None
    /\ phase = "new" /\ processedIndex = 0
    /\ processings = [i \in Indices |-> "none"]
    /\ worker = [i \in Indices |-> "none"]
    /\ crashes = 0 /\ failures = 0

-----------------------------------------------------------------------------
(***************************************************************************)
(* processableJobs and run, under the mutex.  "index" is the processed     *)
(* index, "ps" and "ws" the statuses and goroutines they start from.       *)
(***************************************************************************)
\* AtIndex finds the jobs from the default index on.
AtIndex(i) == DefaultIndex <= i /\ i <= head

\* Mutated form: gaps are passed over.
ProcessedToAny(index, ps) ==
    CHOOSE k \in index..LastJob :
        /\ k = index \/ ps[k] = "done"
        /\ \A i \in (k + 1)..LastJob : ps[i] # "done"

\* The index advances over consecutive jobs that are done.
ProcessedTo(index, ps) ==
    CHOOSE k \in index..LastJob :
        /\ \A i \in (index + 1)..k : ps[i] = "done"
        /\ k + 1 \in Indices => ps[k + 1] # "done"

\* The jobs before i that are, or are about to be, processed leave room for one more.
HasCapacity(i, from, ps) ==
    Cardinality({j \in (from + 1)..(i - 1) : ps[j] # "done"}) < MaxProcessing

ProcessableJobs(from, ps) ==
    {i \in Indices :
        /\ i > from /\ ps[i] = "none"
        /\ \A j \in (from + 1)..i : ps[j] = "none" => AtIndex(j)
        /\ HasCapacity(i, from, ps)
        /\ MaxSearchAhead = 0 \/ i - from <= MaxSearchAhead}

\* run: the workers are started, then the index is stored in place of "stored".
\* That may fail, also because there is none to update: the error is only logged.
Run(index, stored, ps, ws) ==
    LET to == ProcessedTo(index, ps)
        new == IF phase' = "running" THEN ProcessableJobs(to, ps) ELSE {}
        started == [i \in Indices |-> IF i \in new THEN "processing" ELSE ps[i]]
    IN
    /\ worker' = [i \in Indices |-> IF i \in new THEN "working" ELSE ws[i]]
    /\ \/ /\ stored = None \/ failures < MaxFailures
          /\ failures' = IF stored = None THEN failures ELSE failures + 1
          /\ persisted' = stored /\ processedIndex' = index /\ processings' = started
       \/ /\ stored # None
          /\ persisted' = to /\ processedIndex' = to
          /\ processings' = [i \in Indices |-> IF i <= to THEN "none" ELSE started[i]]
          /\ UNCHANGED failures

-----------------------------------------------------------------------------
\* A job is added and the consumer is signalled.
AddJob ==
    /\ head < LastJob
    /\ head' = head + 1 /\ due' = due + 1
    /\ UNCHANGED <<persisted, finished, checker, isChecking, lock, phase, processedIndex,
                   processings, worker, crashes, failures>>

\* Start: the index is read, or initialized.
Start ==
    LET stored == IF persisted = None THEN DefaultIndex ELSE persisted IN
    /\ phase = "new" /\ lock = None
    /\ phase' = "running"
    /\ Run(stored, stored, processings, worker)
    /\ UNCHANGED <<head, finished, due, checker, isChecking, lock, crashes>>

Stop ==
    /\ phase = "running" /\ lock = None
    /\ phase' = "stopped"
    /\ UNCHANGED <<persistent, due, checker, isChecking, lock, processedIndex, processings,
                   worker, crashes, failures>>

\* Check gives up when another one is under way, and relies on it.
Check(c) ==
    /\ checker[c] = "idle" /\ due > 0
    /\ EarlyCheck \/ phase # "new"
    /\ due' = due - 1
    /\ \/ isChecking /\ UNCHANGED <<isChecking, checker>>
       \/ /\ ~isChecking /\ isChecking' = TRUE
          /\ checker' = [checker EXCEPT ![c] = "checking"]
    /\ UNCHANGED <<persistent, lock, phase, processedIndex, processings, worker, crashes, failures>>

CheckProcessable(c) ==
    /\ checker[c] = "checking" /\ lock = None
    /\ lock' = c
    /\ checker' = [checker EXCEPT ![c] = "checked"]
    /\ UNCHANGED phase
    /\ Run(processedIndex, persisted, processings, worker)
    /\ UNCHANGED <<head, finished, due, isChecking, crashes>>

CheckReturns(c) ==
    /\ checker[c] = "checked"
    /\ lock' = None /\ isChecking' = FALSE
    /\ checker' = [checker EXCEPT ![c] = "idle"]
    /\ UNCHANGED <<persistent, due, phase, processedIndex, processings, worker, crashes, failures>>

\* The work of a job is done.
Finish(i) ==
    /\ worker[i] = "working"
    /\ worker' = [worker EXCEPT ![i] = "notifying"]
    /\ finished' = finished \cup {i}
    /\ UNCHANGED <<head, persisted, due, checker, isChecking, lock, phase, processedIndex,
                   processings, crashes, failures>>

\* Mutated form: the next job is not looked for.
NotifyJobIsDoneOnly(i) ==
    /\ worker[i] = "notifying" /\ lock = None
    /\ worker' = [worker EXCEPT ![i] = "none"]
    /\ processings' = [processings EXCEPT ![i] = IF @ = "processing" THEN "done" ELSE @]
    /\ UNCHANGED <<head, persisted, finished, due, checker, isChecking, lock, phase,
                   processedIndex, crashes, failures>>

\* NotifyJobIsDone: the job is done, unless it is done or removed already.
NotifyJobIsDone(i) ==
    /\ worker[i] = "notifying" /\ lock = None
    /\ \/ /\ processings[i] # "processing"
          /\ worker' = [worker EXCEPT ![i] = "none"]
          /\ UNCHANGED <<persisted, phase, processedIndex, processings, failures>>
       \/ /\ processings[i] = "processing"
          /\ UNCHANGED phase
          /\ Run(processedIndex, persisted, [processings EXCEPT ![i] = "done"],
                 [worker EXCEPT ![i] = "none"])
    /\ UNCHANGED <<head, finished, due, checker, isChecking, lock, crashes>>

Crash ==
    /\ crashes < MaxCrashes
    /\ crashes' = crashes + 1
    /\ due' = 0
    /\ checker' = [c \in Checkers |-> "idle"]
    /\ isChecking' = FALSE /\ lock' = None
    /\ phase' = "new" /\ processedIndex' = 0
    /\ processings' = [i \in Indices |-> "none"]
    /\ worker' = [i \in Indices |-> "none"]
    /\ UNCHANGED <<persistent, failures>>

-----------------------------------------------------------------------------
Step ==
    \/ Start
    \/ \E c \in Checkers : Check(c) \/ CheckProcessable(c) \/ CheckReturns(c)
    \/ \E i \in Indices : Finish(i) \/ NotifyJobIsDone(i)

Next == AddJob \/ Step \/ Stop \/ Crash

\* The consumer is started, signals are taken, jobs end and their end is notified.
Fairness == WF_vars(Step)

Spec == Init /\ [][Next]_vars /\ Fairness

-----------------------------------------------------------------------------
(***************************************************************************)
(* Properties.                                                             *)
(***************************************************************************)

\* Where the variables may be.
TypeOK ==
    /\ head \in DefaultIndex..LastJob /\ persisted \in 0..LastJob \cup {None}
    /\ finished \subseteq Indices
    /\ lock \in Checkers \cup {None} /\ isChecking \in BOOLEAN
    /\ phase \in {"new", "running", "stopped"} /\ processedIndex \in 0..LastJob
    /\ processings \in [Indices -> {"none", "processing", "done"}]
    /\ worker \in [Indices -> {"none", "working", "notifying"}]

\* Whatever the order in which jobs end, and whenever the process crashes or a
\* write fails: the stored index never passes a job whose work is not done, so no
\* job is skipped after a restart.
NoJobSkipped ==
    persisted # None => \A i \in (DefaultIndex + 1)..persisted : i \in finished

\* Every job is done at last while the consumer runs.
EveryJobIsFinished ==
    []<>(phase = "running" => (DefaultIndex + 1)..head \subseteq finished)

\* After a restart the consumer resumes from the index it had stored: the index
\* never decreases.
ProgressKept == [][persisted # None => persisted' # None /\ persisted' >= persisted]_vars

=============================================================================
