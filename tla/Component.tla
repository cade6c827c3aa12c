----------------------------- MODULE Component -----------------------------
(***************************************************************************)
(* ComponentManager and RunComponent (module/component), the Signaler of   *)
(* irrecoverable errors (module/irrecoverable) and util.WaitError.         *)
(*                                                                         *)
(* RunComponent runs a component whose manager is "outer".  One of its     *)
(* workers, the host, starts a nested component, "inner", waits until it   *)
(* is ready, and for its end before it returns, the way ComponentConsumer  *)
(* runs its worker pool.  The other workers are loops until their context  *)
(* ends.  Any worker may throw an irrecoverable error.                     *)
(***************************************************************************)
EXTENDS Naturals

CONSTANTS
    OuterLoops, InnerLoops,  \* the workers of the two managers besides the host
    Host,
    MaxRestarts    \* bound: how often the error handler asks for a restart

Managers == {"outer", "inner"}
Workers(m) == IF m = "outer" THEN OuterLoops \cup {Host} ELSE InnerLoops
Loops == OuterLoops \cup InnerLoops
ManagerOf(w) == IF w \in InnerLoops THEN "inner" ELSE "outer"

\* What the model assumes of its constants: the workers are different goroutines.
ConstantsAssumption ==
    /\ Host \notin Loops /\ OuterLoops \cap InnerLoops = {}
    /\ MaxRestarts \in Nat

VARIABLES
    runner,      \* where RunComponent is
    restarts,
    cancelled,   \* whose context is cancelled: "root", "run", "outer" or "inner"
    thrown,      \* whose signaler has got an error: "run", "outer" or "inner"
    propagator,  \* the goroutine of a manager that propagates errors
    closed,      \* the closed channels <<manager, "ready" | "shutdown" | "workersDone" | "done">>
    worker,      \* where a worker is
    failed       \* the managers one of whose workers has thrown

vars == <<runner, restarts, cancelled, thrown, propagator, closed, worker, failed>>

\* A context ends when it or one it derives from is cancelled.
Above(m) == CASE m = "inner" -> {"root", "run", "outer", "inner"}
              [] m = "outer" -> {"root", "run", "outer"}
              [] m = "run" -> {"root", "run"}
ContextDone(m) == Above(m) \cap cancelled # {}
ParentOf(m) == IF m = "inner" THEN "outer" ELSE "run"
IsClosed(m, ch) == <<m, ch>> \in closed
Close(m, ch) == closed' = closed \cup {<<m, ch>>}

Init ==
    /\ runner = "start" /\ restarts = 0
    /\ cancelled = {} /\ thrown = {}
    /\ propagator = [m \in Managers |-> "none"]
    /\ closed = {}
    /\ worker = [w \in Loops \cup {Host} |-> "none"]
    /\ failed = {}

-----------------------------------------------------------------------------
(***************************************************************************)
(* RunComponent.                                                           *)
(***************************************************************************)
\* start makes a new instance; its manager is started by another goroutine.
RunStart ==
    /\ runner = "start"
    /\ \/ /\ "root" \in cancelled
          /\ runner' = "returned"
          /\ UNCHANGED <<cancelled, thrown, propagator, closed, worker, failed>>
       \/ /\ "root" \notin cancelled
          /\ runner' = "wait"
          /\ cancelled' = {} /\ thrown' = {} /\ closed' = {} /\ failed' = {}
          /\ propagator' = [m \in Managers |-> IF m = "outer" THEN "starting" ELSE "none"]
          /\ worker' = [w \in DOMAIN worker |-> "none"]
    /\ UNCHANGED restarts

\* WaitError: an error comes before the end of the component.
RunWait ==
    /\ runner = "wait"
    /\ \/ "run" \in thrown /\ runner' = "stop"
       \/ "run" \notin thrown /\ IsClosed("outer", "done") /\ runner' = "returned"
    /\ UNCHANGED <<restarts, cancelled, thrown, propagator, closed, worker, failed>>

RunStop ==
    /\ runner = "stop"
    /\ cancelled' = cancelled \cup {"run"}
    /\ runner' = "stopping"
    /\ UNCHANGED <<restarts, thrown, propagator, closed, worker, failed>>

\* The component is done and the error handler decides.
RunHandle ==
    /\ runner = "stopping" /\ IsClosed("outer", "done")
    /\ \/ /\ restarts < MaxRestarts
          /\ restarts' = restarts + 1 /\ runner' = "start"
       \/ runner' = "returned" /\ UNCHANGED restarts
    /\ UNCHANGED <<cancelled, thrown, propagator, closed, worker, failed>>

\* The caller of RunComponent cancels its context.
Cancel ==
    /\ runner # "returned" /\ "root" \notin cancelled
    /\ cancelled' = cancelled \cup {"root"}
    /\ UNCHANGED <<runner, restarts, thrown, propagator, closed, worker, failed>>

-----------------------------------------------------------------------------
(***************************************************************************)
(* ComponentManager.                                                       *)
(***************************************************************************)
Start(m) ==
    /\ propagator[m] = "starting"
    /\ propagator' = [propagator EXCEPT ![m] = "wait"]
    /\ worker' = [w \in DOMAIN worker |-> IF w \in Workers(m) THEN "running" ELSE worker[w]]
    /\ UNCHANGED <<runner, restarts, cancelled, thrown, closed, failed>>

Started(m) == propagator[m] \notin {"none", "starting"}

\* waitForShutdownSignal, waitForReady and waitForDone
CloseChannel(m, ch) ==
    /\ Started(m) /\ ~IsClosed(m, ch)
    /\ \/ ch = "shutdown" /\ ContextDone(m)
       \/ ch = "ready" /\ \A w \in Workers(m) : worker[w] \in {"ready", "waitInner", "doneReady"}
       \/ ch = "workersDone" /\ \A w \in Workers(m) : worker[w] \in {"done", "doneReady"}
    /\ Close(m, ch)
    /\ UNCHANGED <<runner, restarts, cancelled, thrown, propagator, worker, failed>>

\* Mutated form: the error is not looked for when the workers are done.
WaitForErrorOnce(m) ==
    /\ propagator[m] = "wait"
    /\ \/ /\ m \in thrown
          /\ thrown' = thrown \cup {ParentOf(m)}
       \/ /\ IsClosed(m, "workersDone")
          /\ UNCHANGED thrown
    /\ propagator' = [propagator EXCEPT ![m] = "cancel"]
    /\ UNCHANGED <<runner, restarts, cancelled, closed, worker, failed>>

\* WaitError, and Throw to the parent, whose signaler keeps the first error only.
WaitForError(m) ==
    /\ propagator[m] = "wait"
    /\ \/ /\ m \in thrown
          /\ thrown' = thrown \cup {ParentOf(m)}
       \/ /\ m \notin thrown /\ IsClosed(m, "workersDone")
          /\ UNCHANGED thrown
    /\ propagator' = [propagator EXCEPT ![m] = "cancel"]
    /\ UNCHANGED <<runner, restarts, cancelled, closed, worker, failed>>

CancelWorkers(m) ==
    /\ propagator[m] = "cancel"
    /\ cancelled' = cancelled \cup {m}
    /\ propagator' = [propagator EXCEPT ![m] = "closing"]
    /\ UNCHANGED <<runner, restarts, thrown, closed, worker, failed>>

CloseDone(m) ==
    /\ propagator[m] = "closing"
    /\ IsClosed(m, "shutdown") /\ IsClosed(m, "workersDone")
    /\ Close(m, "done")
    /\ propagator' = [propagator EXCEPT ![m] = "ended"]
    /\ UNCHANGED <<runner, restarts, cancelled, thrown, worker, failed>>

-----------------------------------------------------------------------------
(***************************************************************************)
(* Workers.  "doneReady" is a worker that had called its ReadyFunc.        *)
(***************************************************************************)
Move(w, pc) == worker' = [worker EXCEPT ![w] = pc]
Ended(w) == IF worker[w] \in {"ready", "waitInner"} THEN "doneReady" ELSE "done"

LoopReady(w) ==
    /\ worker[w] = "running"
    /\ Move(w, "ready")
    /\ UNCHANGED <<runner, restarts, cancelled, thrown, propagator, closed, failed>>

LoopEnds(w) ==
    /\ worker[w] \in {"running", "ready"} /\ ContextDone(ManagerOf(w))
    /\ Move(w, Ended(w))
    /\ UNCHANGED <<runner, restarts, cancelled, thrown, propagator, closed, failed>>

\* Throw ends the goroutine.
Throw(w) ==
    /\ worker[w] \in IF w \in Loops THEN {"running", "ready"} ELSE {"starting"}
    /\ thrown' = thrown \cup {ManagerOf(w)}
    /\ failed' = failed \cup {ManagerOf(w)}
    /\ Move(w, Ended(w))
    /\ UNCHANGED <<runner, restarts, cancelled, propagator, closed>>

\* The host starts the inner component.
HostStarts ==
    /\ worker[Host] = "running"
    /\ propagator' = [propagator EXCEPT !["inner"] = "starting"]
    /\ Move(Host, "waitReady")
    /\ UNCHANGED <<runner, restarts, cancelled, thrown, closed, failed>>

\* Mutated form: the host waits for the inner component whatever happens.
HostWaitsForever ==
    /\ worker[Host] = "waitReady"
    /\ IsClosed("inner", "ready") /\ Move(Host, "starting")
    /\ UNCHANGED <<runner, restarts, cancelled, thrown, propagator, closed, failed>>

\* WaitClosed: the inner component is ready or the context is done.
HostWaits ==
    /\ worker[Host] = "waitReady"
    /\ \/ IsClosed("inner", "ready") /\ Move(Host, "starting")
       \/ ContextDone("outer") /\ Move(Host, "aborted")
    /\ UNCHANGED <<runner, restarts, cancelled, thrown, propagator, closed, failed>>

\* The consumer is started (or its error is thrown, see Throw).
HostReady ==
    /\ worker[Host] = "starting"
    /\ Move(Host, "ready")
    /\ UNCHANGED <<runner, restarts, cancelled, thrown, propagator, closed, failed>>

HostShutsDown ==
    /\ worker[Host] = "ready" /\ ContextDone("outer")
    /\ Move(Host, "waitInner")
    /\ UNCHANGED <<runner, restarts, cancelled, thrown, propagator, closed, failed>>

HostEnds ==
    /\ worker[Host] \in {"waitInner", "aborted"} /\ IsClosed("inner", "done")
    /\ Move(Host, Ended(Host))
    /\ UNCHANGED <<runner, restarts, cancelled, thrown, propagator, closed, failed>>

-----------------------------------------------------------------------------
Step ==
    \/ RunStart
    \/ RunWait
    \/ RunStop
    \/ RunHandle
    \/ \E m \in Managers :
        \/ Start(m)
        \/ \E ch \in {"ready", "shutdown", "workersDone"} : CloseChannel(m, ch)
        \/ WaitForError(m)
        \/ CancelWorkers(m)
        \/ CloseDone(m)
    \/ \E w \in Loops : LoopReady(w) \/ LoopEnds(w)
    \/ HostStarts
    \/ HostWaits
    \/ HostReady
    \/ HostShutsDown
    \/ HostEnds

Next ==
    \/ Step
    \/ Cancel
    \/ \E w \in DOMAIN worker : Throw(w)

\* Every goroutine that can go on does so at last.
Fairness == WF_vars(Step)

Spec == Init /\ [][Next]_vars /\ Fairness

-----------------------------------------------------------------------------
(***************************************************************************)
(* Properties.                                                             *)
(***************************************************************************)

\* Where the variables may be.
TypeOK ==
    /\ runner \in {"start", "wait", "stop", "stopping", "returned"}
    /\ restarts \in 0..MaxRestarts
    /\ cancelled \subseteq {"root", "run", "outer", "inner"}
    /\ thrown \subseteq {"run", "outer", "inner"}
    /\ failed \subseteq Managers

\* An irrecoverable error of a worker, however it races with the end of the other
\* workers and with cancellation, has reached the parent before the component is
\* done, so that RunComponent never takes a failure for a clean completion.
ErrorReachesParent ==
    \A m \in Managers : m \in failed /\ IsClosed(m, "done") => ParentOf(m) \in thrown

\* RunComponent returns, or starts a new instance, only when all workers of the
\* component have ended.
NoWorkerLeft ==
    runner \in {"start", "returned"} =>
        \A w \in Workers("outer") : worker[w] \in {"none", "done", "doneReady"}

\* Nobody waits for somebody who waits: after a cancellation or an error of any
\* worker, RunComponent returns at last or has a new instance.
ShutsDown == []<>(runner = "returned" \/ ("root" \notin cancelled /\ failed = {}))

=============================================================================
