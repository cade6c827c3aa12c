------------------------ MODULE AssignmentCollector ------------------------
(***************************************************************************)
(* The assignment collector of one execution result                        *)
(* (engine/consensus/approvals): AssignmentCollectorStateMachine with the   *)
(* caching, verifying and orphan collectors it changes between, and the     *)
(* ApprovalCollector of every block that incorporates the result.           *)
(*                                                                         *)
(* The workers of the sealing engine call ProcessIncorporatedResult and    *)
(* ProcessApproval concurrently while another goroutine changes the state; *)
(* what was cached is ingested again by a worker pool.  A task is one such *)
(* call; its steps are its accesses to shared state.                       *)
(***************************************************************************)
EXTENDS Naturals, FiniteSets

CONSTANTS
    Incorporated,  \* bound: the incorporated results submitted
    Approvals,     \* bound: the approvals submitted.  A record: verifier, chunk and
                   \* valid (it passes validateApproval)
    Chunks,        \* the chunks of the result
    Assigned,      \* Assigned[ir][c]: the verifiers assigned to a chunk in the fork
                   \* of an incorporated result
    Required,      \* requiredApprovalsForSealConstruction, more than 0
    MaxCalls       \* bound: the calls in progress at a time, for each caller

Inputs == Incorporated \cup Approvals

\* What the model assumes of its constants: an approval that passes validation is for a
\* chunk of the result, and finitely many verifiers are assigned to a chunk.
ConstantsAssumption ==
    /\ Required \in Nat \ {0} /\ MaxCalls \in Nat
    /\ \A a \in Approvals : a.valid => a.chunk \in Chunks
    /\ \A ir \in Incorporated, c \in Chunks : IsFiniteSet(Assigned[ir][c])

Origins == {"engine", "pool"}       \* who calls

VARIABLES
    status,          \* the collector's state
    cachedResults, cachedApprovals,  \* of the CachingAssignmentCollector
    changer,         \* where the goroutine that changes the state is
    collectors,      \* VerifyingAssignmentCollector.collectors, by incorporated result
    verified,        \* verifiedApprovalsCache
    signers,         \* signers[ir][c]: chunkCollectors[c].chunkApprovals
    aggregated,      \* aggregated[ir]: the chunks in aggregatedSignatures
    seals,           \* the incorporated results with a candidate seal
    task             \* for each input and caller: where it is, the state it has loaded
                     \* and the pairs of collector and approval it still has to process

machine == <<status, cachedResults, cachedApprovals, changer>>
verifying == <<collectors, verified, signers, aggregated, seals>>
vars == <<machine, verifying, task>>

Idle == [at |-> "idle", loaded |-> "caching", todo |-> {}]

Init ==
    /\ status = "caching"
    /\ cachedResults = {} /\ cachedApprovals = {}
    /\ changer = "idle"
    /\ collectors = {} /\ verified = {}
    /\ signers = [ir \in Incorporated |-> [c \in Chunks |-> {}]]
    /\ aggregated = [ir \in Incorporated |-> {}]
    /\ seals = {}
    /\ task = [t \in Inputs \X Origins |-> Idle]

At(t, pc) == task[t].at = pc
Move(t, pc, loaded, todo) ==
    task' = [task EXCEPT ![t] = [at |-> pc, loaded |-> loaded, todo |-> todo]]
Goto(t, pc) == Move(t, pc, task[t].loaded, task[t].todo)
Done(t) == Move(t, "done", "caching", {})
Begin(ts) == [t \in DOMAIN task |-> IF t \in ts THEN [Idle EXCEPT !.at = "load"] ELSE task[t]]

-----------------------------------------------------------------------------
(***************************************************************************)
(* The state machine: "Compare And Repeat" around the current collector.   *)
(***************************************************************************)
Resting(t) == task[t].at \in {"idle", "load", "done"}

\* A call begins when it loads the collector.
LoadCollector(t, pc) ==
    /\ At(t, pc)
    /\ Cardinality({u \in DOMAIN task : u[2] = t[2] /\ ~Resting(u)}) < MaxCalls
    /\ Move(t, "process", status, task[t].todo)
    /\ UNCHANGED <<machine, verifying>>

Submit(i) == LoadCollector(<<i, "engine">>, "idle")
Load(t) == LoadCollector(t, "load")

\* The call of the collector has returned.
HasReturned(t) == At(t, "compare") \/ (At(t, "each") /\ task[t].todo = {})

\* Mutated form: the state is not compared with the one before.
CompareNot(t) ==
    /\ HasReturned(t)
    /\ Done(t)
    /\ UNCHANGED <<machine, verifying>>

Compare(t) ==
    /\ HasReturned(t)
    /\ IF task[t].loaded # status THEN Goto(t, "load") ELSE Done(t)
    /\ UNCHANGED <<machine, verifying>>

\* CachingAssignmentCollector, which a task may still hold when the state has
\* changed.
ProcessCached(t) ==
    /\ At(t, "process") /\ task[t].loaded = "caching"
    /\ \/ /\ t[1] \in Incorporated
          /\ cachedResults' = cachedResults \cup {t[1]}
          /\ UNCHANGED cachedApprovals
       \/ /\ t[1] \in Approvals
          /\ cachedApprovals' = cachedApprovals \cup {t[1]}
          /\ UNCHANGED cachedResults
    /\ Goto(t, "compare")
    /\ UNCHANGED <<status, changer, verifying>>

\* OrphanAssignmentCollector does nothing, and the orphaned state is the last.
ProcessOrphaned(t) ==
    /\ At(t, "process") /\ task[t].loaded = "orphaned"
    /\ Done(t)
    /\ UNCHANGED <<machine, verifying>>

\* ChangeProcessingStatus, called by one goroutine: the new state is stored, then
\* what was cached is given to the worker pool.
Caching2Verifying ==
    /\ changer = "idle" /\ status = "caching"
    /\ status' = "verifying"
    /\ changer' = "results"
    /\ UNCHANGED <<cachedResults, cachedApprovals, verifying, task>>

ReIngestResults ==
    /\ changer = "results"
    /\ task' = Begin(cachedResults \X {"pool"})
    /\ changer' = "approvals"
    /\ UNCHANGED <<status, cachedResults, cachedApprovals, verifying>>

ReIngestApprovals ==
    /\ changer = "approvals"
    /\ task' = Begin(cachedApprovals \X {"pool"})
    /\ changer' = "idle"
    /\ UNCHANGED <<status, cachedResults, cachedApprovals, verifying>>

\* caching2Orphaned and verifying2Orphaned
ToOrphaned ==
    /\ changer = "idle" /\ status # "orphaned"
    /\ status' = "orphaned"
    /\ UNCHANGED <<cachedResults, cachedApprovals, changer, verifying, task>>

-----------------------------------------------------------------------------
(***************************************************************************)
(* VerifyingAssignmentCollector.                                           *)
(***************************************************************************)
\* ProcessIncorporatedResult: whoever adds the collector goes on to the approvals
\* that are known.  (That there is none yet is checked twice, the second time under
\* the lock; collectors are never removed.)
ProcessIncorporatedResult(t) ==
    /\ At(t, "process") /\ task[t].loaded = "verifying" /\ t[1] \in Incorporated
    /\ collectors' = collectors \cup {t[1]}
    /\ Goto(t, IF t[1] \in collectors THEN "compare" ELSE "readApprovals")
    /\ UNCHANGED <<machine, verified, signers, aggregated, seals>>

ReadApprovals(t) ==
    /\ At(t, "readApprovals")
    /\ Move(t, "each", task[t].loaded, {t[1]} \X verified)
    /\ UNCHANGED <<machine, verifying>>

\* ProcessApproval: an approval known already is done; an invalid one is an error,
\* which returns without comparing the state; whoever adds a valid one goes on to
\* the collectors.
ProcessApproval(t) ==
    /\ At(t, "process") /\ task[t].loaded = "verifying" /\ t[1] \in Approvals
    /\ \/ t[1].valid /\ verified' = verified \cup {t[1]}
          /\ Goto(t, IF t[1] \in verified THEN "compare" ELSE "readCollectors")
       \/ ~t[1].valid /\ Done(t) /\ UNCHANGED verified
    /\ UNCHANGED <<machine, collectors, signers, aggregated, seals>>

ReadCollectors(t) ==
    /\ At(t, "readCollectors")
    /\ Move(t, "each", task[t].loaded, collectors \X {t[1]})
    /\ UNCHANGED <<machine, verifying>>

-----------------------------------------------------------------------------
(***************************************************************************)
(* ApprovalCollector.ProcessApproval for each pair of collector and        *)
(* approval, in any order.                                                 *)
(***************************************************************************)
\* Mutated form: any verifier counts for any chunk.
AddSignatureOfAnyone(t, ir, a) ==
    LET all == signers[ir][a.chunk] \cup {a.verifier}
        loaded == task[t].loaded
        rest == task[t].todo \ {<<ir, a>>}
    IN
    /\ At(t, "each") /\ <<ir, a>> \in task[t].todo
    /\ signers' = [signers EXCEPT ![ir][a.chunk] = all]
    /\ IF Cardinality(all) >= Required
       THEN Move(t, "aggregate", <<loaded, ir, a.chunk>>, rest) ELSE Move(t, "each", loaded, rest)
    /\ UNCHANGED <<machine, collectors, verified, aggregated, seals>>

\* A chunk that has its aggregated signature needs no more approvals; one of a
\* verifier who is not assigned is ignored; otherwise the signature is added
\* (ChunkApprovalCollector, under its lock).
AddSignature(t, ir, a) ==
    LET all == signers[ir][a.chunk] \cup {a.verifier}
        loaded == task[t].loaded
        rest == task[t].todo \ {<<ir, a>>}
    IN
    /\ At(t, "each") /\ <<ir, a>> \in task[t].todo
    /\ \/ /\ a.chunk \in aggregated[ir] \/ a.verifier \notin Assigned[ir][a.chunk]
          /\ Move(t, "each", loaded, rest)
          /\ UNCHANGED signers
       \/ /\ a.chunk \notin aggregated[ir] /\ a.verifier \in Assigned[ir][a.chunk]
          /\ signers' = [signers EXCEPT ![ir][a.chunk] = all]
          /\ IF Cardinality(all) >= Required
             THEN Move(t, "aggregate", <<loaded, ir, a.chunk>>, rest)
             ELSE Move(t, "each", loaded, rest)
    /\ UNCHANGED <<machine, collectors, verified, aggregated, seals>>

\* PutSignature returns the number of approved chunks under its lock; the last one
\* seals.  Adding a seal that exists changes nothing.
Aggregate(t) ==
    LET ir == task[t].loaded[2]
        approved == aggregated[ir] \cup {task[t].loaded[3]} IN
    /\ At(t, "aggregate")
    /\ aggregated' = [aggregated EXCEPT ![ir] = approved]
    /\ seals' = IF approved = Chunks THEN seals \cup {ir} ELSE seals
    /\ Move(t, "each", task[t].loaded[1], task[t].todo)
    /\ UNCHANGED <<machine, collectors, verified, signers>>

-----------------------------------------------------------------------------
TaskStep(t) ==
    \/ Load(t)
    \/ Compare(t)
    \/ ProcessCached(t)
    \/ ProcessOrphaned(t)
    \/ ProcessIncorporatedResult(t)
    \/ ReadApprovals(t)
    \/ ProcessApproval(t)
    \/ ReadCollectors(t)
    \/ \E p \in task[t].todo : AddSignature(t, p[1], p[2])
    \/ Aggregate(t)

\* What goes on once it has begun: the calls, and the change of state
Step ==
    \/ \E t \in DOMAIN task : TaskStep(t)
    \/ ReIngestResults
    \/ ReIngestApprovals

Next ==
    \/ \E i \in Inputs : Submit(i)
    \/ Caching2Verifying
    \/ ToOrphaned
    \/ Step

\* Something goes on when it can; no call and no change of state can go on forever.
Fairness == WF_vars(Step)

Spec == Init /\ [][Next]_vars /\ Fairness

-----------------------------------------------------------------------------
(***************************************************************************)
(* Properties.                                                             *)
(***************************************************************************)

\* Where the variables may be.
TypeOK ==
    /\ status \in {"caching", "verifying", "orphaned"}
    /\ cachedResults \subseteq Incorporated /\ cachedApprovals \subseteq Approvals
    /\ changer \in {"idle", "results", "approvals"}
    /\ collectors \subseteq Incorporated /\ verified \subseteq Approvals
    /\ seals \subseteq Incorporated
    /\ \A ir \in Incorporated : aggregated[ir] \subseteq Chunks
    /\ DOMAIN task = Inputs \X Origins

\* A candidate seal has, for every chunk, valid approvals of as many different
\* verifiers as are required, all assigned in the fork of this incorporated
\* result, however the approvals of several forks are mixed.
SealIsApproved ==
    \A ir \in seals, c \in Chunks :
        Cardinality({v \in Assigned[ir][c] :
            \E a \in verified : a.valid /\ a.verifier = v /\ a.chunk = c}) >= Required

Submitted(i) == ~At(<<i, "engine">>, "idle")

HasSufficientApprovals(ir) ==
    \A c \in Chunks :
        Cardinality({v \in Assigned[ir][c] :
            \E a \in Approvals : Submitted(a) /\ a.valid /\ a.verifier = v /\ a.chunk = c})
        >= Required

\* No input is lost between the states or between the two caches of the verifying
\* state: when the submissions cease, every incorporated result with sufficient
\* approvals has its seal, unless the collector still caches or is orphaned.
ApprovedIsSealed ==
    []<>(status = "verifying" =>
            \A ir \in Incorporated : Submitted(ir) /\ HasSufficientApprovals(ir) => ir \in seals)

=============================================================================
