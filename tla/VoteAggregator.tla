-------------------------- MODULE VoteAggregator --------------------------
(***************************************************************************)
(* The vote aggregator (consensus/hotstuff/voteaggregator) of one replica: *)
(* it queues proposals and votes, and its workers hand them to the vote    *)
(* collector of their view, which VoteCollectors creates on demand and     *)
(* prunes when a block is finalized.                                       *)
(*                                                                         *)
(* Every access to shared state, under its lock or atomic, is a step: the  *)
(* callers that queue messages, the workers, the callback for finalized    *)
(* blocks and the pruning goroutine all run concurrently.  What a collector*)
(* does with a message is the subject of VoteCollector.                    *)
(***************************************************************************)
EXTENDS Naturals, Sequences, FiniteSets

CONSTANTS
    Proposals, Votes,  \* bound: the messages submitted, once each
    ViewOf,            \* the view of a message
    FirstView,         \* lowestRetainedView at start
    MaxView,           \* bound: the highest view of a finalized block
    Workers,           \* the goroutines of queuedMessagesProcessingLoop
    Capacity,          \* of each queue
    None

Messages == Proposals \cup Votes
Views == FirstView .. MaxView

\* What the model assumes of its constants.
ConstantsAssumption ==
    /\ FirstView \in Nat /\ MaxView \in Nat /\ FirstView <= MaxView
    /\ Capacity \in Nat
    /\ ViewOf \in [Messages -> Views]
    /\ Proposals \cap Votes = {}
    /\ None \notin Messages

VARIABLES
    queuedBlocks, queuedVotes,  \* the FIFO queues
    caller,              \* where the caller submitting each message is
    notified,            \* the channel of queuedMessagesNotifier is full
    worker,              \* where each worker is, with its message and collector
    collectors,          \* VoteCollectors.collectors; a collector is named after
                         \* the message that created it
    collectorsLowest,    \* VoteCollectors.lowestRetainedView
    lowestRetainedView,  \* VoteAggregator.lowestRetainedView
    finalizedView,       \* VoteAggregator.finalizedView
    finalizer,           \* where the callback for a finalized block is
    finalized,           \* the channel of finalizationEventsNotifier is full
    pruner,              \* where the pruning goroutine is, and its argument
    delivered            \* which message went to which collector

queues == <<queuedBlocks, queuedVotes>>
pruning == <<collectorsLowest, lowestRetainedView, finalizedView, finalizer, finalized, pruner>>
vars == <<queues, caller, notified, worker, collectors, pruning, delivered>>

Init ==
    /\ queuedBlocks = <<>> /\ queuedVotes = <<>>
    /\ caller = [m \in Messages |-> "idle"]
    /\ notified = FALSE
    /\ worker = [w \in Workers |-> [at |-> "wait", msg |-> None, collector |-> None]]
    /\ collectors = [v \in Views |-> None]
    /\ collectorsLowest = FirstView
    /\ lowestRetainedView = FirstView
    /\ finalizedView = FirstView
    /\ finalizer = "idle"
    /\ finalized = FALSE
    /\ pruner = [at |-> "wait", upTo |-> FirstView]
    /\ delivered = {}

-----------------------------------------------------------------------------
(***************************************************************************)
(* Submitting a message: AddVote and AddBlock.                             *)
(***************************************************************************)
\* Mutated form: the queue takes one message too many.
PushBeyond(m, queue) ==
    IF Len(queue) <= Capacity
    THEN [queue |-> Append(queue, m), next |-> "notify"]
    ELSE [queue |-> queue, next |-> "dropped"]

\* FifoQueue.Push: a message that does not fit is dropped.
Push(m, queue) ==
    IF Len(queue) < Capacity
    THEN [queue |-> Append(queue, m), next |-> "notify"]
    ELSE [queue |-> queue, next |-> "dropped"]

AddVote(v) ==
    /\ caller[v] = "idle"
    /\ \/ /\ ViewOf[v] < lowestRetainedView
          /\ caller' = [caller EXCEPT ![v] = "dropped"]
          /\ UNCHANGED queuedVotes
       \/ /\ ViewOf[v] >= lowestRetainedView
          /\ caller' = [caller EXCEPT ![v] = Push(v, queuedVotes).next]
          /\ queuedVotes' = Push(v, queuedVotes).queue
    /\ UNCHANGED <<queuedBlocks, notified, worker, collectors, pruning, delivered>>

AddBlock(b) ==
    /\ caller[b] = "idle"
    /\ caller' = [caller EXCEPT ![b] = Push(b, queuedBlocks).next]
    /\ queuedBlocks' = Push(b, queuedBlocks).queue
    /\ UNCHANGED <<queuedVotes, notified, worker, collectors, pruning, delivered>>

\* engine.Notifier.Notify: a channel with one place that never blocks the sender
Notify(m) ==
    /\ caller[m] = "notify"
    /\ caller' = [caller EXCEPT ![m] = "done"]
    /\ notified' = TRUE
    /\ UNCHANGED <<queues, worker, collectors, pruning, delivered>>

-----------------------------------------------------------------------------
(***************************************************************************)
(* The workers: queuedMessagesProcessingLoop and processQueuedMessages.    *)
(***************************************************************************)
At(w, pc) == worker[w].at = pc
Goto(w, pc) == worker' = [worker EXCEPT ![w].at = pc]
Take(w, m, pc) == worker' = [worker EXCEPT ![w].at = pc, ![w].msg = m]
Hold(w, c) == worker' = [worker EXCEPT ![w].at = "deliver", ![w].collector = c]

WakeUp(w) ==
    /\ At(w, "wait") /\ notified
    /\ notified' = FALSE
    /\ Goto(w, "popBlock")
    /\ UNCHANGED <<queues, caller, collectors, pruning, delivered>>

\* Blocks go first: votes are only looked at when no block is queued.
PopBlock(w) ==
    /\ At(w, "popBlock")
    /\ \/ /\ queuedBlocks # <<>>
          /\ Take(w, Head(queuedBlocks), "checkStale")
          /\ queuedBlocks' = Tail(queuedBlocks)
       \/ /\ queuedBlocks = <<>>
          /\ Goto(w, "popVote")
          /\ UNCHANGED queuedBlocks
    /\ UNCHANGED <<queuedVotes, caller, notified, collectors, pruning, delivered>>

PopVote(w) ==
    /\ At(w, "popVote")
    /\ \/ /\ queuedVotes # <<>>
          /\ Take(w, Head(queuedVotes), "get")
          /\ queuedVotes' = Tail(queuedVotes)
       \/ /\ queuedVotes = <<>>
          /\ Goto(w, "wait")
          /\ UNCHANGED queuedVotes
    /\ UNCHANGED <<queuedBlocks, caller, notified, collectors, pruning, delivered>>

\* processQueuedBlock drops a block of a pruned view.
CheckStale(w) ==
    /\ At(w, "checkStale")
    /\ Goto(w, IF ViewOf[worker[w].msg] < lowestRetainedView THEN "popBlock" ELSE "get")
    /\ UNCHANGED <<queues, caller, notified, collectors, pruning, delivered>>

\* VoteCollectors.getCollector, under the read lock.  A message for a pruned
\* view is ignored; when there is no collector yet, the worker creates one.
GetCollector(w) ==
    LET view == ViewOf[worker[w].msg] IN
    /\ At(w, "get")
    /\ \/ view < collectorsLowest /\ Goto(w, "popBlock")
       \/ view >= collectorsLowest /\ collectors[view] # None /\ Hold(w, collectors[view])
       \/ view >= collectorsLowest /\ collectors[view] = None /\ Goto(w, "insert")
    /\ UNCHANGED <<queues, caller, notified, collectors, pruning, delivered>>

\* Mutated form: a collector that another worker has added meanwhile is replaced.
InsertUnchecked(w) ==
    LET m == worker[w].msg IN
    /\ At(w, "insert")
    /\ collectors' = [collectors EXCEPT ![ViewOf[m]] = m]
    /\ Hold(w, m)
    /\ UNCHANGED <<queues, caller, notified, pruning, delivered>>

\* The second half of VoteCollectors.GetOrCreateCollector, under the lock
InsertCollector(w) ==
    LET m == worker[w].msg view == ViewOf[m] IN
    /\ At(w, "insert")
    /\ \/ /\ collectors[view] # None
          /\ Hold(w, collectors[view])
          /\ UNCHANGED collectors
       \/ /\ collectors[view] = None
          /\ collectors' = [collectors EXCEPT ![view] = m]
          /\ Hold(w, m)
    /\ UNCHANGED <<queues, caller, notified, pruning, delivered>>

\* Mutated form: a worker handles one message per notification.
DeliverOne(w) ==
    /\ At(w, "deliver")
    /\ delivered' = delivered \cup {<<worker[w].msg, worker[w].collector>>}
    /\ Goto(w, "wait")
    /\ UNCHANGED <<queues, caller, notified, collectors, pruning>>

\* processQueuedVote calls AddVote, processQueuedBlock ProcessBlock; the worker
\* goes on until it finds both queues empty.
Deliver(w) ==
    /\ At(w, "deliver")
    /\ delivered' = delivered \cup {<<worker[w].msg, worker[w].collector>>}
    /\ Goto(w, "popBlock")
    /\ UNCHANGED <<queues, caller, notified, collectors, pruning>>

-----------------------------------------------------------------------------
(***************************************************************************)
(* Pruning: OnFinalizedBlock and finalizationProcessingLoop.               *)
(***************************************************************************)
messages == <<queues, caller, notified, worker, delivered>>

\* OnFinalizedBlock, called by one goroutine, raises finalizedView (StrictMonotonousCounter.Set), then
\* notifies.
OnFinalizedBlock(view) ==
    /\ finalizer = "idle"
    /\ view > finalizedView
    /\ finalizedView' = view
    /\ finalizer' = "notify"
    /\ UNCHANGED <<messages, collectors, collectorsLowest, lowestRetainedView, finalized, pruner>>

NotifyFinalized ==
    /\ finalizer = "notify"
    /\ finalizer' = "idle"
    /\ finalized' = TRUE
    /\ UNCHANGED <<messages, collectors, collectorsLowest, lowestRetainedView, finalizedView, pruner>>

StartPruning ==
    /\ pruner.at = "wait" /\ finalized
    /\ finalized' = FALSE
    /\ pruner' = [pruner EXCEPT !.at = "read"]
    /\ UNCHANGED <<messages, collectors, collectorsLowest, lowestRetainedView, finalizedView, finalizer>>

ReadFinalizedView ==
    /\ pruner.at = "read"
    /\ pruner' = [at |-> "set", upTo |-> finalizedView]
    /\ UNCHANGED <<messages, collectors, collectorsLowest, lowestRetainedView, finalizedView, finalizer, finalized>>

\* VoteAggregator.PruneUpToView: only this goroutine raises lowestRetainedView
SetLowestRetainedView ==
    /\ pruner.at = "set"
    /\ \/ /\ pruner.upTo > lowestRetainedView
          /\ lowestRetainedView' = pruner.upTo
          /\ pruner' = [pruner EXCEPT !.at = "prune"]
       \/ /\ pruner.upTo <= lowestRetainedView
          /\ pruner' = [pruner EXCEPT !.at = "wait"]
          /\ UNCHANGED lowestRetainedView
    /\ UNCHANGED <<messages, collectors, collectorsLowest, finalizedView, finalizer, finalized>>

Size == Cardinality({v \in Views : collectors[v] # None})

\* The views VoteCollectors.PruneUpToView deletes: every one below the new
\* bound that is there, or, if that is less work, every one from the old bound
\* to the new.
PrunedViews(upTo) ==
    IF Size < upTo - collectorsLowest THEN {v \in Views : v < upTo}
    ELSE collectorsLowest .. (upTo - 1)

\* VoteCollectors.PruneUpToView, under the lock
PruneUpToView ==
    /\ pruner.at = "prune"
    /\ pruner' = [pruner EXCEPT !.at = "wait"]
    /\ collectors' = [v \in Views |-> IF v \in PrunedViews(pruner.upTo) THEN None ELSE collectors[v]]
    /\ collectorsLowest' = pruner.upTo
    /\ UNCHANGED <<messages, lowestRetainedView, finalizedView, finalizer, finalized>>

-----------------------------------------------------------------------------
WorkerStep(w) ==
    \/ WakeUp(w)
    \/ PopBlock(w)
    \/ PopVote(w)
    \/ CheckStale(w)
    \/ GetCollector(w)
    \/ InsertCollector(w)
    \/ Deliver(w)

PrunerStep ==
    \/ StartPruning
    \/ ReadFinalizedView
    \/ SetLowestRetainedView
    \/ PruneUpToView

\* What the goroutines do once a message is queued or a block is finalized
Step ==
    \/ \E m \in Messages : Notify(m)
    \/ \E w \in Workers : WorkerStep(w)
    \/ NotifyFinalized
    \/ PrunerStep

Next ==
    \/ \E v \in Votes : AddVote(v)
    \/ \E b \in Proposals : AddBlock(b)
    \/ \E v \in Views : OnFinalizedBlock(v)
    \/ Step

\* A goroutine that can run does so sooner or later, and none can run forever
\* without a new message or finalized block; these do not come of necessity.
Fairness == WF_vars(Step)

Spec == Init /\ [][Next]_vars /\ Fairness

-----------------------------------------------------------------------------
(***************************************************************************)
(* Properties.                                                             *)
(***************************************************************************)

\* Where the variables may be; the queues keep to their capacity.
TypeOK ==
    /\ queuedBlocks \in Seq(Proposals) /\ Len(queuedBlocks) <= Capacity
    /\ queuedVotes \in Seq(Votes) /\ Len(queuedVotes) <= Capacity
    /\ caller \in [Messages -> {"idle", "notify", "dropped", "done"}]
    /\ notified \in BOOLEAN
    /\ worker \in [Workers -> [at : {"wait", "popBlock", "popVote", "checkStale", "get",
                                     "insert", "deliver"},
                               msg : Messages \cup {None},
                               collector : Messages \cup {None}]]
    /\ collectors \in [Views -> Messages \cup {None}]
    /\ {collectorsLowest, lowestRetainedView, finalizedView} \subseteq Views
    /\ finalizer \in {"idle", "notify"}
    /\ finalized \in BOOLEAN
    /\ pruner \in [at : {"wait", "read", "set", "prune"}, upTo : Views]
    /\ delivered \subseteq Messages \X Messages

\* The proposal and all the votes of a view meet in one collector, as long as
\* the view is not pruned: votes spread over two collectors might make no QC.
NoSplitVotes ==
    \A d, e \in delivered :
        ViewOf[d[1]] = ViewOf[e[1]] /\ ViewOf[d[1]] >= collectorsLowest => d[2] = e[2]

IsDelivered(m) == \E c \in Messages : <<m, c>> \in delivered

\* No wake-up is lost: whatever is queued reaches a collector, although the
\* notification channel has one place for all workers, unless its view is
\* pruned first.
QueuedIsDelivered ==
    []<>(\A m \in Messages :
            caller[m] \in {"notify", "done"} =>
                IsDelivered(m) \/ ViewOf[m] < lowestRetainedView)

\* Pruning catches up with finalization, also when blocks are finalized while
\* it runs.
PruningCatchesUp == []<>(collectorsLowest >= finalizedView)

\* "we only retain and process whose view is equal or larger than
\* `lowestRetainedView`" (PruneUpToView in vote_collectors.go).
OnlyRetainedViews ==
    \A v \in Views : collectors[v] # None => v >= collectorsLowest

=============================================================================
