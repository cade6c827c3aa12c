----------------------------- MODULE Requester -----------------------------
(***************************************************************************)
(* The requester engine (engine/common/requester/engine.go): the entities  *)
(* it still needs, the requests it has sent, the polling loop, forced      *)
(* dispatch, and the responses, which may be late, partial, duplicated,    *)
(* wrong or lost.                                                          *)
(*                                                                         *)
(* Every step holds the engine's lock.  Time is abstract: an item is due   *)
(* again some time after it was requested, and a request is forgotten some *)
(* time after it was sent.                                                 *)
(***************************************************************************)
EXTENDS Naturals, FiniteSets

CONSTANTS
    Entities,
    Providers,
    Selector,         \* Selector[e]: the providers that may be asked for an entity
    RetryAttempts, BatchThreshold,
    MaxAdds,          \* bound: how often an entity is asked for
    MaxForces         \* bound: calls of Force

\* What the model assumes of its constants.
ConstantsAssumption == RetryAttempts \in Nat

VARIABLES
    items,            \* items[e]: [attempts, due] for an entity that is needed
    requests,         \* the nonces that are remembered
    sent,             \* the requests sent, a function from nonces 1..n to entities
    poller,           \* whether the polling loop runs
    ongoing,          \* forcedDispatchOngoing
    forces,           \* calls of Force, and whether one is launched
    added, handled    \* how often an entity was added and was given to the handler

vars == <<items, requests, sent, poller, ongoing, forces, added, handled>>

\* An entity that is not needed.
NoItem == [attempts |-> 0, due |-> FALSE, needed |-> FALSE]
Needed == {e \in Entities : items[e].needed}
Nonces == DOMAIN sent

Init ==
    /\ items = [e \in Entities |-> NoItem]
    /\ requests = {} /\ sent = <<>>
    /\ poller = TRUE /\ ongoing = FALSE
    /\ forces = [called |-> 0, launched |-> 0]
    /\ added = [e \in Entities |-> 0] /\ handled = [e \in Entities |-> 0]

-----------------------------------------------------------------------------
\* addEntityRequest has no effect for an item there is.
EntityByID(e) ==
    /\ added[e] < MaxAdds /\ e \notin Needed
    /\ items' = [items EXCEPT ![e] = [attempts |-> 0, due |-> TRUE, needed |-> TRUE]]
    /\ added' = [added EXCEPT ![e] = @ + 1]
    /\ UNCHANGED <<requests, sent, poller, ongoing, forces, handled>>

\* The retry interval of an item passes.
Elapse(e) ==
    /\ e \in Needed /\ ~items[e].due
    /\ items' = [items EXCEPT ![e].due = TRUE]
    /\ UNCHANGED <<requests, sent, poller, ongoing, forces, added, handled>>

Due == {e \in Needed : items[e].due}
Expired == {e \in Due : items[e].attempts >= RetryAttempts}

\* Mutated form: items with no attempts left are kept.
BatchesKeep ==
    {<<batch, {}>> : batch \in
        {b \in SUBSET (Due \ Expired) :
            \/ b = {} /\ Due \ Expired = {}
            \/ \E p \in Providers :
                LET fitting == {e \in Due \ Expired : p \in Selector[e]} IN
                b # {} /\ b \subseteq fitting
                /\ (Cardinality(b) = BatchThreshold
                     \/ (Cardinality(b) < BatchThreshold /\ b = fitting))}}

\* The items go in a random order: those with no attempts left are dropped, the
\* first other one that is due decides on the provider, and all that fit are
\* requested from it, until the batch is full.
Batches ==
    {b \in (SUBSET (Due \ Expired)) \X (SUBSET Expired) :
        LET batch == b[1]
            dropped == b[2] IN
        \/ batch = {} /\ Due \ Expired = {} /\ dropped = Expired
        \/ \E p \in Providers :
            LET fitting == {e \in Due \ Expired : p \in Selector[e]} IN
            /\ batch # {} /\ batch \subseteq fitting
            /\ \/ Cardinality(batch) = BatchThreshold
               \/ Cardinality(batch) < BatchThreshold /\ batch = fitting /\ dropped = Expired}

\* The items after a batch has been requested and others were dropped.
Requested(batch, dropped) ==
    [e \in Entities |->
        IF e \in dropped THEN NoItem
        ELSE IF e \in batch THEN [items[e] EXCEPT !.attempts = @ + 1, !.due = FALSE]
        ELSE items[e]]

\* dispatchRequest of one of the Batches; sending may fail, then nothing is
\* remembered.
DispatchRequest(batch, dropped) ==
    /\ items' = Requested(batch, dropped)
    /\ \/ /\ batch # {}
          /\ sent' = [n \in 1..(Cardinality(Nonces) + 1) |-> IF n \in Nonces THEN sent[n] ELSE batch]
          /\ requests' = requests \cup {Cardinality(Nonces) + 1}
       \/ UNCHANGED <<sent, requests>>
    /\ UNCHANGED <<added, handled>>

\* The item that comes first has no provider.
DispatchFails ==
    /\ \E e \in Due \ Expired : Selector[e] = {}
    /\ \E dropped \in SUBSET Expired : items' = Requested({}, dropped)
    /\ UNCHANGED <<sent, requests, added, handled>>

\* A tick of poll.  The loop ends when a forced dispatch is going on.
Poll ==
    /\ poller
    /\ \/ ongoing /\ poller' = FALSE
          /\ UNCHANGED <<items, requests, sent, added, handled>>
       \/ /\ ~ongoing /\ UNCHANGED poller
          /\ \/ \E b \in Batches : DispatchRequest(b[1], b[2])
             \/ DispatchFails
    /\ UNCHANGED <<ongoing, forces>>

\* Force launches a goroutine unless one is dispatching.
Force ==
    /\ forces.called < MaxForces /\ ~ongoing
    /\ forces' = [called |-> forces.called + 1, launched |-> forces.launched + 1]
    /\ UNCHANGED <<items, requests, sent, poller, ongoing, added, handled>>

ForceStarts ==
    /\ forces.launched > 0
    /\ forces' = [forces EXCEPT !.launched = @ - 1]
    /\ ongoing' = TRUE   \* one that is going on is as good
    /\ UNCHANGED <<items, requests, sent, poller, added, handled>>

\* The goroutine dispatches until there is nothing to dispatch, or an error.
ForceDispatches ==
    /\ ongoing
    /\ \/ \E b \in Batches :
            /\ b[1] # {} /\ DispatchRequest(b[1], b[2])
            /\ ongoing' = (sent' # sent)
       \/ \E b \in Batches : b[1] = {} /\ DispatchRequest(b[1], b[2]) /\ ongoing' = FALSE
       \/ DispatchFails /\ ongoing' = FALSE
    /\ UNCHANGED <<poller, forces>>

\* The goroutine of a request forgets it after a while.
Forget(n) ==
    /\ n \in requests
    /\ requests' = requests \ {n}
    /\ UNCHANGED <<items, sent, poller, ongoing, forces, added, handled>>

-----------------------------------------------------------------------------
\* Mutated form: the item stays.
OnEntityResponseKeep(n, got, broken) ==
    /\ n \in Nonces
    /\ requests' = requests \ {n}
    /\ handled' = [e \in Entities |-> handled[e] + IF e \in got THEN 1 ELSE 0]
    /\ UNCHANGED <<items, sent, poller, ongoing, forces, added>>

\* onEntityResponse for a request that was sent at some time, from a provider that
\* answers late or again.  Of the entities in it, those that are not needed are
\* skipped, and so are wrong ones, by the check of their integrity; "got" are the
\* others: they are handled and no longer needed.  What the request has asked for
\* and is still needed is due at once, unless the response is broken: it cannot be
\* decoded from some place on.
OnEntityResponse(n, got, broken) ==
    LET missing == IF n \in requests /\ ~broken THEN sent[n] \cap (Needed \ got) ELSE {} IN
    /\ n \in Nonces
    /\ items' = [e \in Entities |->
                    IF e \in got THEN NoItem
                    ELSE IF e \in missing THEN [items[e] EXCEPT !.due = TRUE]
                    ELSE items[e]]
    /\ handled' = [e \in Entities |-> handled[e] + IF e \in got THEN 1 ELSE 0]
    /\ requests' = requests \ {n}
    /\ UNCHANGED <<sent, poller, ongoing, forces, added>>

-----------------------------------------------------------------------------
Step ==
    \/ \E e \in Entities : Elapse(e)
    \/ Poll
    \/ ForceStarts
    \/ ForceDispatches

Next ==
    \/ \E e \in Entities : EntityByID(e)
    \/ Step
    \/ Force
    \/ \E n \in Nonces : Forget(n)
    \/ \E n \in Nonces, got \in SUBSET Needed, broken \in BOOLEAN : OnEntityResponse(n, got, broken)

\* Time passes, the ticker ticks while the loop runs, and a forced dispatch goes
\* on: one of these happens while one can.  (An item is requested a bounded number
\* of times, so none of them is starved by the others.)  Nothing is assumed of the
\* network.
Fairness == WF_vars(Step)

Spec == Init /\ [][Next]_vars /\ Fairness

-----------------------------------------------------------------------------
(***************************************************************************)
(* Properties.                                                             *)
(***************************************************************************)

\* Where the variables may be.
TypeOK ==
    /\ \A e \in Entities : items[e].attempts \in 0..RetryAttempts
    /\ requests \subseteq Nonces
    /\ poller \in BOOLEAN /\ ongoing \in BOOLEAN

\* Responses that are late, duplicated or of several providers hand an entity to
\* the handler at most once for each time it was asked for.
HandledOnce == \A e \in Entities : handled[e] <= added[e]

\* Every entity with a provider is delivered or given up at last, or the polling
\* loop has ended.
RequestsEnd == []<>(poller => \A e \in Needed : Selector[e] = {})

\* Every entity with a provider is delivered or given up at last.
AlwaysRetried == []<>(\A e \in Needed : Selector[e] = {})

=============================================================================
