----------------------------- MODULE EventLoop -----------------------------
(***************************************************************************)
(* The event loop (consensus/hotstuff/eventloop) with its trackers         *)
(* (consensus/hotstuff/tracker): vote and timeout aggregator and compliance*)
(* engine submit events concurrently, one goroutine feeds them to the event*)
(* handler.  Of certificates only the newest is kept, with a notification  *)
(* channel of one place; proposals wait in a bounded channel.              *)
(***************************************************************************)
EXTENDS Naturals, Sequences, FiniteSets

CONSTANTS
    Certificates,  \* bound: the certificates submitted.  A record: kind ("QC",
                   \* "TC" or "partialTC"), view, and for a TC qc, the view of its
                   \* NewestQC (for a QC the view again)
    Proposals,     \* bound: the proposals submitted
    Capacity,      \* of the proposals channel
    MaxTimeouts    \* bound: how often the pacemaker's timer fires

VARIABLES
    submitter,      \* where the goroutine submitting each event is; "doneQC" when
                    \* it has submitted the QC of a TC instead of the TC
    newest,         \* the newest submitted QC, TC and partial TC: its view (0 for
                    \* none) and QC
    notified,       \* the notification channels that are full
    proposals,      \* the proposals channel
    timeoutFired,   \* the pacemaker's timeout channel is ready
    timeouts,       \* how often it was
    shutdown,       \* ctx.Done
    loop,           \* what the loop does: a select, or the event it has received
    handled,        \* the highest views given to the event handler
    handledProposals,
    overtaken       \* the events without priority taken since the timer fired

vars == <<submitter, newest, notified, proposals, timeoutFired, timeouts, shutdown,
          loop, handled, handledProposals, overtaken>>
input == <<submitter, newest, timeouts>>

Kinds == {"QC", "TC", "partialTC"}
Events == Certificates \cup Proposals

\* What the model assumes of its constants.
ConstantsAssumption ==
    /\ \A e \in Certificates : e.kind \in Kinds
    /\ Proposals \cap (Kinds \cup {"select1", "select2", "timeout", "exited", "thrown"}) = {}
    /\ Capacity \in Nat /\ MaxTimeouts \in Nat

Init ==
    /\ submitter = [e \in Events |-> "idle"]
    /\ newest = [k \in Kinds |-> [view |-> 0, qc |-> 0]]
    /\ notified = {}
    /\ proposals = <<>>
    /\ timeoutFired = FALSE /\ timeouts = 0
    /\ shutdown = FALSE
    /\ loop = "select1"
    /\ handled = [k \in Kinds |-> 0]
    /\ handledProposals = {}
    /\ overtaken = 0

-----------------------------------------------------------------------------
(***************************************************************************)
(* Submitting.  onTrustedQC, onTrustedTC and OnPartialTcCreated first track*)
(* the certificate and, if it is the newest, notify; the QC of a TC that is*)
(* not the newest is tracked by itself.                                    *)
(***************************************************************************)
\* Track: a compare-and-swap repeated until the view is installed or an equal
\* or higher one is there.
IsNewest(kind, view) == view > newest[kind].view

Track(e, kind, view) ==
    /\ newest' = [newest EXCEPT ![kind] = [view |-> view, qc |-> e.qc]]
    /\ submitter' = [submitter EXCEPT ![e] = kind]

\* Mutated form: the QC of a TC that is not the newest is dropped.
SubmitDropQC(e) ==
    /\ submitter[e] = "idle"
    /\ \/ IsNewest(e.kind, e.view) /\ Track(e, e.kind, e.view)
       \/ /\ ~IsNewest(e.kind, e.view)
          /\ submitter' = [submitter EXCEPT ![e] = IF e.kind = "TC" THEN "doneQC" ELSE "done"]
          /\ UNCHANGED newest
    /\ UNCHANGED <<notified, proposals, timeoutFired, timeouts, shutdown, loop, handled,
                   handledProposals, overtaken>>

Submit(e) ==
    /\ submitter[e] = "idle"
    /\ \/ IsNewest(e.kind, e.view) /\ Track(e, e.kind, e.view)
       \/ /\ ~IsNewest(e.kind, e.view)
          /\ submitter' = [submitter EXCEPT ![e] = IF e.kind = "TC" THEN "qcOfTC" ELSE "done"]
          /\ UNCHANGED newest
    /\ UNCHANGED <<notified, proposals, timeoutFired, timeouts, shutdown, loop, handled,
                   handledProposals, overtaken>>

\* The second branch of onTrustedTC
SubmitQCOfTC(e) ==
    /\ submitter[e] = "qcOfTC"
    /\ \/ IsNewest("QC", e.qc) /\ Track(e, "QC", e.qc)
       \/ /\ ~IsNewest("QC", e.qc)
          /\ submitter' = [submitter EXCEPT ![e] = "doneQC"]
          /\ UNCHANGED newest
    /\ UNCHANGED <<notified, proposals, timeoutFired, timeouts, shutdown, loop, handled,
                   handledProposals, overtaken>>

Notify(e) ==
    /\ submitter[e] \in Kinds
    /\ notified' = notified \cup {submitter[e]}
    /\ submitter' = [submitter EXCEPT ![e] = IF e.kind = submitter[e] THEN "done" ELSE "doneQC"]
    /\ UNCHANGED <<newest, proposals, timeoutFired, timeouts, shutdown, loop, handled,
                   handledProposals, overtaken>>

\* SubmitProposal blocks while the channel is full, until shutdown.
StartSubmitProposal(p) ==
    /\ submitter[p] = "idle"
    /\ submitter' = [submitter EXCEPT ![p] = "send"]
    /\ UNCHANGED <<newest, notified, proposals, timeoutFired, timeouts, shutdown, loop,
                   handled, handledProposals, overtaken>>

SubmitProposal(p) ==
    /\ submitter[p] = "send"
    /\ \/ /\ Len(proposals) < Capacity
          /\ proposals' = Append(proposals, p)
       \/ /\ shutdown
          /\ UNCHANGED proposals
    /\ submitter' = [submitter EXCEPT ![p] = "done"]
    /\ UNCHANGED <<newest, notified, timeoutFired, timeouts, shutdown, loop, handled,
                   handledProposals, overtaken>>

-----------------------------------------------------------------------------
(***************************************************************************)
(* The loop: two selects, and the handlers.                                *)
(***************************************************************************)
Exit ==
    /\ shutdown
    /\ loop' = "exited"
    /\ UNCHANGED <<input, notified, proposals, timeoutFired, shutdown, handled,
                   handledProposals, overtaken>>

\* OnLocalTimeout starts the next timer; afterwards the loop reads the channel anew.
TakeTimeout ==
    /\ timeoutFired
    /\ loop' = "timeout"
    /\ timeoutFired' = FALSE
    /\ overtaken' = 0
    /\ UNCHANGED <<input, notified, proposals, shutdown, handled, handledProposals>>

TakeCertificate(kind) ==
    /\ kind \in notified
    /\ notified' = notified \ {kind}
    /\ loop' = kind
    /\ overtaken' = IF timeoutFired /\ kind # "partialTC" THEN overtaken + 1 ELSE overtaken
    /\ UNCHANGED <<input, proposals, timeoutFired, shutdown, handled, handledProposals>>

TakeProposal ==
    /\ proposals # <<>>
    /\ loop' = Head(proposals)
    /\ proposals' = Tail(proposals)
    /\ overtaken' = IF timeoutFired THEN overtaken + 1 ELSE overtaken
    /\ UNCHANGED <<input, notified, timeoutFired, shutdown, handled, handledProposals>>

FallThrough ==
    /\ loop' = "select2"
    /\ UNCHANGED <<input, notified, proposals, timeoutFired, shutdown, handled,
                   handledProposals, overtaken>>

\* Mutated form: the first select is passed over.
SelectAny ==
    /\ loop = "select1"
    /\ FallThrough

\* The first select: shutdown, local timeouts and partial TCs; it does not block.
PrioritySelect ==
    /\ loop = "select1"
    /\ \/ Exit
       \/ TakeTimeout
       \/ TakeCertificate("partialTC")
       \/ ~shutdown /\ ~timeoutFired /\ "partialTC" \notin notified /\ FallThrough

\* The second select waits for any event, and takes any that is there.
Select(kind) ==
    /\ loop = "select2"
    /\ \/ kind = "shutdown" /\ Exit
       \/ kind = "timeout" /\ TakeTimeout
       \/ kind \in Kinds /\ TakeCertificate(kind)
       \/ kind = "proposal" /\ TakeProposal

\* OnReceiveQc, OnReceiveTc and OnPartialTcCreated get what is the newest now.  A
\* TC brings its QC along.
HandleCertificate ==
    /\ loop \in Kinds
    /\ LET c == newest[loop]
           raised(kind, view) == IF view > handled[kind] THEN view ELSE handled[kind] IN
       handled' = [handled EXCEPT ![loop] = raised(loop, c.view), !["QC"] = raised("QC", c.qc)]
    /\ loop' = "select1"
    /\ UNCHANGED <<input, notified, proposals, timeoutFired, shutdown, handledProposals,
                   overtaken>>

HandleProposal ==
    /\ loop \in Proposals
    /\ handledProposals' = handledProposals \cup {loop}
    /\ loop' = "select1"
    /\ UNCHANGED <<input, notified, proposals, timeoutFired, shutdown, handled, overtaken>>

HandleTimeout ==
    /\ loop = "timeout"
    /\ loop' = "select1"
    /\ UNCHANGED <<input, notified, proposals, timeoutFired, shutdown, handled,
                   handledProposals, overtaken>>

\* An error of a handler ends the loop; the worker throws it.
HandlerFails ==
    /\ loop \in Kinds \cup Proposals \cup {"timeout"}
    /\ loop' = "thrown"
    /\ UNCHANGED <<input, notified, proposals, timeoutFired, shutdown, handled,
                   handledProposals, overtaken>>

-----------------------------------------------------------------------------
\* The timer of the pacemaker: a new one starts when the last was handled.
Fire ==
    /\ ~timeoutFired /\ loop # "timeout" /\ timeouts < MaxTimeouts
    /\ timeoutFired' = TRUE
    /\ timeouts' = timeouts + 1
    /\ overtaken' = 0
    /\ UNCHANGED <<submitter, newest, notified, proposals, shutdown, loop, handled,
                   handledProposals>>

\* The node stops, or the component manager cancels after an error was thrown.
Shutdown ==
    /\ ~shutdown
    /\ shutdown' = TRUE
    /\ UNCHANGED <<submitter, newest, notified, proposals, timeoutFired, timeouts, loop,
                   handled, handledProposals, overtaken>>

Sources == Kinds \cup {"shutdown", "timeout", "proposal"}

SubmitStep(e) ==
    \/ e \in Certificates /\ (SubmitQCOfTC(e) \/ Notify(e))
    \/ e \in Proposals /\ SubmitProposal(e)

Handle ==
    \/ HandleCertificate
    \/ HandleProposal
    \/ HandleTimeout

LoopStep ==
    \/ PrioritySelect
    \/ \E kind \in Sources : Select(kind)
    \/ Handle

\* What goes on of its own: the submitters, the loop, and the shutdown of the node
\* that follows an error.
Step ==
    \/ \E e \in Events : SubmitStep(e)
    \/ LoopStep
    \/ loop = "thrown" /\ Shutdown

Next ==
    \/ \E e \in Certificates : Submit(e)
    \/ \E p \in Proposals : StartSubmitProposal(p)
    \/ Step
    \/ HandlerFails
    \/ Fire
    \/ Shutdown

\* Some submitter or the loop goes on when one can.  As submissions and local
\* timeouts are bounded, no fairness between them, or of the choice in the
\* second select, is needed.
Fairness == WF_vars(Step)

Spec == Init /\ [][Next]_vars /\ Fairness

-----------------------------------------------------------------------------
(***************************************************************************)
(* Properties.                                                             *)
(***************************************************************************)

\* Where the variables may be; the channel keeps to its capacity.
TypeOK ==
    /\ submitter \in [Events -> Kinds \cup {"idle", "qcOfTC", "send", "done", "doneQC"}]
    /\ DOMAIN newest = Kinds
    /\ notified \subseteq Kinds
    /\ proposals \in Seq(Proposals) /\ Len(proposals) <= Capacity
    /\ {timeoutFired, shutdown} \subseteq BOOLEAN
    /\ timeouts \in 0 .. MaxTimeouts
    /\ loop \in Kinds \cup Proposals
                \cup {"select1", "select2", "timeout", "exited", "thrown"}
    /\ DOMAIN handled = Kinds
    /\ handledProposals \subseteq Proposals

\* Local timeouts have priority: once the timer has fired, one event other than
\* a partial TC at most is processed before OnLocalTimeout.
TimeoutPriority == timeoutFired => overtaken <= 1

\* Whether an event that was submitted is with the event handler, or a newer one
\* of its kind.
IsHandled(e) ==
    IF e \in Proposals
    THEN submitter[e] = "done" /\ e \in handledProposals
    ELSE \/ submitter[e] = "done" /\ handled[e.kind] >= e.view
         \/ submitter[e] = "doneQC" /\ handled["QC"] >= e.qc

\* Nothing that is submitted is lost on the way to the event handler, whatever it
\* competes with: when the submissions cease, each was handled or replaced by a
\* newer one of its kind.  For certificates, the notification follows the
\* tracking and the loop reads the tracker after the notification; the QC of a
\* TC that came too late to be the newest counts as submitted.
SubmittedIsHandled ==
    []<>(shutdown \/ \A e \in Events : submitter[e] = "idle" \/ IsHandled(e))

\* Whoever submits a proposal is not blocked for ever, although the channel is
\* bounded, the loop may end with an error and the node may stop.
SubmittersReturn == []<>(\A p \in Proposals : submitter[p] # "send")

=============================================================================
