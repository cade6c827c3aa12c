-------------------------- MODULE TimeoutCollector --------------------------
(***************************************************************************)
(* The timeout collector of one view (consensus/hotstuff/timeoutcollector):*)
(* TimeoutCollector with its TimeoutObjectsCache, TimeoutProcessor and     *)
(* TimeoutSignatureAggregator.                                             *)
(*                                                                         *)
(* The workers of the timeout aggregator call AddTimeout concurrently, each*)
(* with one timeout.  A step is what a call does to the shared state at a  *)
(* time: an access to an atomic or a section under a lock.                 *)
(***************************************************************************)
EXTENDS Threshold, FiniteSets

CONSTANTS
    View,      \* of the collector, and of all timeouts it is given
    Signers,   \* the authorized replicas
    Weight,    \* the weight of each
    Timeouts,  \* bound: the timeouts submitted.  A record: signer, qc (the view
               \* of NewestQC), tc (LastViewTC: its view and the view of its QC,
               \* or None), valid (both certificates pass the validator) and
               \* signed (the signature is the signer's).
    None

\* What the model assumes of its constants.
ConstantsAssumption ==
    /\ View \in Nat \ {0}
    /\ IsFiniteSet(Signers) /\ Weight \in [Signers -> Nat]
    /\ None \notin Timeouts
    /\ \A t \in Timeouts :
          /\ t.qc \in Nat /\ {t.valid, t.signed} \subseteq BOOLEAN
          /\ t.tc # None => t.tc.view \in Nat /\ t.tc.qc \in Nat

VARIABLES
    cache,             \* TimeoutObjectsCache.timeouts: the first of each signer
    call,              \* where the call with each timeout is, the weight it got
    newestQC,          \* TimeoutProcessor.newestQCTracker: the view, 0 for none
    added,             \* the timeouts in TimeoutSignatureAggregator.idToSignature
    partialDone,       \* partialTCTracker.done
    tcDone,            \* tcTracker.done
    aggregate,         \* what Aggregate has returned to the call that builds the TC
    newestReportedQC, newestReportedTC,  \* the counters of TimeoutCollector
    partialTCs,        \* emitted by OnPartialTcCreated
    tcs,               \* emitted by OnTcConstructedFromTimeouts
    reported           \* the timeouts whose QC or TC was emitted as new

vars == <<cache, call, newestQC, added, partialDone, tcDone, aggregate,
          newestReportedQC, newestReportedTC, partialTCs, tcs, reported>>

\* The sum of the weights: the units of weight that the signers have together.
Units(signers) == UNION {{s} \X (1 .. Weight[s]) : s \in signers}
WeightOf(signers) == Cardinality(Units(signers))
TotalWeight == WeightOf({t.signer : t \in added})

Init ==
    /\ cache = [s \in {t.signer : t \in Timeouts} |-> None]
    /\ call = [t \in Timeouts |-> [at |-> "idle", weight |-> 0]]
    /\ newestQC = 0
    /\ added = {}
    /\ partialDone = FALSE /\ tcDone = FALSE
    /\ aggregate = {}
    /\ newestReportedQC = 0 /\ newestReportedTC = 0
    /\ partialTCs = {} /\ tcs = {} /\ reported = {}

At(t, pc) == call[t].at = pc
Goto(t, pc) == call' = [call EXCEPT ![t].at = pc]

-----------------------------------------------------------------------------
\* AddTimeout and AddTimeoutObject: a second timeout of a signer, the same or
\* another, goes no further.
AddTimeout(t) ==
    /\ At(t, "idle")
    /\ \/ /\ cache[t.signer] = None
          /\ cache' = [cache EXCEPT ![t.signer] = t]
          /\ Goto(t, "checkDone")
       \/ /\ cache[t.signer] # None
          /\ Goto(t, "double")
          /\ UNCHANGED cache
    /\ UNCHANGED <<newestQC, added, partialDone, tcDone, aggregate,
                   newestReportedQC, newestReportedTC, partialTCs, tcs, reported>>

\* Process, its first look at tcTracker.Done
CheckDone(t) ==
    /\ At(t, "checkDone")
    /\ Goto(t, IF tcDone THEN "reportQC" ELSE "validate")
    /\ UNCHANGED <<cache, newestQC, added, partialDone, tcDone, aggregate,
                   newestReportedQC, newestReportedTC, partialTCs, tcs, reported>>

\* Mutated form: a timeout need not prove that its view was reached.
IsValidUnproven(t) ==
    /\ t.qc < View
    /\ t.tc # None => t.tc.view + 1 = View /\ t.tc.qc <= t.qc
    /\ t.valid

\* validateTimeout
IsValid(t) ==
    /\ t.qc < View
    /\ t.tc # None => t.tc.view + 1 = View /\ t.tc.qc <= t.qc
    /\ t.qc + 1 = View \/ t.tc # None
    /\ t.valid

\* An invalid timeout is reported; for a valid one, tcTracker is looked at again.
Validate(t) ==
    /\ At(t, "validate")
    /\ \/ ~IsValid(t) /\ Goto(t, "invalid")
       \/ IsValid(t) /\ Goto(t, IF tcDone THEN "reportQC" ELSE "trackQC")
    /\ UNCHANGED <<cache, newestQC, added, partialDone, tcDone, aggregate,
                   newestReportedQC, newestReportedTC, partialTCs, tcs, reported>>

\* NewestQCTracker.Track: a compare-and-swap repeated until the view is installed
\* or an equal or higher one is there
TrackNewestQC(t) ==
    /\ At(t, "trackQC")
    /\ newestQC' = IF t.qc > newestQC THEN t.qc ELSE newestQC
    /\ Goto(t, "add")
    /\ UNCHANGED <<cache, added, partialDone, tcDone, aggregate,
                   newestReportedQC, newestReportedTC, partialTCs, tcs, reported>>

\* TimeoutSignatureAggregator.VerifyAndAdd.  The signature is verified outside
\* the lock; under the lock the signature is added and the new total weight
\* returned.  An unauthorized signer or a wrong signature makes the timeout
\* invalid, a signer added before is an internal error.
VerifyAndAdd(t) ==
    LET all == {u.signer : u \in added} IN
    /\ At(t, "add")
    /\ \/ /\ t.signer \notin Signers \/ ~t.signed
          /\ Goto(t, "invalid")
          /\ UNCHANGED added
       \/ /\ t.signer \in all /\ t.signed
          /\ Goto(t, "fatal")
          /\ UNCHANGED added
       \/ /\ t.signer \in Signers \ all /\ t.signed
          /\ added' = added \cup {t}
          /\ call' = [call EXCEPT ![t] = [at |-> "trackPartial",
                                          weight |-> WeightOf(all \cup {t.signer})]]
    /\ UNCHANGED <<cache, newestQC, partialDone, tcDone, aggregate,
                   newestReportedQC, newestReportedTC, partialTCs, tcs, reported>>

\* partialTCTracker.Track
TrackPartialTC(t) ==
    LET passes == /\ call[t].weight >= WeightThresholdToTimeout(WeightOf(Signers))
                  /\ ~partialDone IN
    /\ At(t, "trackPartial")
    /\ partialDone' = (partialDone \/ passes)
    /\ Goto(t, IF passes THEN "emitPartial" ELSE "trackTC")
    /\ UNCHANGED <<cache, newestQC, added, tcDone, aggregate,
                   newestReportedQC, newestReportedTC, partialTCs, tcs, reported>>

OnPartialTcCreated(t) ==
    /\ At(t, "emitPartial")
    /\ partialTCs' = partialTCs \cup {[qc |-> newestQC, tc |-> t.tc, by |-> t]}
    /\ Goto(t, "trackTC")
    /\ UNCHANGED <<cache, newestQC, added, partialDone, tcDone, aggregate,
                   newestReportedQC, newestReportedTC, tcs, reported>>

\* Mutated form: whoever sees the weight builds a TC.
TrackTCAlways(t) ==
    /\ At(t, "trackTC")
    /\ tcDone' = (tcDone \/ call[t].weight >= WeightThresholdToBuildQC(WeightOf(Signers)))
    /\ Goto(t, IF tcDone' THEN "aggregate" ELSE "reportQC")
    /\ UNCHANGED <<cache, newestQC, added, partialDone, aggregate,
                   newestReportedQC, newestReportedTC, partialTCs, tcs, reported>>

\* Mutated form: the weight of a partial TC is enough.
TrackTCEarly(t) ==
    LET passes == /\ call[t].weight >= WeightThresholdToTimeout(WeightOf(Signers))
                  /\ ~tcDone IN
    /\ At(t, "trackTC")
    /\ tcDone' = (tcDone \/ passes)
    /\ Goto(t, IF passes THEN "aggregate" ELSE "reportQC")
    /\ UNCHANGED <<cache, newestQC, added, partialDone, aggregate,
                   newestReportedQC, newestReportedTC, partialTCs, tcs, reported>>

\* tcTracker.Track: one call builds the TC
TrackTC(t) ==
    LET passes == /\ call[t].weight >= WeightThresholdToBuildQC(WeightOf(Signers))
                  /\ ~tcDone IN
    /\ At(t, "trackTC")
    /\ tcDone' = (tcDone \/ passes)
    /\ call' = [call EXCEPT ![t] = [at |-> IF passes THEN "aggregate" ELSE "reportQC", weight |-> 0]]
    /\ UNCHANGED <<cache, newestQC, added, partialDone, aggregate,
                   newestReportedQC, newestReportedTC, partialTCs, tcs, reported>>

\* buildTC: the signatures are aggregated under the lock ...
Aggregate(t) ==
    /\ At(t, "aggregate")
    /\ aggregate' = added
    /\ Goto(t, "emitTC")
    /\ UNCHANGED <<cache, newestQC, added, partialDone, tcDone,
                   newestReportedQC, newestReportedTC, partialTCs, tcs, reported>>

\* ... and the newest QC is read after it; OnTcConstructedFromTimeouts
EmitTC(t) ==
    /\ At(t, "emitTC")
    /\ tcs' = tcs \cup {[qc |-> newestQC, signers |-> aggregate, by |-> t]}
    /\ aggregate' = {}
    /\ Goto(t, "reportQC")
    /\ UNCHANGED <<cache, newestQC, added, partialDone, tcDone,
                   newestReportedQC, newestReportedTC, partialTCs, reported>>

\* processTimeout after Process has returned no error: the certificates of the
\* timeout are handed on when their views are newer than all before.
ReportQC(t) ==
    /\ At(t, "reportQC")
    /\ \/ /\ t.qc > newestReportedQC
          /\ newestReportedQC' = t.qc
          /\ reported' = reported \cup {t}
       \/ /\ t.qc <= newestReportedQC
          /\ UNCHANGED <<newestReportedQC, reported>>
    /\ Goto(t, IF t.tc = None THEN "processed" ELSE "reportTC")
    /\ UNCHANGED <<cache, newestQC, added, partialDone, tcDone, aggregate,
                   newestReportedTC, partialTCs, tcs>>

ReportTC(t) ==
    /\ At(t, "reportTC")
    /\ \/ /\ t.tc.view > newestReportedTC
          /\ newestReportedTC' = t.tc.view
          /\ reported' = reported \cup {t}
       \/ /\ t.tc.view <= newestReportedTC
          /\ UNCHANGED <<newestReportedTC, reported>>
    /\ Goto(t, "processed")
    /\ UNCHANGED <<cache, newestQC, added, partialDone, tcDone, aggregate,
                   newestReportedQC, partialTCs, tcs>>

-----------------------------------------------------------------------------
\* What a worker does once it has called AddTimeout
CallStep(t) ==
    \/ CheckDone(t)
    \/ Validate(t)
    \/ TrackNewestQC(t)
    \/ VerifyAndAdd(t)
    \/ TrackPartialTC(t)
    \/ OnPartialTcCreated(t)
    \/ TrackTC(t)
    \/ Aggregate(t)
    \/ EmitTC(t)
    \/ ReportQC(t)
    \/ ReportTC(t)

Step == \E t \in Timeouts : CallStep(t)

Next == (\E t \in Timeouts : AddTimeout(t)) \/ Step

\* Of the calls that have started, some go on; none can go on forever.
Fairness == WF_vars(Step)

Spec == Init /\ [][Next]_vars /\ Fairness

-----------------------------------------------------------------------------
(***************************************************************************)
(* Properties.                                                             *)
(***************************************************************************)

\* Where the variables may be.
TypeOK ==
    /\ cache \in [{t.signer : t \in Timeouts} -> Timeouts \cup {None}]
    /\ DOMAIN call = Timeouts
    /\ newestQC \in 0 .. View
    /\ added \subseteq Timeouts /\ aggregate \subseteq added
    /\ {partialDone, tcDone} \subseteq BOOLEAN
    /\ {newestReportedQC, newestReportedTC} \subseteq Nat
    /\ reported \subseteq Timeouts

\* The aggregator never meets a signer twice, which processTimeout would take
\* for an internal error and stop the node: the cache lets one timeout pass.
NoFatalTimeout == \A t \in Timeouts : ~At(t, "fatal")

\* However the workers interleave, one call at most builds the TC of the view,
\* one the partial TC, and a TC never comes without the partial TC's weight.
OneTC ==
    /\ Cardinality(tcs) <= 1
    /\ Cardinality(partialTCs) <= 1
    /\ tcs # {} => partialDone

\* A TC that is built passes the validator of every other replica: a quorum has
\* signed, one timeout each, and its QC is as new as the newest a signer
\* reports, although signatures and QC are collected and read at different
\* times (the CAUTION in TimeoutProcessor.Process).
TCIsValid ==
    \A tc \in tcs :
        /\ \A t, u \in tc.signers : t.signer = u.signer => t = u
        /\ WeightOf({t.signer : t \in tc.signers}) >= WeightThresholdToBuildQC(WeightOf(Signers))
        /\ \A t \in tc.signers : t.qc <= tc.qc
        /\ tc.qc < View

\* What a partial TC hands to the event handler proves that its view was reached:
\* by a QC of the view before, or by a TC.  The QC and the TC come from different
\* timeouts.
PartialTCProvesView ==
    \A p \in partialTCs :
        /\ p.qc + 1 = View \/ p.tc # None
        /\ p.tc # None => p.tc.qc <= p.qc

\* The signers whose first timeout is beyond reproach
Supporters == {s \in Signers \cap DOMAIN cache :
                   cache[s] # None /\ IsValid(cache[s]) /\ cache[s].signed}

\* When a quorum has submitted valid timeouts the TC is built, whichever worker
\* sees the weight that suffices.
QuorumMakesTC ==
    []<>(WeightOf(Supporters) >= WeightThresholdToBuildQC(WeightOf(Signers)) => tcs # {})

\* "Emits notifications about verified QCs and TCs, if their view is newer than
\* any QC or TC previously known to the TimeoutCollector" (timeout_collector.go).
OnlyVerifiedReported == \A t \in reported : IsValid(t)

=============================================================================
