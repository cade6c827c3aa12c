------------------------------- MODULE Blocks -------------------------------
(***************************************************************************)
(* Blocks and certificates of HotStuff, as every replica sees them.        *)
(*                                                                         *)
(* A block carries, under the hash that identifies it, its view, the QC for*)
(* its parent and the optional TC for the previous view (flow.Header.Body).*)
(* A block is identified with its ID here; View, QC and LastViewTC give its*)
(* header.  A QC is represented by the block it certifies, a TC by its view*)
(* and its newest QC.                                                      *)
(***************************************************************************)
EXTENDS Naturals

CONSTANTS
    Block,      \* every block that anybody may propose, and the root block
    View, QC, LastViewTC,  \* what a block's header contains (Root has no QC)
    Root,       \* the trusted root block every replica is bootstrapped with
    Ancestors,  \* the ancestors of a block, itself included
    NoTC,       \* the nil TC
    NoTimeout,  \* the nil LastTimeout
    MaxView,    \* bound: no timeout above this view
    MaxTick     \* bound: re-broadcasts of one timeout

Views == View[Root] .. MaxView

\* flow.TimeoutCertificate
TimeoutCertificate == [view : Nat, newestQC : Block]

\* SafetyData.LastTimeout, when it is not nil
LastTimeout == [view : Nat, newestQC : Block, tick : 0 .. MaxTick]

\* Blocks are hash-linked: following parents from a block is well defined.
ASSUME BlockAssumption ==
    /\ Root \in Block
    /\ View \in [Block -> Nat]
    /\ QC \in [Block \ {Root} -> Block]
    /\ LastViewTC \in [Block \ {Root} -> TimeoutCertificate \cup {NoTC}]
    /\ NoTC \notin TimeoutCertificate
    /\ NoTimeout \notin LastTimeout

ASSUME AncestorsAssumption ==
    /\ Ancestors \in [Block -> SUBSET Block]
    /\ Ancestors[Root] = {Root}
    /\ \A b \in Block \ {Root} : Ancestors[b] = {b} \cup Ancestors[QC[b]]

ASSUME BoundAssumption == MaxView \in Nat /\ MaxTick \in Nat

\* SafetyRules.validateEvidenceForEnteringView: whoever acts in a view proves
\* that it entered the view legitimately.
ValidateEvidenceForEnteringView(view, newestQC, lastViewTC) ==
    \/ /\ View[newestQC] + 1 = view
       /\ lastViewTC = NoTC
    \/ /\ View[newestQC] + 1 # view
       /\ lastViewTC # NoTC
       /\ lastViewTC.view + 1 = view
       /\ View[newestQC] < view
       /\ View[newestQC] >= View[lastViewTC.newestQC]

=============================================================================
