--------------------------- MODULE MCPermitPayment ---------------------------
(***************************************************************************)
(* Instances of PermitPayment for TLC: the sets of handlers that clients   *)
(* call in each run.                                                       *)
(***************************************************************************)
EXTENDS PermitPayment, TLC

\* Everything that happens to new applications
NewApplicationHandlers ==
    {"create", "update", "delete", "cart", "checkout", "callback", "issue"}

\* The life of a permit after its first issuance
RevisionHandlers ==
    {"create", "amend", "delete", "cart", "checkout", "refund", "callback",
     "issue", "void"}

\* Payment and issuance, for the liveness run
PaymentHandlers == {"create", "cart", "checkout", "callback", "issue"}

\* Every handler but update, which changes nothing when there is one data value
OverlapHandlers == (NewApplicationHandlers \cup RevisionHandlers) \ {"update"}

\* Slots are interchangeable.
SlotSymmetry == Permutations(Slots)

=============================================================================
