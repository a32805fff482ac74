--------------------------- MODULE PermitRegister ---------------------------
(***************************************************************************)
(* What the permit tables promise to a reader who knows nothing of carts,  *)
(* gateways and requests: which revision of a permit is in force, what it  *)
(* replaced, and that it was paid for.  PermitPayment implements it while  *)
(* requests run one at a time.                                             *)
(***************************************************************************)
CONSTANTS
    Permits,  \* the rows: permits, their revisions, and applications for either
    NoPermit, \* what a first revision revises
    Numbers,  \* the permit numbers
    NoNumber  \* the number of a row that was never in force

VARIABLES
    stage,  \* how far each row has come
    prev,   \* the row it revises
    number, \* the number it was given
    paid    \* the rows somebody has a receipt for

vars == <<stage, prev, number, paid>>

Stages == {"none", "open", "inForce", "replaced", "voided"}

\* The rows that were numbered: they were in force, or record that one is no more.
Numbered == {p \in Permits : stage[p] \in {"inForce", "replaced", "voided"}}

Init ==
    /\ stage = [p \in Permits |-> "none"]
    /\ prev = [p \in Permits |-> NoPermit]
    /\ number = [p \in Permits |-> NoNumber]
    /\ paid = {}

\* An application, for a new permit or for a revision of a numbered one.
Open(p, q) ==
    /\ stage[p] = "none"
    /\ q \in Numbered \cup {NoPermit}
    /\ stage' = [stage EXCEPT ![p] = "open"]
    /\ prev' = [prev EXCEPT ![p] = q]
    /\ UNCHANGED <<number, paid>>

Pay(S) ==
    /\ \A p \in S : stage[p] # "none"
    /\ paid' = paid \cup S
    /\ UNCHANGED <<stage, prev, number>>

\* An application that is paid for comes into force; in the same step what it
\* revises is replaced, and it gets its number.
Enter(p, n) ==
    /\ stage[p] = "open"
    /\ p \in paid
    /\ stage' = [q \in Permits |-> IF q = p THEN "inForce"
                                   ELSE IF q = prev[p] THEN "replaced"
                                   ELSE stage[q]]
    /\ number' = [number EXCEPT ![p] = n]
    /\ UNCHANGED <<prev, paid>>

\* A permit in force is replaced by a row that only says that it is void; the
\* fee or refund of the voiding is settled with it, or not.
Void(p, q, n) ==
    /\ stage[p] = "inForce"
    /\ stage[q] = "none"
    /\ stage' = [stage EXCEPT ![p] = "replaced", ![q] = "voided"]
    /\ prev' = [prev EXCEPT ![q] = p]
    /\ number' = [number EXCEPT ![q] = n]
    /\ paid' \in {paid, paid \cup {q}}

Next ==
    \/ \E p \in Permits : \E q \in Permits \cup {NoPermit} : Open(p, q)
    \/ \E S \in SUBSET Permits : Pay(S)
    \/ \E p \in Permits : \E n \in Numbers : Enter(p, n)
    \/ \E p, q \in Permits : \E n \in Numbers : Void(p, q, n)

Spec == Init /\ [][Next]_vars

-----------------------------------------------------------------------------
(* Properties                                                              *)

\* The type of the register.
TypeOK ==
    /\ stage \in [Permits -> Stages]
    /\ prev \in [Permits -> Permits \cup {NoPermit}]
    /\ number \in [Permits -> Numbers \cup {NoNumber}]
    /\ paid \in SUBSET Permits

\* Nothing is in force that nobody paid for.
InForcePaid == \A p \in Permits : stage[p] = "inForce" => p \in paid

\* Two revisions in a row are never in force together, and what a permit in
\* force revises stays replaced.
OneOfTwoInForce ==
    \A p \in Permits :
        stage[p] \in {"inForce", "voided"} /\ prev[p] # NoPermit
            => stage[prev[p]] = "replaced"

\* What came into force is only ever replaced, for good, and keeps its number.
ReplacedForGood ==
    [][\A p \in Permits :
          /\ stage[p] = "inForce" => stage'[p] \in {"inForce", "replaced"}
          /\ stage[p] = "replaced" => stage'[p] = "replaced"
          /\ p \in Numbered => number'[p] = number[p]]_vars
=============================================================================
