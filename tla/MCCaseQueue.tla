----------------------------- MODULE MCCaseQueue -----------------------------
(***************************************************************************)
(* Two instances of CaseQueue for TLC; the initial state chooses one.  In  *)
(* the serial one a request begins when no other is under way, and there   *)
(* are two applications; in the other one requests overlap, and the second *)
(* application rests.                                                      *)
(***************************************************************************)
EXTENDS CaseQueue, FiniteSets, TLC

CONSTANT Second     \* the application that rests when requests overlap

VARIABLE serial     \* one request at a time

ChosenVars == <<vars, serial>>

AtMostOne == Cardinality({s \in Slots : req[s] # Idle}) <= 1

ChosenInit == Init /\ serial \in BOOLEAN

ChosenNext ==
    /\ Next
    /\ UNCHANGED serial
    /\ IF serial THEN AtMostOne' ELSE UNCHANGED status[Second]

ChosenSpec == ChosenInit /\ [][ChosenNext]_ChosenVars

\* Reviewers and request slots are interchangeable.
QueueSymmetry == Permutations(Staff) \cup Permutations(Slots)

-----------------------------------------------------------------------------
(* What holds for requests that do not overlap                             *)

\* The queue, its cases and their outcomes agree as long as no handler works on
\* rows that another one has changed since: an application waits exactly when
\* its case is not closed, a case has the outcome that closed it and no other,
\* and a review has a claimant.
SerialQueueAgrees ==
    serial => QueueAgreesWithCase /\ OneOutcomePerCase /\ ClaimedIsInReview

\* What clients pay for is what staff approved.
SerialPaidAsApproved == serial => PaidAsApproved

=============================================================================
