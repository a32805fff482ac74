------------------------------ MODULE CaseQueue ------------------------------
(***************************************************************************)
(* The review queue for the permit types that staff must look at before    *)
(* they are paid for: a client submits an application, which opens a case; *)
(* staff claim the case, edit the application, and approve or reject it;   *)
(* the client may withdraw it before anyone has claimed it.                *)
(*                                                                         *)
(* ApplicationService checks the status of the application on a row that   *)
(* it read outside of the transaction; CaseManagementService then reads    *)
(* the latest case inside of it (read committed: the read holds no lock),  *)
(* and saves the entity it had read.  A request therefore is up to three   *)
(* steps: Begin (the application's status), Load (the case), Commit.       *)
(*                                                                         *)
(* The payment of applications is PermitPayment's; here each of its        *)
(* handlers is one step, and WAITING_PAYMENT is passed over.               *)
(***************************************************************************)
EXTENDS Integers, Sequences

CONSTANTS
    Slots,         \* request slots: how many requests may be in flight
    Applications,  \* applications of a type that needs a review
    Amendments,    \* those of them that amend a permit
    Staff,         \* the users who review
    Nobody,        \* a null assignedUser, and the clients
    Nothing,       \* the application of an unused case row
    MaxCases,      \* bound on the rows of the case table
    MaxOutcomes    \* bound on the outcomes logged for one case

ASSUME AmendmentsAssumption == Amendments \subseteq Applications

ASSUME NullsAssumption == Nobody \notin Staff /\ Nothing \notin Applications

ASSUME CaseBoundsAssumption == MaxCases \in Nat /\ MaxOutcomes \in Nat

Cases == 1..MaxCases
NoCase == 0

Outcomes == {"APPROVED", "REJECTED", "WITHDRAWN"}

VARIABLES
    status,     \* permitStatus of each application
    case,       \* the case table: application, status and assigned user
    outcomes,   \* the case activities of each case, in the order logged
    edited,     \* applications edited since they were last approved
    staffCart,  \* applications that staff put in the cart without a review
    receipted,  \* applications with a receipted transaction
    req         \* the requests in flight

vars == <<status, case, outcomes, edited, staffCart, receipted, req>>

NoRow == [app |-> Nothing, status |-> "NONE", assignee |-> Nobody]

Idle == [op |-> "idle", app |-> Nothing, user |-> Nobody, case |-> NoCase,
         snap |-> NoRow]

Init ==
    /\ status = [a \in Applications |-> "IN_PROGRESS"]
    /\ case = [c \in Cases |-> NoRow]
    /\ outcomes = [c \in Cases |-> << >>]
    /\ edited = Applications
    /\ staffCart = {}
    /\ receipted = {}
    /\ req = [s \in Slots |-> Idle]

CasesOf(a) == {c \in Cases : case[c].app = a}

\* findLatest: the case with the highest id, or null
IsLatest(c, a) == c \in CasesOf(a) /\ \A d \in CasesOf(a) : d <= c

Latest(a) == IF \E c \in Cases : IsLatest(c, a)
             THEN CHOOSE c \in Cases : IsLatest(c, a)
             ELSE NoCase

HasOpenCase(a) == Latest(a) # NoCase /\ case[Latest(a)].status # "CLOSED"

Begin(s, op, a, u) ==
    /\ req[s] = Idle
    /\ req' = [req EXCEPT ![s] = [Idle EXCEPT !.op = op, !.app = a, !.user = u]]
    /\ UNCHANGED <<status, case, outcomes, edited, staffCart, receipted>>

End(s) == req' = [req EXCEPT ![s] = Idle]

-----------------------------------------------------------------------------
(* ApplicationService.addApplicationToQueue and openCase.  The UPDATE of   *)
(* the permit row comes first in the transaction, so the requests for one  *)
(* application are serial from there on.                                   *)
BeginSubmit(s) ==
    \E a \in Applications :
        /\ status[a] = "IN_PROGRESS"
        /\ Begin(s, "submit", a, Nobody)

CommitSubmit(s) ==
    LET a == req[s].app IN
    /\ req[s].op = "submit"
    /\ ~HasOpenCase(a)
    /\ \E c \in Cases :
        /\ case[c] = NoRow
        /\ \A d \in Cases : d < c => case[d] # NoRow
        /\ case' = [case EXCEPT ![c] = [NoRow EXCEPT !.app = a, !.status = "OPEN"]]
    /\ status' = [status EXCEPT ![a] = "IN_QUEUE"]
    /\ End(s)
    /\ UNCHANGED <<outcomes, edited, staffCart, receipted>>

-----------------------------------------------------------------------------
(* assingApplicationInQueue and updateApplicationQueueStatus               *)
BeginReview(s) ==
    \E a \in Applications :
        /\ status[a] = "IN_QUEUE"
        /\ \/ Begin(s, "WITHDRAWN", a, Nobody)
           \/ \E u \in Staff, op \in {"assign", "APPROVED", "REJECTED"} :
                Begin(s, op, a, u)

\* The checks of assignCase, caseWithdrawn and workflowEnd on the case.
Loadable(op, row, u) ==
    CASE op = "assign"    -> row.status # "CLOSED"
      [] op = "WITHDRAWN" -> row.status = "OPEN"
      [] OTHER            -> row.status = "IN_PROGRESS" /\ row.assignee = u

LoadCase(s) ==
    LET c == Latest(req[s].app) IN
    /\ req[s].op \in Outcomes \cup {"assign"}
    /\ req[s].case = NoCase
    /\ c # NoCase
    /\ Loadable(req[s].op, case[c], req[s].user)
    /\ req' = [req EXCEPT ![s].case = c, ![s].snap = case[c]]
    /\ UNCHANGED <<status, case, outcomes, edited, staffCart, receipted>>

\* What assignCase (and workflowStart, on an open case) saves.
Claimed(row, u) ==
    [row EXCEPT !.assignee = u,
                !.status = IF row.status = "OPEN" THEN "IN_PROGRESS" ELSE row.status]

CommitAssign(s) ==
    /\ req[s].op = "assign"
    /\ req[s].case # NoCase
    /\ case' = [case EXCEPT ![req[s].case] = Claimed(req[s].snap, req[s].user)]
    /\ End(s)
    /\ UNCHANGED <<status, outcomes, edited, staffCart, receipted>>

\* Mutant: a status of the enumeration that no other handler expects.
NextStatusRejected(outcome) == IF outcome = "APPROVED" THEN "IN_CART" ELSE "REJECTED"

NextStatus(outcome) == IF outcome = "APPROVED" THEN "IN_CART" ELSE "IN_PROGRESS"

\* Mutant: the case is not closed.
ClosedNotSaved(row) == row

\* What closeCase saves, for the row that workflowEnd or caseWithdrawn had read.
Closed(row) == [row EXCEPT !.status = "CLOSED"]

\* Mutant: a withdrawal is not logged.
CommitOutcomeUnlogged(s) ==
    LET a == req[s].app  c == req[s].case  outcome == req[s].op IN
    /\ outcome \in Outcomes
    /\ c # NoCase
    /\ Len(outcomes[c]) < MaxOutcomes
    /\ outcomes' = IF outcome = "WITHDRAWN" THEN outcomes
                   ELSE [outcomes EXCEPT ![c] = Append(@, outcome)]
    /\ case' = [case EXCEPT ![c] = Closed(req[s].snap)]
    /\ status' = [status EXCEPT ![a] = NextStatus(outcome)]
    /\ edited' = IF outcome = "APPROVED" THEN edited \ {a} ELSE edited
    /\ End(s)
    /\ UNCHANGED <<staffCart, receipted>>

\* workflowEnd or caseWithdrawn logs the outcome, closeCase saves the case,
\* and the application leaves the queue.
CommitOutcome(s) ==
    LET a == req[s].app  c == req[s].case  outcome == req[s].op IN
    /\ outcome \in Outcomes
    /\ c # NoCase
    /\ Len(outcomes[c]) < MaxOutcomes
    /\ outcomes' = [outcomes EXCEPT ![c] = Append(@, outcome)]
    /\ case' = [case EXCEPT ![c] = Closed(req[s].snap)]
    /\ status' = [status EXCEPT ![a] = NextStatus(outcome)]
    /\ edited' = IF outcome = "APPROVED" THEN edited \ {a} ELSE edited
    /\ End(s)
    /\ UNCHANGED <<staffCart, receipted>>

-----------------------------------------------------------------------------
(* ApplicationService.update: the application is edited by anyone while it *)
(* is in progress, and by its claimant while it is in the queue.           *)

\* Mutant: the claimant is not compared with the user.
EditableByAnyone(a, u) == status[a] \in {"IN_PROGRESS", "IN_QUEUE", "IN_CART"}

Editable(a, u) ==
    \/ status[a] = "IN_PROGRESS"
    \/ /\ status[a] = "IN_QUEUE"
       /\ HasOpenCase(a)
       /\ u # Nobody
       /\ case[Latest(a)].assignee = u

BeginUpdate(s) ==
    \E a \in Applications, u \in Staff \cup {Nobody} :
        /\ Editable(a, u)
        /\ Begin(s, "update", a, u)

CommitUpdate(s) ==
    /\ req[s].op = "update"
    /\ edited' = edited \cup {req[s].app}
    /\ End(s)
    /\ UNCHANGED <<status, case, outcomes, staffCart, receipted>>

\* Any request may end before it has committed: a check that fails on what
\* was read, an exception, a rollback.
Fail(s) ==
    /\ req[s] # Idle
    /\ End(s)
    /\ UNCHANGED <<status, case, outcomes, edited, staffCart, receipted>>

-----------------------------------------------------------------------------
(* The handlers of PermitPayment, seen from the queue                      *)
Unqueued == UNCHANGED <<case, outcomes, edited, req>>

SetStatus(a, from, to) ==
    /\ status[a] \in from
    /\ status' = [status EXCEPT ![a] = to]

\* Mutant: addToCart does not hold the types for review back from clients.
AddToCartByClient(a) ==
    /\ SetStatus(a, {"IN_PROGRESS"}, "IN_CART")
    /\ UNCHANGED <<staffCart, receipted>>
    /\ Unqueued

\* addToCart refuses applications for review to clients, not to staff.
AddToCart(a) ==
    /\ SetStatus(a, {"IN_PROGRESS"}, "IN_CART")
    /\ staffCart' = staffCart \cup {a}
    /\ UNCHANGED receipted
    /\ Unqueued

RemoveFromCart(a) ==
    /\ SetStatus(a, {"IN_CART"}, "IN_PROGRESS")
    /\ UNCHANGED <<staffCart, receipted>>
    /\ Unqueued

Delete(a) ==
    /\ SetStatus(a, {"IN_PROGRESS"}, "CANCELLED")
    /\ UNCHANGED <<staffCart, receipted>>
    /\ Unqueued

\* createTransactions: an amendment is payable while it is in progress.
Pay(a) ==
    /\ SetStatus(a, {"IN_CART"} \cup (IF a \in Amendments THEN {"IN_PROGRESS"} ELSE {}),
                 "PAYMENT_COMPLETE")
    /\ receipted' = receipted \cup {a}
    /\ UNCHANGED staffCart
    /\ Unqueued

\* createRefundTransactions leaves the status of the amendment alone.
Refund(a) ==
    /\ a \in Amendments
    /\ status[a] \in {"IN_PROGRESS", "IN_CART"}
    /\ receipted' = receipted \cup {a}
    /\ UNCHANGED <<status, staffCart>>
    /\ Unqueued

Issue(a) ==
    /\ a \in receipted
    /\ SetStatus(a, {"IN_PROGRESS", "IN_QUEUE", "IN_CART", "PAYMENT_COMPLETE",
                     "CANCELLED"}, "ISSUED")
    /\ UNCHANGED <<staffCart, receipted>>
    /\ Unqueued

-----------------------------------------------------------------------------
Handle(s) ==
    \/ BeginSubmit(s) \/ CommitSubmit(s)
    \/ BeginReview(s) \/ LoadCase(s) \/ CommitAssign(s) \/ CommitOutcome(s)
    \/ BeginUpdate(s) \/ CommitUpdate(s)
    \/ Fail(s)

Elsewhere(a) ==
    \/ AddToCart(a) \/ RemoveFromCart(a) \/ Delete(a)
    \/ Pay(a) \/ Refund(a) \/ Issue(a)

Next ==
    \/ \E s \in Slots : Handle(s)
    \/ \E a \in Applications : Elsewhere(a)

Spec == Init /\ [][Next]_vars

-----------------------------------------------------------------------------
(* Properties                                                              *)

CaseRow == [app : Applications \cup {Nothing},
            status : {"NONE", "OPEN", "IN_PROGRESS", "CLOSED"},
            assignee : Staff \cup {Nobody}]

Requests == [op : Outcomes \cup {"idle", "submit", "assign", "update"},
             app : Applications \cup {Nothing}, user : Staff \cup {Nobody},
             case : Cases \cup {NoCase}, snap : CaseRow]

\* The type invariant.
TypeOK ==
    /\ status \in [Applications -> {"IN_PROGRESS", "IN_QUEUE", "IN_CART",
                                    "PAYMENT_COMPLETE", "ISSUED", "CANCELLED"}]
    /\ case \in [Cases -> CaseRow]
    /\ outcomes \in [Cases -> Seq(Outcomes)]
    /\ edited \subseteq Applications
    /\ staffCart \subseteq Applications
    /\ receipted \subseteq Applications
    /\ req \in [Slots -> Requests]

\* An application waits for a review exactly when its latest case is open or in
\* progress (a paid one apart: issuePermits takes it out of the queue).
QueueAgreesWithCase ==
    \A a \in Applications \ receipted : status[a] = "IN_QUEUE" <=> HasOpenCase(a)

\* A case is closed with one outcome, and only the closed ones have one.
OneOutcomePerCase ==
    \A c \in Cases : Len(outcomes[c]) = IF case[c].status = "CLOSED" THEN 1 ELSE 0

\* A case has a claimant exactly when its review has started.
ClaimedIsInReview ==
    \A c \in Cases :
        /\ case[c].status = "OPEN" => case[c].assignee = Nobody
        /\ case[c].status = "IN_PROGRESS" => case[c].assignee # Nobody

PaidFor == {"IN_CART", "PAYMENT_COMPLETE", "ISSUED"}

\* What a client pays for is what was approved: unless staff put it there, a
\* new application reaches the cart by its latest case being approved, and it
\* is not edited after that.
PaidAsApproved ==
    \A a \in Applications \ (Amendments \cup staffCart) :
        status[a] \in PaidFor =>
            /\ Latest(a) # NoCase
            /\ outcomes[Latest(a)] = <<"APPROVED">>
            /\ a \notin edited

Approved(a) ==
    \E c \in CasesOf(a), i \in 1..MaxOutcomes :
        i <= Len(outcomes[c]) /\ outcomes[c][i] = "APPROVED"

\* Whatever requests overlap, a new application that staff did not put in the
\* cart gets there by an approval.
ReviewedBeforeCart ==
    \A a \in Applications \ (Amendments \cup staffCart) :
        status[a] \in PaidFor => Approved(a)

\* Whatever requests overlap, no case is closed without an outcome.
ClosedHasOutcome ==
    \A c \in Cases : case[c].status = "CLOSED" => outcomes[c] # << >>

=============================================================================
