---------------------------- MODULE PermitPayment ----------------------------
(***************************************************************************)
(* The permit table and the payment tables of the vehicles API, and every  *)
(* request handler that moves an application from its creation through the *)
(* shopping cart, the payment (direct, or through the PayBC gateway), the  *)
(* issuance, the amendment and the voiding of the permit.                  *)
(*                                                                         *)
(* A handler is an async function: it awaits a SELECT, decides on the rows *)
(* it got, and writes later.  Other requests run between the two.  Each    *)
(* handler is therefore a Begin action, which reads the rows into the      *)
(* request's slot, and a Commit action, which writes.  With one slot the   *)
(* requests run one after the other; with two they overlap.                *)
(*                                                                         *)
(* TypeORM's save(entity) compares the entity with the row as it is at the *)
(* time of the save and writes every column that differs: a handler that   *)
(* saves what it had read puts its whole snapshot back.                    *)
(***************************************************************************)
EXTENDS Integers, FiniteSets

CONSTANTS
    Slots,        \* request slots: how many requests may be in flight
    MaxPermits,   \* bound on the rows of the permit table
    MaxTxns,      \* bound on the rows of the transaction table
    MaxRevision,  \* bound on the revisions of a permit
    Data,         \* what permitData may hold (each value has its own price)
    Handlers,     \* the handlers that clients call in this instance
    PayMethods    \* the ways to pay in this instance: WEB is PayBC, OTHER any
                  \* method settled at once (card terminal, cheque, account...)

ASSUME BoundsAssumption ==
    MaxPermits \in Nat /\ MaxTxns \in Nat /\ MaxRevision \in Nat

ASSUME DataAssumption == Data # {}

ASSUME PayMethodsAssumption == PayMethods \subseteq {"WEB", "OTHER"}

Permits == 1..MaxPermits
Txns == 1..MaxTxns
NoId == 0                     \* a null id: originalPermitId, previousRevision
NoNumber == -1                \* a null permitNumber
SomeData == CHOOSE d \in Data : TRUE

\* CANCELLED stands for CANCELLED and DELETED, VOIDED for VOIDED and REVOKED:
\* no handler tells the two of a pair apart.
Statuses == {"NONE", "IN_PROGRESS", "IN_CART", "WAITING_PAYMENT",
             "PAYMENT_COMPLETE", "ISSUED", "SUPERSEDED", "VOIDED", "CANCELLED"}

\* ACTIVE_APPLICATION_STATUS_FOR_ISSUANCE and ACTIVE_APPLICATION_STATUS
ActiveForIssuance == {"IN_PROGRESS", "WAITING_PAYMENT", "IN_CART"}
ActiveStatus == {"IN_PROGRESS", "WAITING_PAYMENT"}

\* A row of ORBC_PERMIT joined with its ORBC_PERMIT_DATA.  Every number of a
\* permit and its amendments has the sequence of the original permit, so only
\* the revision suffix of the number is kept.
Row == [status : Statuses, orig : Permits \cup {NoId},
        prev : Permits \cup {NoId}, rev : Nat, number : Nat \cup {NoNumber},
        data : Data]

NoRow == [status |-> "NONE", orig |-> NoId, prev |-> NoId, rev |-> 0,
          number |-> NoNumber, data |-> SomeData]

\* A row of ORBC_TRANSACTION with its ORBC_PERMIT_TRANSACTION rows: the permits
\* it pays for, each with the data it was priced at, and the receipts that
\* were created for it.  pgApproved is what the gateway callback recorded.
Methods == {"WEB", "OTHER", "REFUND"}
Txn == [method : Methods \cup {"NONE"}, permits : SUBSET Permits,
        priced : [Permits -> Data], receipts : Nat,
        pgApproved : {"null", "yes", "no"}]

NoTxn == [method |-> "NONE", permits |-> {},
          priced |-> [p \in Permits |-> SomeData], receipts |-> 0,
          pgApproved |-> "null"]

Ops == {"create", "amend", "update", "checkout", "refund", "callback",
        "issue", "delete", "void"}

Requests == [op : Ops \cup {"idle"}, permits : SUBSET Permits,
             snap : [Permits -> Row], txn : Txns \cup {NoId},
             method : Methods, data : Data, number : Nat]

Idle == [op |-> "idle", permits |-> {}, snap |-> [p \in Permits |-> NoRow],
         txn |-> NoId, method |-> "OTHER", data |-> SomeData, number |-> 0]

VARIABLES
    permit,   \* the permit table
    txn,      \* the transaction, permit_transaction and receipt tables
    payBC,    \* what the gateway did with the money of a web transaction
    req       \* the requests in flight

vars == <<permit, txn, payBC, req>>

-----------------------------------------------------------------------------

Exists(p) == permit[p].status # "NONE"

\* The identity column gives the ids out in order.
IsNextPermit(p) == /\ permit[p].status = "NONE"
                   /\ \A q \in Permits : q < p => Exists(q)
IsNextTxn(t) == /\ txn[t].method = "NONE"
                /\ \A u \in Txns : u < t => txn[u].method # "NONE"

\* findManyWithSuccessfulTransaction: inner joins down to a receipt.
Receipted(p) == \E t \in Txns : txn[t].receipts > 0 /\ p \in txn[t].permits

\* checkApplicationInProgress and checkApplicationInProgressForIssuance
ActiveApplications(o) ==
    {p \in Permits : permit[p].orig = o /\ permit[p].status \in ActiveForIssuance}

\* isAmendmentApplication
IsAmendmentApplication(p, row) ==
    row.status = "IN_PROGRESS" /\ row.orig # p /\ row.rev > 0

\* The status check of createTransactions and createRefundTransactions
Payable(p, row) ==
    \/ row.status \in {"VOIDED", "IN_CART"}
    \/ IsAmendmentApplication(p, row)

\* generatePermitNumber, for a permit with a number (the next revision of it)
\* and for one without (its application number).
NextNumber(row) == IF row.number = NoNumber THEN 0 ELSE row.rev + 1

Snapshot(S) == [p \in Permits |-> IF p \in S THEN permit[p] ELSE NoRow]

Free(s, op) == op \in Handlers /\ req[s] = Idle

Begin(s, op, S) ==
    req' = [req EXCEPT ![s] = [Idle EXCEPT !.op = op, !.permits = S,
                                           !.snap = Snapshot(S)]]

End(s) == req' = [req EXCEPT ![s] = Idle]

Init ==
    /\ permit = [p \in Permits |-> NoRow]
    /\ txn = [t \in Txns |-> NoTxn]
    /\ payBC = [t \in Txns |-> "unanswered"]
    /\ req = [s \in Slots |-> Idle]

-----------------------------------------------------------------------------
(* ApplicationService.create                                               *)

\* A new application: the row is saved first, its originalPermitId is set by a
\* second statement.
BeginCreate(s) ==
    /\ Free(s, "create")
    /\ \E p \in Permits, d \in Data :
        /\ IsNextPermit(p)
        /\ permit' = [permit EXCEPT ![p] =
                        [NoRow EXCEPT !.status = "IN_PROGRESS", !.data = d]]
        /\ Begin(s, "create", {p})
    /\ UNCHANGED <<txn, payBC>>

AssignOriginal(s) ==
    /\ req[s].op = "create"
    /\ permit' = [p \in Permits |-> IF p \in req[s].permits
                                    THEN [permit[p] EXCEPT !.orig = p]
                                    ELSE permit[p]]
    /\ End(s)
    /\ UNCHANGED <<txn, payBC>>

\* Mutant: create() does not count the active applications.
BeginAmendUncounted(s) ==
    /\ Free(s, "amend")
    /\ \E p \in Permits :
        /\ permit[p].number # NoNumber
        /\ permit[p].rev < MaxRevision
        /\ Begin(s, "amend", {p})
    /\ UNCHANGED <<permit, txn, payBC>>

\* An amendment of permit p: p must have a number and no active application
\* may exist for its original permit; the status of p is not looked at.
BeginAmend(s) ==
    /\ Free(s, "amend")
    /\ \E p \in Permits :
        /\ permit[p].number # NoNumber
        /\ permit[p].rev < MaxRevision
        /\ ActiveApplications(permit[p].orig) = {}
        /\ Begin(s, "amend", {p})
    /\ UNCHANGED <<permit, txn, payBC>>

InsertAmendment(s) ==
    /\ req[s].op = "amend"
    /\ \E p \in req[s].permits, q \in Permits, d \in Data :
        /\ IsNextPermit(q)
        /\ permit' = [permit EXCEPT ![q] =
                        [status |-> "IN_PROGRESS", orig |-> req[s].snap[p].orig,
                         prev |-> p, rev |-> req[s].snap[p].rev + 1,
                         number |-> NoNumber, data |-> d]]
    /\ End(s)
    /\ UNCHANGED <<txn, payBC>>

\* Mutant: an application in the cart can be edited as well.
BeginUpdateInCart(s) ==
    /\ Free(s, "update")
    /\ \E p \in Permits, d \in Data :
        /\ permit[p].status \in {"IN_PROGRESS", "IN_CART", "PAYMENT_COMPLETE"}
        /\ req' = [req EXCEPT ![s] = [Idle EXCEPT !.op = "update",
                                                  !.permits = {p}, !.data = d]]
    /\ UNCHANGED <<permit, txn, payBC>>

(* ApplicationService.update: the status is checked on the row that was    *)
(* read; what is saved is the data alone.                                  *)
BeginUpdate(s) ==
    /\ Free(s, "update")
    /\ \E p \in Permits, d \in Data :
        /\ permit[p].status = "IN_PROGRESS"
        /\ req' = [req EXCEPT ![s] = [Idle EXCEPT !.op = "update",
                                                  !.permits = {p}, !.data = d]]
    /\ UNCHANGED <<permit, txn, payBC>>

CommitUpdate(s) ==
    /\ req[s].op = "update"
    /\ permit' = [p \in Permits |-> IF p \in req[s].permits
                                    THEN [permit[p] EXCEPT !.data = req[s].data]
                                    ELSE permit[p]]
    /\ End(s)
    /\ UNCHANGED <<txn, payBC>>

(* ApplicationService.deleteApplicationInProgress: what is saved is the    *)
(* row that was read, with the new status (the data is not part of it).    *)
BeginDelete(s) ==
    /\ Free(s, "delete")
    /\ \E p \in Permits :
        /\ permit[p].status \in ActiveStatus
        /\ permit[p].number = NoNumber
        /\ Begin(s, "delete", {p})
    /\ UNCHANGED <<permit, txn, payBC>>

CommitDelete(s) ==
    /\ req[s].op = "delete"
    /\ permit' = [p \in Permits |->
                    IF p \in req[s].permits
                    THEN [req[s].snap[p] EXCEPT !.status = "CANCELLED",
                                                !.data = permit[p].data]
                    ELSE permit[p]]
    /\ End(s)
    /\ UNCHANGED <<txn, payBC>>

-----------------------------------------------------------------------------
(* ShoppingCartService: one UPDATE whose WHERE clause holds the status     *)
(* condition, so there is nothing between the check and the write.         *)
SetStatus(S, from, to) ==
    /\ \A p \in S : permit[p].status \in from
    /\ permit' = [p \in Permits |-> IF p \in S
                                    THEN [permit[p] EXCEPT !.status = to]
                                    ELSE permit[p]]

AddToCart ==
    /\ "cart" \in Handlers
    /\ \E S \in (SUBSET Permits) \ {{}} :
        SetStatus(S, {"IN_PROGRESS", "WAITING_PAYMENT"}, "IN_CART")
    /\ UNCHANGED <<txn, payBC, req>>

RemoveFromCart ==
    /\ "cart" \in Handlers
    /\ \E S \in (SUBSET Permits) \ {{}} : SetStatus(S, {"IN_CART"}, "IN_PROGRESS")
    /\ UNCHANGED <<txn, payBC, req>>

-----------------------------------------------------------------------------
(* PaymentService.createTransactions                                       *)
BeginCheckout(s) ==
    /\ Free(s, "checkout")
    /\ \E S \in (SUBSET Permits) \ {{}}, m \in PayMethods :
        /\ \A p \in S : Payable(p, permit[p])
        /\ req' = [req EXCEPT ![s] =
                    [Idle EXCEPT !.op = "checkout", !.permits = S,
                                 !.snap = Snapshot(S), !.method = m]]
    /\ UNCHANGED <<permit, txn, payBC>>

\* Mutant: a status of the enumeration that no other handler expects.
PurchasedRowApproved(row, m) ==
    IF m = "WEB" THEN [row EXCEPT !.status = "WAITING_PAYMENT"]
    ELSE [row EXCEPT !.status = "APPROVED"]

\* The row that createTransactions saves for a permit it had read as "row".
PurchasedRow(row, m) ==
    IF m = "WEB" THEN [row EXCEPT !.status = "WAITING_PAYMENT"]
    ELSE [row EXCEPT !.status = "PAYMENT_COMPLETE"]

\* A direct purchase of a voided or revoked permit does not save the permit.
SavesPermit(row, m) == m = "WEB" \/ row.status # "VOIDED"

\* Inserts a transaction for the permits S; all but web purchases get their
\* receipt at once.
NewTxn(t, S, rows, m, pg) ==
    txn' = [txn EXCEPT ![t] =
              [NoTxn EXCEPT !.method = m, !.permits = S, !.pgApproved = pg,
                            !.priced = [p \in Permits |->
                                          IF p \in S THEN rows[p].data ELSE SomeData],
                            !.receipts = IF m = "WEB" THEN 0 ELSE 1]]

CommitCheckout(s) ==
    /\ req[s].op = "checkout"
    /\ \E t \in Txns :
        /\ IsNextTxn(t)
        /\ NewTxn(t, req[s].permits, req[s].snap, req[s].method, "null")
    /\ permit' = [p \in Permits |->
                    IF /\ p \in req[s].permits
                       /\ SavesPermit(req[s].snap[p], req[s].method)
                    THEN PurchasedRow(req[s].snap[p], req[s].method)
                    ELSE permit[p]]
    /\ End(s)
    /\ UNCHANGED payBC

(* PaymentService.createRefundTransactions called on its own, for an       *)
(* amendment that costs less than what was paid.  The permit's status is   *)
(* checked and left as it is.  The policy engine lets a refund pass only   *)
(* when the cost is negative, which a first revision's never is.           *)
BeginRefund(s) ==
    /\ Free(s, "refund")
    /\ \E p \in Permits :
        /\ Payable(p, permit[p])
        /\ permit[p].rev > 0
        /\ Begin(s, "refund", {p})
    /\ UNCHANGED <<permit, txn, payBC>>

CommitRefund(s) ==
    /\ req[s].op = "refund"
    /\ \E t \in Txns : /\ IsNextTxn(t)
                    /\ NewTxn(t, req[s].permits, req[s].snap, "REFUND", "null")
    /\ End(s)
    /\ UNCHANGED <<permit, payBC>>

-----------------------------------------------------------------------------
(* The gateway, and PaymentService.updateTransactions                      *)

\* PayBC (external): the user pays or cancels on PayBC's page, once.  The
\* page's address was handed out by createTransactions and stays valid; the
\* one made for a void (pgApproved is set at once) is dropped by voidPermit.
AnswerAtPayBC ==
    /\ \E t \in Txns, answer \in {"captured", "declined"} :
        /\ txn[t].method = "WEB"
        /\ txn[t].pgApproved = "null"
        /\ payBC[t] = "unanswered"
        /\ payBC' = [payBC EXCEPT ![t] = answer]
    /\ UNCHANGED <<permit, txn, req>>

\* Mutant: the status of the transaction's permits is not checked.
BeginCallbackUnchecked(s) ==
    /\ Free(s, "callback")
    /\ \E t \in Txns :
        /\ payBC[t] # "unanswered"
        /\ req' = [req EXCEPT ![s] = [Idle EXCEPT !.op = "callback", !.txn = t]]
    /\ UNCHANGED <<permit, txn, payBC>>

\* The browser comes back with PayBC's signed answer: never, once or (on a
\* reload) several times.
BeginCallback(s) ==
    /\ Free(s, "callback")
    /\ \E t \in Txns :
        /\ payBC[t] # "unanswered"
        /\ \A p \in txn[t].permits : permit[p].status = "WAITING_PAYMENT"
        /\ req' = [req EXCEPT ![s] = [Idle EXCEPT !.op = "callback", !.txn = t]]
    /\ UNCHANGED <<permit, txn, payBC>>

\* Mutant: pgApproved is not looked at.
CommitApprovedAlways(s) ==
    LET t == req[s].txn IN
    /\ req[s].op = "callback"
    /\ txn' = [txn EXCEPT ![t].pgApproved = "yes", ![t].receipts = @ + 1]
    /\ permit' = [p \in Permits |->
                    IF p \in txn[t].permits
                    THEN [permit[p] EXCEPT !.status = "PAYMENT_COMPLETE"]
                    ELSE permit[p]]
    /\ End(s)
    /\ UNCHANGED payBC

\* Mutant: no receipt is created.
CommitApprovedNoReceipt(s) ==
    LET t == req[s].txn IN
    /\ req[s].op = "callback"
    /\ payBC[t] = "captured"
    /\ txn' = [txn EXCEPT ![t].pgApproved = "yes"]
    /\ permit' = [p \in Permits |->
                    IF p \in txn[t].permits
                    THEN [permit[p] EXCEPT !.status = "PAYMENT_COMPLETE"]
                    ELSE permit[p]]
    /\ End(s)
    /\ UNCHANGED payBC

CommitApproved(s) ==
    LET t == req[s].txn IN
    /\ req[s].op = "callback"
    /\ payBC[t] = "captured"
    /\ txn' = [txn EXCEPT ![t].pgApproved = "yes", ![t].receipts = @ + 1]
    /\ permit' = [p \in Permits |->
                    IF p \in txn[t].permits
                    THEN [permit[p] EXCEPT !.status = "PAYMENT_COMPLETE"]
                    ELSE permit[p]]
    /\ End(s)
    /\ UNCHANGED payBC

CommitDeclined(s) ==
    LET t == req[s].txn IN
    /\ req[s].op = "callback"
    /\ payBC[t] = "declined"
    /\ txn' = [txn EXCEPT ![t].pgApproved = "no"]
    /\ End(s)
    /\ UNCHANGED <<permit, payBC>>

-----------------------------------------------------------------------------
(* ApplicationService.issuePermits, for one of the ids of the call: each   *)
(* id has a database transaction of its own.                               *)

\* validateApplicationForIssuance
ReadyForIssuance(row) ==
    row.number = NoNumber /\ row.status # "WAITING_PAYMENT"

\* The row the number is made from: the previous revision's for an amendment.
\* An application whose originalPermitId is not set has none, and the call
\* fails.
NumberSource(p, row) == IF row.orig = p THEN row ELSE permit[row.prev]

BeginIssue(s) ==
    /\ Free(s, "issue")
    /\ \E p \in Permits :
        /\ Receipted(p)
        /\ ReadyForIssuance(permit[p])
        /\ permit[p].orig = p \/ permit[p].prev # NoId
        /\ req' = [req EXCEPT ![s] =
                    [Idle EXCEPT !.op = "issue", !.permits = {p},
                                 !.snap = Snapshot({p}),
                                 !.number = NextNumber(NumberSource(p, permit[p]))]]
    /\ UNCHANGED <<permit, txn, payBC>>

\* Mutant: the previous revision is left as it is.
CommitIssueAlone(s) ==
    /\ req[s].op = "issue"
    /\ permit' = [p \in Permits |->
                    IF p \in req[s].permits
                    THEN [permit[p] EXCEPT !.status = "ISSUED",
                                           !.number = req[s].number]
                    ELSE permit[p]]
    /\ End(s)
    /\ UNCHANGED <<txn, payBC>>

CommitIssue(s) ==
    LET Previous == {req[s].snap[p].prev : p \in req[s].permits} IN
    /\ req[s].op = "issue"
    /\ permit' = [p \in Permits |->
                    CASE p \in req[s].permits ->
                           [permit[p] EXCEPT !.status = "ISSUED",
                                             !.number = req[s].number]
                      [] p \in Previous \ req[s].permits ->
                           [permit[p] EXCEPT !.status = "SUPERSEDED"]
                      [] OTHER -> permit[p]]
    /\ End(s)
    /\ UNCHANGED <<txn, payBC>>

(* PermitService.voidPermit: the checks come before the transaction; the   *)
(* transaction inserts the voided revision, supersedes the old one and     *)
(* refunds or charges it, and rolls back as one.                           *)
BeginVoid(s) ==
    /\ Free(s, "void")
    /\ \E p \in Permits, m \in PayMethods \cup {"REFUND"} :
        /\ permit[p].number # NoNumber
        /\ permit[p].status = "ISSUED"
        /\ permit[p].rev < MaxRevision
        /\ ActiveApplications(permit[p].orig) = {}
        /\ req' = [req EXCEPT ![s] =
                    [Idle EXCEPT !.op = "void", !.permits = {p},
                                 !.snap = Snapshot({p}), !.method = m]]
    /\ UNCHANGED <<permit, txn, payBC>>

CommitVoid(s) ==
    /\ req[s].op = "void"
    /\ \E p \in req[s].permits, q \in Permits, t \in Txns :
        LET old == req[s].snap[p]
            new == [old EXCEPT !.status = "VOIDED", !.prev = p,
                               !.rev = old.rev + 1, !.number = NextNumber(old)]
        IN  /\ IsNextPermit(q)
            /\ IsNextTxn(t)
            /\ permit' = [permit EXCEPT
                            ![p].status = "SUPERSEDED",
                            ![q] = IF req[s].method = "WEB"
                                   THEN PurchasedRow(new, "WEB") ELSE new]
            \* a web purchase for a void is written as approved, with no receipt
            /\ NewTxn(t, {q}, [r \in Permits |-> new], req[s].method,
                      IF req[s].method = "WEB" THEN "yes" ELSE "null")
    /\ End(s)
    /\ UNCHANGED payBC

\* Any request may end before it has committed: an exception, a rollback, a
\* deadlock victim, or the death of the process.
Fail(s) ==
    /\ req[s] # Idle
    /\ End(s)
    /\ UNCHANGED <<permit, txn, payBC>>

-----------------------------------------------------------------------------

Handle(s) ==
    \/ BeginCreate(s)   \/ AssignOriginal(s)
    \/ BeginAmend(s)    \/ InsertAmendment(s)
    \/ BeginUpdate(s)   \/ CommitUpdate(s)
    \/ BeginDelete(s)   \/ CommitDelete(s)
    \/ BeginCheckout(s) \/ CommitCheckout(s)
    \/ BeginRefund(s)   \/ CommitRefund(s)
    \/ BeginCallback(s) \/ CommitApproved(s) \/ CommitDeclined(s)
    \/ BeginIssue(s)    \/ CommitIssue(s)
    \/ BeginVoid(s)     \/ CommitVoid(s)
    \/ Fail(s)

Next ==
    \/ AddToCart
    \/ RemoveFromCart
    \/ AnswerAtPayBC
    \/ \E s \in Slots : Handle(s)

Spec == Init /\ [][Next]_vars

(* The scheduler calls applications/issue on every tick for the permits    *)
(* that are PAYMENT_COMPLETE: a call that is possible again and again is   *)
(* made, and is not failed by the database every time.  Every request ends.*)
\* issuance of permit p
BeginIssueOf(s, p) == /\ BeginIssue(s)
                      /\ p \in req'[s].permits
                      /\ permit[p].status = "PAYMENT_COMPLETE"
CommitIssueOf(s, p) == CommitIssue(s) /\ p \in req[s].permits

Fairness ==
    \A s \in Slots :
        /\ WF_vars(Handle(s) /\ req[s] # Idle)
        /\ \A p \in Permits : SF_vars(BeginIssueOf(s, p)) /\ SF_vars(CommitIssueOf(s, p))

FairSpec == Spec /\ Fairness

-----------------------------------------------------------------------------
(* Properties                                                              *)

\* The type invariant of the tables and of the request slots.
TypeOK ==
    /\ permit \in [Permits -> Row]
    /\ txn \in [Txns -> Txn]
    /\ payBC \in [Txns -> {"unanswered", "captured", "declined"}]
    /\ req \in [Slots -> Requests]

\* No permit is issued, or ready to be, without a receipt for it: whatever
\* requests overlap, issuePermits and the gateway callback never put a permit
\* in force that no transaction with a receipt pays for.
PaidBeforeIssued ==
    \A p \in Permits :
        permit[p].status \in {"PAYMENT_COMPLETE", "ISSUED"} => Receipted(p)

\* A web transaction has a receipt only if PayBC took the money: replayed and
\* overlapping callbacks of updateTransactions never turn a declined or an
\* unanswered payment into a paid one.
ReceiptMeansMoney ==
    \A t \in Txns :
        txn[t].method = "WEB" /\ txn[t].receipts > 0 => payBC[t] = "captured"

Purchases(p) ==
    {t \in Txns : txn[t].method \in {"WEB", "OTHER"} /\ p \in txn[t].permits}

\* A transaction gets one receipt, however often its callback is repeated.
OneReceipt == \A t \in Txns : txn[t].receipts <= 1

\* An application is paid for at most once (rows made by a void apart: they
\* carry a number and are never issued), although a user may leave a web
\* payment open and pay again in another way.
PaidOnce ==
    /\ OneReceipt
    /\ \A p \in Permits :
        permit[p].number = NoNumber \/ permit[p].status = "ISSUED"
            => Cardinality({t \in Purchases(p) : txn[t].receipts > 0}) <= 1

\* When the purchase that was settled is the last one that was started, the
\* permit holds the data that the purchase was priced at: nothing can be edited
\* between createTransactions and the issuance.
PricedAsIssued ==
    \A p \in Permits, t \in Txns :
        /\ permit[p].status \in {"PAYMENT_COMPLETE", "ISSUED"}
        /\ t \in Purchases(p)
        /\ txn[t].receipts > 0
        /\ \A u \in Purchases(p) : u <= t
        => txn[t].priced[p] = permit[p].data

\* The revision before a permit in force, or before a voided one, is
\* superseded: two revisions in a row are never in force together.
PredecessorSuperseded ==
    \A p \in Permits :
        permit[p].status \in {"ISSUED", "VOIDED"} /\ permit[p].prev # NoId
            => permit[permit[p].prev].status = "SUPERSEDED"

\* At most one amendment application of an original permit is active in the
\* sense of ACTIVE_APPLICATION_STATUS_FOR_ISSUANCE.
OneActiveAmendment ==
    \A o \in Permits :
        Cardinality({p \in ActiveApplications(o) :
                        permit[p].number = NoNumber}) <= 1

\* The revisions of a permit follow each other: when requests do not overlap,
\* two in a row are never in force together, and one is prepared at a time.
RevisionsInOrder == PredecessorSuperseded /\ OneActiveAmendment

\* What the tables promise whatever becomes of carts and gateways: every step of
\* the handlers, run one at a time, opens an application, settles a payment,
\* brings a paid application into force in place of what it revises, voids a
\* permit in force, or changes nothing of that.
Stage(row) ==
    IF row.status = "NONE" THEN "none"
    ELSE IF row.number = NoNumber THEN "open"
    ELSE CASE row.status = "ISSUED" -> "inForce"
           [] row.status = "SUPERSEDED" -> "replaced"
           [] OTHER -> "voided"

Register == INSTANCE PermitRegister WITH
    NoPermit <- NoId,
    Numbers <- 0..MaxRevision,
    stage <- [p \in Permits |-> Stage(permit[p])],
    prev <- [p \in Permits |-> permit[p].prev],
    number <- [p \in Permits |-> permit[p].number],
    paid <- {p \in Permits : Receipted(p)}

KeepsRegister == Register!Spec

\* An application that is paid for is issued in the end (one whose creation
\* died between its two statements never is: its originalPermitId is null).
PaidIsIssued ==
    \A p \in Permits :
        (/\ permit[p].status = "PAYMENT_COMPLETE"
         /\ permit[p].number = NoNumber
         /\ permit[p].orig # NoId)
        ~> (permit[p].status \in {"ISSUED", "SUPERSEDED"})

-----------------------------------------------------------------------------
(* What the repository says of the program and the program does not do     *)

\* v_4_ddl.sql, column PERMIT_NUMBER: "Unique formatted permit number".
UniquePermitNumber ==
    \A p, q \in Permits :
        /\ permit[p].number # NoNumber
        /\ permit[p].orig = permit[q].orig
        /\ permit[p].number = permit[q].number
        => p = q

=============================================================================
