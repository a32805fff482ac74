------------------------- MODULE PermitPaymentProofs -------------------------
(***************************************************************************)
(* Proofs about PermitPayment, for every number of request slots, every    *)
(* way to pay and every bound.  First, the type invariant and the two      *)
(* payment invariants that no overlap of requests can break.  Then, for    *)
(* requests that run one after the other: an application is paid for once  *)
(* and issued as it was priced, revisions replace each other in order, and *)
(* the tables keep the register of permits.                                *)
(*                                                                         *)
(* The cart and PayBC go on acting while a request is in flight; the proof *)
(* of the second part says what of the rows that a request has read they   *)
(* leave as it was.                                                        *)
(***************************************************************************)
EXTENDS PermitPayment, FiniteSetTheorems, TLAPS

USE BoundsAssumption, DataAssumption, PayMethodsAssumption

(***************************************************************************)
(* Types of the constants of the tables.                                   *)
(***************************************************************************)

\* The data of an empty row is a value of Data.
LEMMA SomeDataType == SomeData \in Data
  BY DEF SomeData

\* Empty rows, empty transactions and idle slots are of their types.
LEMMA ConstantTypes ==
    NoRow \in Row /\ NoTxn \in Txn /\ Idle \in Requests
<1>1. NoRow \in Row
  BY SomeDataType DEF NoRow, Row, Statuses, NoId, NoNumber
<1>2. NoTxn \in Txn
  BY SomeDataType DEF NoTxn, Txn, Methods
<1>3. Idle \in Requests
  BY <1>1, SomeDataType DEF Idle, Requests, Ops, Methods, NoId
<1> QED
  BY <1>1, <1>2, <1>3

\* What a handler reads is a function from permits to rows.
LEMMA SnapshotType ==
    ASSUME TypeOK, NEW S
    PROVE  Snapshot(S) \in [Permits -> Row]
  BY ConstantTypes DEF TypeOK, Snapshot

\* A request that reads rows leaves a well-typed request in its slot.
LEMMA BeginType ==
    ASSUME TypeOK, NEW s \in Slots, NEW op \in Ops, NEW S \in SUBSET Permits,
           Begin(s, op, S)
    PROVE  req' \in [Slots -> Requests]
<1>1. [Idle EXCEPT !.op = op, !.permits = S, !.snap = Snapshot(S)] \in Requests
  BY ConstantTypes, SnapshotType DEF Requests, Idle
<1> QED
  BY <1>1 DEF Begin, TypeOK

\* A request that ends leaves an idle slot.
LEMMA EndType ==
    ASSUME TypeOK, NEW s \in Slots, End(s)
    PROVE  req' \in [Slots -> Requests]
  BY ConstantTypes DEF End, TypeOK

\* A new transaction is well typed.
LEMMA NewTxnType ==
    ASSUME TypeOK, NEW t \in Txns, NEW S \in SUBSET Permits,
           NEW rows \in [Permits -> Row], NEW m \in Methods,
           NEW pg \in {"null", "yes"}, NewTxn(t, S, rows, m, pg)
    PROVE  txn' \in [Txns -> Txn]
<1> DEFINE priced == [p \in Permits |-> IF p \in S THEN rows[p].data ELSE SomeData]
           row == [NoTxn EXCEPT !.method = m, !.permits = S, !.pgApproved = pg,
                                !.priced = priced,
                                !.receipts = IF m = "WEB" THEN 0 ELSE 1]
<1>1. priced \in [Permits -> Data]
  BY SomeDataType DEF Row
<1>2. row \in Txn
  BY <1>1 DEF NoTxn, Txn
<1> QED
  BY <1>2 DEF NewTxn, TypeOK

\* The row of a voided revision, and a transaction that gets its receipt.
LEMMA VoidedRowType ==
    ASSUME NEW row \in Row, NEW p \in Permits, NEW n \in Nat
    PROVE  [row EXCEPT !.status = "VOIDED", !.prev = p, !.rev = row.rev + 1,
                       !.number = n] \in Row
<1>1. row.rev + 1 \in Nat
  BY DEF Row
<1>2. \A r \in Nat : [row EXCEPT !.status = "VOIDED", !.prev = p, !.rev = r,
                                  !.number = n] \in Row
  BY DEF Row, Statuses
<1> QED
  BY <1>1, <1>2

LEMMA SettledTxnType ==
    ASSUME NEW row \in Txn
    PROVE  [row EXCEPT !.pgApproved = "yes", !.receipts = @ + 1] \in Txn
<1>1. row.receipts + 1 \in Nat
  BY DEF Txn
<1>2. \A n \in Nat : [row EXCEPT !.pgApproved = "yes", !.receipts = n] \in Txn
  BY DEF Txn
<1> QED
  BY <1>1, <1>2

(***************************************************************************)
(* The type invariant, one lemma per handler.                              *)
(***************************************************************************)

\* BeginCreate inserts a well-typed row.
LEMMA CreateType ==
    ASSUME TypeOK, NEW s \in Slots, BeginCreate(s) \/ AssignOriginal(s)
    PROVE  TypeOK'
<1>1. CASE BeginCreate(s)
  <2>1. PICK p \in Permits, d \in Data :
          /\ permit' = [permit EXCEPT ![p] =
                          [NoRow EXCEPT !.status = "IN_PROGRESS", !.data = d]]
          /\ Begin(s, "create", {p})
    BY <1>1 DEF BeginCreate
  <2>2. [NoRow EXCEPT !.status = "IN_PROGRESS", !.data = d] \in Row
    BY ConstantTypes DEF Row, NoRow, Statuses
  <2>3. req' \in [Slots -> Requests]
    BY <2>1, BeginType DEF Ops
  <2> QED
    BY <1>1, <2>1, <2>2, <2>3 DEF BeginCreate, TypeOK
<1>2. CASE AssignOriginal(s)
  <2>1. permit' \in [Permits -> Row]
    BY <1>2 DEF AssignOriginal, TypeOK, Row
  <2> QED
    BY <1>2, <2>1, EndType DEF AssignOriginal, TypeOK
<1> QED
  BY <1>1, <1>2

\* An amendment row is built from a well-typed snapshot.
LEMMA AmendType ==
    ASSUME TypeOK, NEW s \in Slots, BeginAmend(s) \/ InsertAmendment(s)
    PROVE  TypeOK'
<1>1. CASE BeginAmend(s)
  <2>1. req' \in [Slots -> Requests]
    BY <1>1, BeginType DEF BeginAmend, Ops
  <2> QED
    BY <1>1, <2>1 DEF BeginAmend, TypeOK
<1>2. CASE InsertAmendment(s)
  <2>1. PICK p \in req[s].permits, q \in Permits, d \in Data :
          permit' = [permit EXCEPT ![q] =
                       [status |-> "IN_PROGRESS", orig |-> req[s].snap[p].orig,
                        prev |-> p, rev |-> req[s].snap[p].rev + 1,
                        number |-> NoNumber, data |-> d]]
    BY <1>2 DEF InsertAmendment
  <2>2. p \in Permits /\ req[s].snap[p] \in Row
    BY <2>1 DEF TypeOK, Requests
  <2>3. [status |-> "IN_PROGRESS", orig |-> req[s].snap[p].orig,
         prev |-> p, rev |-> req[s].snap[p].rev + 1,
         number |-> NoNumber, data |-> d] \in Row
    BY <2>1, <2>2 DEF Row, Statuses
  <2> QED
    BY <1>2, <2>1, <2>3, EndType DEF InsertAmendment, TypeOK
<1> QED
  BY <1>1, <1>2

\* An update stores a value of Data.
LEMMA UpdateType ==
    ASSUME TypeOK, NEW s \in Slots, BeginUpdate(s) \/ CommitUpdate(s)
    PROVE  TypeOK'
<1>1. CASE BeginUpdate(s)
  <2>1. PICK p \in Permits, d \in Data :
          req' = [req EXCEPT ![s] = [Idle EXCEPT !.op = "update",
                                                 !.permits = {p}, !.data = d]]
    BY <1>1 DEF BeginUpdate
  <2>2. [Idle EXCEPT !.op = "update", !.permits = {p}, !.data = d] \in Requests
    BY ConstantTypes DEF Requests, Idle, Ops
  <2> QED
    BY <1>1, <2>1, <2>2 DEF BeginUpdate, TypeOK
<1>2. CASE CommitUpdate(s)
  <2>1. req[s].data \in Data
    BY DEF TypeOK, Requests
  <2>2. \A p \in Permits : [permit[p] EXCEPT !.data = req[s].data] \in Row
    BY <2>1 DEF TypeOK, Row
  <2>3. permit' \in [Permits -> Row]
    BY <1>2, <2>2 DEF CommitUpdate, TypeOK
  <2> QED
    BY <1>2, <2>3, EndType DEF CommitUpdate, TypeOK
<1> QED
  BY <1>1, <1>2

\* A delete puts a well-typed snapshot back.
LEMMA DeleteType ==
    ASSUME TypeOK, NEW s \in Slots, BeginDelete(s) \/ CommitDelete(s)
    PROVE  TypeOK'
<1>1. CASE BeginDelete(s)
  <2>1. req' \in [Slots -> Requests]
    BY <1>1, BeginType DEF BeginDelete, Ops
  <2> QED
    BY <1>1, <2>1 DEF BeginDelete, TypeOK
<1>2. CASE CommitDelete(s)
  <2>1. \A p \in Permits : req[s].snap[p] \in Row
    BY DEF TypeOK, Requests
  <2>2. \A p \in Permits : permit[p].data \in Data
    BY DEF TypeOK, Row
  <2>3. \A p \in Permits :
          [req[s].snap[p] EXCEPT !.status = "CANCELLED",
                                 !.data = permit[p].data] \in Row
    BY <2>1, <2>2 DEF Row, Statuses
  <2>4. permit' \in [Permits -> Row]
    BY <1>2, <2>3 DEF CommitDelete, TypeOK
  <2> QED
    BY <1>2, <2>4, EndType DEF CommitDelete, TypeOK
<1> QED
  BY <1>1, <1>2

\* The cart changes the status of rows and nothing else.
LEMMA CartType ==
    ASSUME TypeOK, AddToCart \/ RemoveFromCart
    PROVE  TypeOK'
<1>1. ASSUME NEW S, NEW from, NEW to \in Statuses, SetStatus(S, from, to)
      PROVE  permit' \in [Permits -> Row]
  BY <1>1 DEF SetStatus, TypeOK, Row
<1>2. permit' \in [Permits -> Row]
  BY <1>1 DEF AddToCart, RemoveFromCart, Statuses
<1> QED
  BY <1>2 DEF AddToCart, RemoveFromCart, TypeOK

\* A checkout puts well-typed snapshots back and inserts a transaction.
LEMMA CheckoutType ==
    ASSUME TypeOK, NEW s \in Slots, BeginCheckout(s) \/ CommitCheckout(s)
    PROVE  TypeOK'
<1>1. CASE BeginCheckout(s)
  <2>1. PICK S \in (SUBSET Permits) \ {{}}, m \in PayMethods :
          req' = [req EXCEPT ![s] =
                    [Idle EXCEPT !.op = "checkout", !.permits = S,
                                 !.snap = Snapshot(S), !.method = m]]
    BY <1>1 DEF BeginCheckout
  <2>2. [Idle EXCEPT !.op = "checkout", !.permits = S,
                     !.snap = Snapshot(S), !.method = m] \in Requests
    BY ConstantTypes, SnapshotType DEF Requests, Idle, Ops, Methods
  <2> QED
    BY <1>1, <2>1, <2>2 DEF BeginCheckout, TypeOK
<1>2. CASE CommitCheckout(s)
  <2>1. req[s] \in Requests
    BY DEF TypeOK
  <2>2. \A p \in Permits : PurchasedRow(req[s].snap[p], req[s].method) \in Row
    BY <2>1 DEF PurchasedRow, Requests, Row, Statuses
  <2>3. permit' \in [Permits -> Row]
    BY <1>2, <2>2 DEF CommitCheckout, TypeOK
  <2>4. txn' \in [Txns -> Txn]
    BY <1>2, <2>1, NewTxnType DEF CommitCheckout, Requests
  <2> QED
    BY <1>2, <2>3, <2>4, EndType DEF CommitCheckout, TypeOK
<1> QED
  BY <1>1, <1>2

\* A refund inserts a transaction.
LEMMA RefundType ==
    ASSUME TypeOK, NEW s \in Slots, BeginRefund(s) \/ CommitRefund(s)
    PROVE  TypeOK'
<1>1. CASE BeginRefund(s)
  <2>1. req' \in [Slots -> Requests]
    BY <1>1, BeginType DEF BeginRefund, Ops
  <2> QED
    BY <1>1, <2>1 DEF BeginRefund, TypeOK
<1>2. CASE CommitRefund(s)
  <2>1. req[s] \in Requests
    BY DEF TypeOK
  <2>2. txn' \in [Txns -> Txn]
    BY <1>2, <2>1, NewTxnType DEF CommitRefund, Requests, Methods
  <2> QED
    BY <1>2, <2>2, EndType DEF CommitRefund, TypeOK
<1> QED
  BY <1>1, <1>2

\* A callback in flight is the callback of a transaction that PayBC answered:
\* TypeOK alone does not say that the id in its slot is not null.
CallbackAnswered ==
    \A s \in Slots :
        req[s].op = "callback" => /\ req[s].txn \in Txns
                                  /\ payBC[req[s].txn] # "unanswered"

\* The gateway and its callback.
LEMMA CallbackType ==
    ASSUME TypeOK, CallbackAnswered, NEW s \in Slots,
           \/ AnswerAtPayBC
           \/ BeginCallback(s) \/ CommitApproved(s) \/ CommitDeclined(s)
    PROVE  TypeOK'
<1>1. CASE AnswerAtPayBC
  BY <1>1 DEF AnswerAtPayBC, TypeOK
<1>2. CASE BeginCallback(s)
  <2>1. PICK t \in Txns :
          req' = [req EXCEPT ![s] = [Idle EXCEPT !.op = "callback", !.txn = t]]
    BY <1>2 DEF BeginCallback
  <2>2. [Idle EXCEPT !.op = "callback", !.txn = t] \in Requests
    BY ConstantTypes DEF Requests, Idle, Ops
  <2> QED
    BY <1>2, <2>1, <2>2 DEF BeginCallback, TypeOK
<1>3. CASE CommitApproved(s)
  <2>1. req[s].txn \in Txns
    BY <1>3 DEF CommitApproved, CallbackAnswered
  <2>2. [txn[req[s].txn] EXCEPT !.pgApproved = "yes", !.receipts = @ + 1] \in Txn
    BY <2>1, SettledTxnType DEF TypeOK
  <2>3. txn' \in [Txns -> Txn]
    <3>1. txn' = [txn EXCEPT ![req[s].txn] =
                    [txn[req[s].txn] EXCEPT !.pgApproved = "yes",
                                            !.receipts = @ + 1]]
      BY <1>3, <2>1 DEF CommitApproved, TypeOK, Txn
    <3> QED
      BY <2>2, <3>1 DEF TypeOK
  <2>4. \A p \in Permits : [permit[p] EXCEPT !.status = "PAYMENT_COMPLETE"] \in Row
    BY DEF TypeOK, Row, Statuses
  <2>5. permit' \in [Permits -> Row]
    BY <1>3, <2>4 DEF CommitApproved, TypeOK
  <2> QED
    BY <1>3, <2>3, <2>5, EndType DEF CommitApproved, TypeOK
<1>4. CASE CommitDeclined(s)
  <2>1. req[s].txn \in Txns
    BY <1>4 DEF CommitDeclined, CallbackAnswered
  <2>2. [txn[req[s].txn] EXCEPT !.pgApproved = "no"] \in Txn
    <3>1. txn[req[s].txn] \in Txn
      BY <2>1 DEF TypeOK
    <3> QED
      BY <3>1 DEF Txn
  <2>3. txn' \in [Txns -> Txn]
    BY <1>4, <2>1, <2>2 DEF CommitDeclined, TypeOK
  <2> QED
    BY <1>4, <2>3, EndType DEF CommitDeclined, TypeOK
<1> QED
  BY <1>1, <1>2, <1>3, <1>4

\* The issuance gives a number and a status to rows.
LEMMA IssueType ==
    ASSUME TypeOK, NEW s \in Slots, BeginIssue(s) \/ CommitIssue(s)
    PROVE  TypeOK'
<1>1. CASE BeginIssue(s)
  <2>1. PICK p \in Permits :
          /\ permit[p].orig = p \/ permit[p].prev # NoId
          /\ req' = [req EXCEPT ![s] =
                       [Idle EXCEPT !.op = "issue", !.permits = {p},
                          !.snap = Snapshot({p}),
                          !.number = NextNumber(NumberSource(p, permit[p]))]]
    BY <1>1 DEF BeginIssue
  <2>2. NumberSource(p, permit[p]) \in Row
    BY <2>1 DEF NumberSource, TypeOK, Row
  <2>3. NextNumber(NumberSource(p, permit[p])) \in Nat
    BY <2>2 DEF NextNumber, Row
  <2>4. [Idle EXCEPT !.op = "issue", !.permits = {p}, !.snap = Snapshot({p}),
                     !.number = NextNumber(NumberSource(p, permit[p]))] \in Requests
    BY <2>3, ConstantTypes, SnapshotType DEF Requests, Idle, Ops
  <2> QED
    BY <1>1, <2>1, <2>4 DEF BeginIssue, TypeOK
<1>2. CASE CommitIssue(s)
  <2>1. req[s].number \in Nat
    BY DEF TypeOK, Requests
  <2>2. \A p \in Permits :
          /\ [permit[p] EXCEPT !.status = "ISSUED", !.number = req[s].number] \in Row
          /\ [permit[p] EXCEPT !.status = "SUPERSEDED"] \in Row
    BY <2>1 DEF TypeOK, Row, Statuses
  <2>3. permit' \in [Permits -> Row]
    BY <1>2, <2>2 DEF CommitIssue, TypeOK
  <2> QED
    BY <1>2, <2>3, EndType DEF CommitIssue, TypeOK
<1> QED
  BY <1>1, <1>2

\* A void inserts a revision and a transaction.
LEMMA VoidType ==
    ASSUME TypeOK, NEW s \in Slots, BeginVoid(s) \/ CommitVoid(s)
    PROVE  TypeOK'
<1>1. CASE BeginVoid(s)
  <2>1. PICK p \in Permits, m \in PayMethods \cup {"REFUND"} :
          req' = [req EXCEPT ![s] =
                    [Idle EXCEPT !.op = "void", !.permits = {p},
                                 !.snap = Snapshot({p}), !.method = m]]
    BY <1>1 DEF BeginVoid
  <2>2. [Idle EXCEPT !.op = "void", !.permits = {p}, !.snap = Snapshot({p}),
                     !.method = m] \in Requests
    BY ConstantTypes, SnapshotType DEF Requests, Idle, Ops, Methods
  <2> QED
    BY <1>1, <2>1, <2>2 DEF BeginVoid, TypeOK
<1>2. CASE CommitVoid(s)
  <2> DEFINE new(p) == [req[s].snap[p] EXCEPT
                          !.status = "VOIDED", !.prev = p,
                          !.rev = req[s].snap[p].rev + 1,
                          !.number = NextNumber(req[s].snap[p])]
  <2>1. PICK p \in req[s].permits, q \in Permits, t \in Txns :
          /\ permit' = [permit EXCEPT
                          ![p].status = "SUPERSEDED",
                          ![q] = IF req[s].method = "WEB"
                                 THEN PurchasedRow(new(p), "WEB") ELSE new(p)]
          /\ NewTxn(t, {q}, [r \in Permits |-> new(p)], req[s].method,
                    IF req[s].method = "WEB" THEN "yes" ELSE "null")
    BY <1>2 DEF CommitVoid
  <2>2. /\ p \in Permits
        /\ req[s].snap[p] \in Row
        /\ req[s].method \in Methods
    BY <2>1 DEF TypeOK, Requests
  <2>3. NextNumber(req[s].snap[p]) \in Nat
    BY <2>2 DEF NextNumber, Row
  <2>4. new(p) \in Row
    BY <2>2, <2>3, VoidedRowType
  <2>5. PurchasedRow(new(p), "WEB") \in Row
    <3> HIDE DEF new
    <3> QED BY <2>4 DEF PurchasedRow, Row, Statuses
  <2>6. [permit[p] EXCEPT !.status = "SUPERSEDED"] \in Row
    BY <2>2 DEF TypeOK, Row, Statuses
  <2>7. permit' \in [Permits -> Row]
    <3> HIDE DEF new
    <3> QED BY <2>1, <2>2, <2>4, <2>5, <2>6 DEF TypeOK
  <2>8. txn' \in [Txns -> Txn]
    <3> HIDE DEF new
    <3> QED BY <2>1, <2>2, <2>4, NewTxnType
  <2> QED
    BY <1>2, <2>7, <2>8, EndType DEF CommitVoid, TypeOK
<1> QED
  BY <1>1, <1>2

\* A request that fails leaves the tables alone.
LEMMA FailType ==
    ASSUME TypeOK, NEW s \in Slots, Fail(s)
    PROVE  TypeOK'
  BY EndType DEF Fail, TypeOK

(***************************************************************************)
(* Which handler may leave which request in its slot.                      *)
(***************************************************************************)

\* A step of a slot changes that slot alone; only BeginCallback leaves a
\* callback in it, and only BeginIssue an issuance.
LEMMA SlotStep ==
    ASSUME TypeOK, NEW s \in Slots, Handle(s)
    PROVE  \E r : /\ req' = [req EXCEPT ![s] = r]
                  /\ r.op = "callback" => BeginCallback(s)
                  /\ r.op = "issue" => BeginIssue(s)
<1>1. ASSUME NEW op \in Ops \ {"callback", "issue"}, NEW S, Begin(s, op, S)
      PROVE  \E r : /\ req' = [req EXCEPT ![s] = r]
                    /\ r.op = "callback" => BeginCallback(s)
                    /\ r.op = "issue" => BeginIssue(s)
  <2>1. [Idle EXCEPT !.op = op, !.permits = S, !.snap = Snapshot(S)].op = op
    BY DEF Idle
  <2> QED
    BY <1>1, <2>1 DEF Begin
<1>2. ASSUME End(s)
      PROVE  \E r : /\ req' = [req EXCEPT ![s] = r]
                    /\ r.op = "callback" => BeginCallback(s)
                    /\ r.op = "issue" => BeginIssue(s)
  <2>1. Idle.op = "idle"
    BY DEF Idle
  <2> QED
    BY <1>2, <2>1 DEF End
<1>3. CASE BeginCreate(s)
  <2>1. PICK p \in Permits : Begin(s, "create", {p})
    BY <1>3 DEF BeginCreate
  <2> QED
    BY <1>1, <2>1 DEF Ops
<1>4. CASE BeginAmend(s) \/ BeginDelete(s) \/ BeginRefund(s)
  <2>1. PICK p \in Permits, op \in {"amend", "delete", "refund"} : Begin(s, op, {p})
    BY <1>4 DEF BeginAmend, BeginDelete, BeginRefund
  <2> QED
    BY <1>1, <2>1 DEF Ops
<1>5. CASE BeginUpdate(s)
  <2>1. PICK p \in Permits, d \in Data :
          req' = [req EXCEPT ![s] = [Idle EXCEPT !.op = "update",
                                                 !.permits = {p}, !.data = d]]
    BY <1>5 DEF BeginUpdate
  <2>2. [Idle EXCEPT !.op = "update", !.permits = {p}, !.data = d].op = "update"
    BY DEF Idle
  <2> QED
    BY <2>1, <2>2
<1>6. CASE BeginCheckout(s)
  <2>1. PICK S \in SUBSET Permits, m \in PayMethods :
          req' = [req EXCEPT ![s] =
                    [Idle EXCEPT !.op = "checkout", !.permits = S,
                                 !.snap = Snapshot(S), !.method = m]]
    BY <1>6 DEF BeginCheckout
  <2>2. [Idle EXCEPT !.op = "checkout", !.permits = S,
                     !.snap = Snapshot(S), !.method = m].op = "checkout"
    BY DEF Idle
  <2> QED
    BY <2>1, <2>2
<1>7. CASE BeginVoid(s)
  <2>1. PICK p \in Permits, m \in PayMethods \cup {"REFUND"} :
          req' = [req EXCEPT ![s] =
                    [Idle EXCEPT !.op = "void", !.permits = {p},
                                 !.snap = Snapshot({p}), !.method = m]]
    BY <1>7 DEF BeginVoid
  <2>2. [Idle EXCEPT !.op = "void", !.permits = {p},
                     !.snap = Snapshot({p}), !.method = m].op = "void"
    BY DEF Idle
  <2> QED
    BY <2>1, <2>2
<1>8. CASE BeginCallback(s) \/ BeginIssue(s)
  <2>1. CASE BeginCallback(s)
    <3>1. PICK t \in Txns :
            req' = [req EXCEPT ![s] = [Idle EXCEPT !.op = "callback", !.txn = t]]
      BY <2>1 DEF BeginCallback
    <3>2. [Idle EXCEPT !.op = "callback", !.txn = t].op = "callback"
      BY DEF Idle
    <3> QED
      BY <2>1, <3>1, <3>2
  <2>2. CASE BeginIssue(s)
    <3>1. PICK p \in Permits :
            req' = [req EXCEPT ![s] =
                      [Idle EXCEPT !.op = "issue", !.permits = {p},
                         !.snap = Snapshot({p}),
                         !.number = NextNumber(NumberSource(p, permit[p]))]]
      BY <2>2 DEF BeginIssue
    <3>2. [Idle EXCEPT !.op = "issue", !.permits = {p}, !.snap = Snapshot({p}),
             !.number = NextNumber(NumberSource(p, permit[p]))].op = "issue"
      BY DEF Idle
    <3> QED
      BY <2>2, <3>1, <3>2
  <2> QED
    BY <1>8, <2>1, <2>2
<1>9. CASE \/ AssignOriginal(s) \/ InsertAmendment(s) \/ CommitUpdate(s)
           \/ CommitDelete(s) \/ CommitCheckout(s) \/ CommitRefund(s)
  BY <1>2, <1>9 DEF AssignOriginal, InsertAmendment, CommitUpdate,
                    CommitDelete, CommitCheckout, CommitRefund
<1>10. CASE \/ CommitApproved(s) \/ CommitDeclined(s) \/ CommitIssue(s)
            \/ CommitVoid(s) \/ Fail(s)
  BY <1>2, <1>10 DEF CommitApproved, CommitDeclined, CommitIssue, CommitVoid, Fail
<1> QED
  BY <1>3, <1>4, <1>5, <1>6, <1>7, <1>8, <1>9, <1>10 DEF Handle

\* Only PayBC changes what it did with the money, and it answers once.
LEMMA AnswerStep ==
    ASSUME [Next]_vars
    PROVE  \/ UNCHANGED payBC
           \/ AnswerAtPayBC
  BY DEF Next, vars, Handle, AddToCart, RemoveFromCart, BeginCreate,
         AssignOriginal, BeginAmend, InsertAmendment, BeginUpdate, CommitUpdate,
         BeginDelete, CommitDelete, BeginCheckout, CommitCheckout, BeginRefund,
         CommitRefund, BeginCallback, CommitApproved, CommitDeclined, BeginIssue,
         CommitIssue, BeginVoid, CommitVoid, Fail

(***************************************************************************)
(* Type correctness.                                                       *)
(***************************************************************************)

LEMMA TypeStep ==
    ASSUME TypeOK, CallbackAnswered, [Next]_vars
    PROVE  TypeOK'
<1>1. CASE UNCHANGED vars
  BY <1>1 DEF vars, TypeOK
<1>2. CASE AddToCart \/ RemoveFromCart
  BY <1>2, CartType
<1>3. ASSUME NEW s \in Slots, Handle(s)
      PROVE  TypeOK'
  BY <1>3, CreateType, AmendType, UpdateType, DeleteType, CheckoutType,
     RefundType, CallbackType, IssueType, VoidType, FailType DEF Handle
<1>4. CASE AnswerAtPayBC
  BY <1>4 DEF AnswerAtPayBC, TypeOK
<1> QED
  BY <1>1, <1>2, <1>3, <1>4 DEF Next

LEMMA CallbackStep ==
    ASSUME TypeOK, CallbackAnswered, [Next]_vars
    PROVE  CallbackAnswered'
<1>1. \A t \in Txns : payBC[t] # "unanswered" => payBC'[t] # "unanswered"
  BY AnswerStep DEF AnswerAtPayBC, TypeOK
<1>2. CASE UNCHANGED req
  BY <1>1, <1>2 DEF CallbackAnswered
<1>3. ASSUME NEW s \in Slots, Handle(s)
      PROVE  CallbackAnswered'
  <2>1. PICK r : /\ req' = [req EXCEPT ![s] = r]
                 /\ r.op = "callback" => BeginCallback(s)
    BY <1>3, SlotStep
  <2>2. CASE r.op # "callback"
    BY <1>1, <2>1, <2>2 DEF CallbackAnswered, TypeOK
  <2>3. CASE BeginCallback(s)
    <3>1. PICK t \in Txns :
            /\ payBC[t] # "unanswered"
            /\ req' = [req EXCEPT ![s] = [Idle EXCEPT !.op = "callback", !.txn = t]]
      BY <2>3 DEF BeginCallback
    <3>2. [Idle EXCEPT !.op = "callback", !.txn = t].txn = t
      BY DEF Idle
    <3> QED
      BY <1>1, <3>1, <3>2 DEF CallbackAnswered, TypeOK
  <2> QED
    BY <2>1, <2>2, <2>3
<1> QED
  BY <1>2, <1>3 DEF Next, vars, AddToCart, RemoveFromCart, AnswerAtPayBC

LEMMA TypeInit ==
    ASSUME Init
    PROVE  TypeOK /\ CallbackAnswered
<1>1. TypeOK
  BY ConstantTypes DEF Init, TypeOK
<1>2. CallbackAnswered
  BY DEF Init, CallbackAnswered, Idle
<1> QED
  BY <1>1, <1>2

\* The tables and the request slots keep their types, for every number of
\* requests in flight.
THEOREM TypeCorrect == Spec => []TypeOK
<1> DEFINE TypeInv == TypeOK /\ CallbackAnswered
<1>1. Init => TypeInv
  BY TypeInit
<1>2. TypeInv /\ [Next]_vars => TypeInv'
  BY TypeStep, CallbackStep
<1>3. TypeInv => TypeOK
  OBVIOUS
<1> QED
  BY <1>1, <1>2, <1>3, PTL DEF Spec

(***************************************************************************)
(* Payments.  PaidBeforeIssued is not inductive: an issuance in flight     *)
(* writes ISSUED on the strength of the receipt it had read, so the        *)
(* invariant also says that this receipt is still there; and a receipt     *)
(* stays because a transaction is only ever inserted into an unused row.   *)
(***************************************************************************)

AnsweredIsWeb == \A t \in Txns : payBC[t] # "unanswered" => txn[t].method = "WEB"

UnusedHaveNoReceipt == \A t \in Txns : txn[t].method = "NONE" => txn[t].receipts = 0

IssuancesAreReceipted ==
    \A s \in Slots : req[s].op = "issue" => \A p \in req[s].permits : Receipted(p)

PaymentInv ==
    /\ TypeOK
    /\ CallbackAnswered
    /\ AnsweredIsWeb
    /\ UnusedHaveNoReceipt
    /\ IssuancesAreReceipted
    /\ PaidBeforeIssued
    /\ ReceiptMeansMoney

\* The inserts of the transaction table.
InsertsTxn(s) == CommitCheckout(s) \/ CommitRefund(s) \/ CommitVoid(s)

\* Every step leaves the transactions alone, inserts one or settles one.
LEMMA TxnStep ==
    ASSUME [Next]_vars
    PROVE  \/ UNCHANGED txn
           \/ \E s \in Slots :
                InsertsTxn(s) \/ CommitApproved(s) \/ CommitDeclined(s)
  BY DEF Next, vars, Handle, AddToCart, RemoveFromCart, AnswerAtPayBC,
         BeginCreate, AssignOriginal, BeginAmend, InsertAmendment, BeginUpdate,
         CommitUpdate, BeginDelete, CommitDelete, BeginCheckout, BeginRefund,
         BeginCallback, BeginIssue, CommitIssue, BeginVoid, Fail, InsertsTxn

\* An insert writes one unused row, and a web transaction has no receipt yet.
LEMMA InsertStep ==
    ASSUME TypeOK, NEW s \in Slots, InsertsTxn(s)
    PROVE  \E t \in Txns, m \in Methods :
             /\ txn[t].method = "NONE"
             /\ \A u \in Txns \ {t} : txn'[u] = txn[u]
             /\ txn'[t].method = m
             /\ txn'[t].receipts = IF m = "WEB" THEN 0 ELSE 1
             /\ CommitCheckout(s) => /\ m = req[s].method
                                     /\ txn'[t].permits = req[s].permits
<1>1. ASSUME NEW t \in Txns, NEW S, NEW rows, NEW m, NEW pg, NewTxn(t, S, rows, m, pg)
      PROVE  /\ \A u \in Txns \ {t} : txn'[u] = txn[u]
             /\ txn'[t].method = m
             /\ txn'[t].permits = S
             /\ txn'[t].receipts = IF m = "WEB" THEN 0 ELSE 1
  BY <1>1 DEF NewTxn, NoTxn, TypeOK
<1>2. req[s].method \in Methods /\ "REFUND" \in Methods
  BY DEF TypeOK, Requests, Methods
<1>3. CASE CommitCheckout(s)
  <2>1. PICK t \in Txns :
          /\ IsNextTxn(t)
          /\ NewTxn(t, req[s].permits, req[s].snap, req[s].method, "null")
    BY <1>3 DEF CommitCheckout
  <2> QED
    BY <1>1, <1>2, <2>1 DEF IsNextTxn
<1>4. CASE CommitRefund(s)
  <2>1. PICK t \in Txns :
          /\ IsNextTxn(t)
          /\ NewTxn(t, req[s].permits, req[s].snap, "REFUND", "null")
    BY <1>4 DEF CommitRefund
  <2>2. ~CommitCheckout(s)
    BY <1>4 DEF CommitRefund, CommitCheckout
  <2> QED
    BY <1>1, <1>2, <2>1, <2>2 DEF IsNextTxn
<1>5. CASE CommitVoid(s)
  <2>1. PICK p \in req[s].permits, q \in Permits, t \in Txns :
          \E new, pg : /\ IsNextTxn(t)
                       /\ NewTxn(t, {q}, [r \in Permits |-> new], req[s].method, pg)
    BY <1>5 DEF CommitVoid
  <2>2. ~CommitCheckout(s)
    BY <1>5 DEF CommitVoid, CommitCheckout
  <2> QED
    BY <1>1, <1>2, <2>1, <2>2 DEF IsNextTxn
<1> QED
  BY <1>3, <1>4, <1>5 DEF InsertsTxn

\* A settlement gives the receipt to the transaction of the callback only, and
\* only if PayBC captured the money.
LEMMA SettleStep ==
    ASSUME TypeOK, CallbackAnswered, NEW s \in Slots,
           CommitApproved(s) \/ CommitDeclined(s)
    PROVE  /\ req[s].txn \in Txns
           /\ \A u \in Txns \ {req[s].txn} : txn'[u] = txn[u]
           /\ \A u \in Txns : /\ txn'[u].method = txn[u].method
                              /\ txn'[u].permits = txn[u].permits
           /\ \/ /\ CommitApproved(s)
                 /\ payBC[req[s].txn] = "captured"
                 /\ txn'[req[s].txn].receipts = txn[req[s].txn].receipts + 1
              \/ /\ CommitDeclined(s)
                 /\ txn'[req[s].txn].receipts = txn[req[s].txn].receipts
<1>1. req[s].txn \in Txns
  BY DEF CallbackAnswered, CommitApproved, CommitDeclined
<1>2. CASE CommitApproved(s)
  BY <1>1, <1>2 DEF CommitApproved, TypeOK, Txn
<1>3. CASE CommitDeclined(s)
  BY <1>1, <1>3 DEF CommitDeclined, TypeOK, Txn
<1> QED
  BY <1>1, <1>2, <1>3

\* A receipt is never lost: what is paid for stays paid for.
LEMMA ReceiptedStays ==
    ASSUME TypeOK, CallbackAnswered, UnusedHaveNoReceipt, [Next]_vars,
           NEW p \in Permits, Receipted(p)
    PROVE  Receipted(p)'
<1>1. PICK t \in Txns : txn[t].receipts > 0 /\ p \in txn[t].permits
  BY DEF Receipted
<1>2. txn[t].method # "NONE" /\ txn[t].receipts \in Nat
  BY <1>1 DEF UnusedHaveNoReceipt, TypeOK, Txn
<1>3. txn'[t].receipts > 0 /\ p \in txn'[t].permits
  <2>1. CASE UNCHANGED txn
    BY <1>1, <2>1
  <2>2. ASSUME NEW s \in Slots, InsertsTxn(s)
        PROVE  txn'[t] = txn[t]
    BY <1>2, <2>2, InsertStep
  <2>3. ASSUME NEW s \in Slots, CommitApproved(s) \/ CommitDeclined(s)
        PROVE  txn'[t].receipts > 0 /\ p \in txn'[t].permits
    BY <1>1, <1>2, <2>3, SettleStep
  <2> QED
    BY <1>1, <2>1, <2>2, <2>3, TxnStep
<1> QED
  BY <1>3 DEF Receipted

\* The only steps that put a permit among those paid for or in force: a direct
\* purchase, an approved callback and an issuance.
PaidStatus == {"PAYMENT_COMPLETE", "ISSUED"}

LEMMA StatusStep ==
    ASSUME TypeOK, [Next]_vars, NEW p \in Permits,
           permit'[p].status \in PaidStatus, permit[p].status \notin PaidStatus
    PROVE  \E s \in Slots :
             \/ /\ CommitCheckout(s)
                /\ p \in req[s].permits
                /\ req[s].method # "WEB"
             \/ CommitApproved(s) /\ p \in txn[req[s].txn].permits
             \/ CommitIssue(s) /\ p \in req[s].permits
<1>1. permit'[p] # permit[p]
  OBVIOUS
<1>2. CASE AddToCart \/ RemoveFromCart
  <2>1. permit'[p].status \in {permit[p].status, "IN_CART", "IN_PROGRESS"}
    <3>1. ASSUME NEW S, NEW from, NEW to, SetStatus(S, from, to)
          PROVE  permit'[p].status \in {permit[p].status, to}
      BY <3>1 DEF SetStatus, TypeOK, Row
    <3> QED
      BY <1>2, <3>1 DEF AddToCart, RemoveFromCart
  <2> QED
    BY <2>1 DEF PaidStatus
<1>3. ASSUME NEW s \in Slots, BeginCreate(s)
      PROVE  FALSE
  <2>1. PICK q \in Permits, d \in Data :
          permit' = [permit EXCEPT ![q] =
                       [NoRow EXCEPT !.status = "IN_PROGRESS", !.data = d]]
    BY <1>3 DEF BeginCreate
  <2>2. [NoRow EXCEPT !.status = "IN_PROGRESS", !.data = d].status = "IN_PROGRESS"
    BY DEF NoRow
  <2> QED
    BY <1>1, <2>1, <2>2 DEF PaidStatus, TypeOK
<1>4. ASSUME NEW s \in Slots, InsertAmendment(s)
      PROVE  FALSE
  BY <1>1, <1>4 DEF InsertAmendment, PaidStatus, TypeOK
<1>5. ASSUME NEW s \in Slots, AssignOriginal(s) \/ CommitUpdate(s)
      PROVE  FALSE
  BY <1>5 DEF AssignOriginal, CommitUpdate, TypeOK, Row
<1>6. ASSUME NEW s \in Slots, CommitDelete(s)
      PROVE  FALSE
  <2>1. req[s].snap[p] \in Row
    BY DEF TypeOK, Requests
  <2>2. [req[s].snap[p] EXCEPT !.status = "CANCELLED",
                               !.data = permit[p].data].status = "CANCELLED"
    BY <2>1 DEF Row
  <2> QED
    BY <1>1, <1>6, <2>2 DEF CommitDelete, PaidStatus
<1>7. ASSUME NEW s \in Slots, CommitCheckout(s)
      PROVE  p \in req[s].permits /\ req[s].method # "WEB"
  <2>1. req[s].snap[p] \in Row
    BY DEF TypeOK, Requests
  <2>2. p \in req[s].permits /\ permit'[p] = PurchasedRow(req[s].snap[p], req[s].method)
    BY <1>1, <1>7 DEF CommitCheckout
  <2> QED
    BY <2>1, <2>2 DEF PurchasedRow, PaidStatus, Row
<1>8. ASSUME NEW s \in Slots, CommitApproved(s)
      PROVE  p \in txn[req[s].txn].permits
  BY <1>1, <1>8 DEF CommitApproved
<1>9. ASSUME NEW s \in Slots, CommitIssue(s)
      PROVE  p \in req[s].permits
  BY <1>1, <1>9 DEF CommitIssue, PaidStatus, TypeOK, Row
<1>10. ASSUME NEW s \in Slots, CommitVoid(s)
       PROVE  FALSE
  <2>1. PICK o \in req[s].permits, q \in Permits :
          \E new : /\ new.status = "VOIDED"
                   /\ permit' = [permit EXCEPT
                                   ![o].status = "SUPERSEDED",
                                   ![q] = IF req[s].method = "WEB"
                                          THEN PurchasedRow(new, "WEB") ELSE new]
                   /\ PurchasedRow(new, "WEB").status = "WAITING_PAYMENT"
    <3>1. PICK o \in req[s].permits, q \in Permits :
            LET old == req[s].snap[o]
                new == [old EXCEPT !.status = "VOIDED", !.prev = o,
                                   !.rev = old.rev + 1, !.number = NextNumber(old)]
            IN  permit' = [permit EXCEPT
                             ![o].status = "SUPERSEDED",
                             ![q] = IF req[s].method = "WEB"
                                    THEN PurchasedRow(new, "WEB") ELSE new]
      BY <1>10 DEF CommitVoid
    <3>2. req[s].snap[o] \in Row
      BY DEF TypeOK, Requests
    <3>3. ASSUME NEW new, new = [req[s].snap[o] EXCEPT
                                   !.status = "VOIDED", !.prev = o,
                                   !.rev = req[s].snap[o].rev + 1,
                                   !.number = NextNumber(req[s].snap[o])]
          PROVE  /\ new.status = "VOIDED"
                 /\ PurchasedRow(new, "WEB").status = "WAITING_PAYMENT"
      BY <3>2, <3>3 DEF Row, PurchasedRow
    <3> QED
      BY <3>1, <3>3
  <2>2. o \in Permits
    BY DEF TypeOK, Requests
  <2> QED
    BY <1>1, <2>1, <2>2 DEF PaidStatus, TypeOK, Row
<1>11. CASE UNCHANGED permit
  BY <1>1, <1>11
<1>12. \/ UNCHANGED permit
       \/ AddToCart \/ RemoveFromCart
       \/ \E s \in Slots :
            \/ BeginCreate(s) \/ InsertAmendment(s) \/ AssignOriginal(s)
            \/ CommitUpdate(s) \/ CommitDelete(s) \/ CommitCheckout(s)
            \/ CommitApproved(s) \/ CommitIssue(s) \/ CommitVoid(s)
  BY DEF Next, vars, Handle, AnswerAtPayBC, BeginAmend, BeginUpdate, BeginDelete,
         BeginCheckout, BeginRefund, CommitRefund, BeginCallback, CommitDeclined,
         BeginIssue, BeginVoid, Fail
<1> QED
  BY <1>2, <1>3, <1>4, <1>5, <1>6, <1>7, <1>8, <1>9, <1>10, <1>11, <1>12

\* PayBC is only ever asked about web transactions, and a used row of the
\* transaction table keeps its method.
LEMMA AnsweredStep ==
    ASSUME PaymentInv, [Next]_vars
    PROVE  AnsweredIsWeb'
<1>1. CASE AnswerAtPayBC
  BY <1>1 DEF AnswerAtPayBC, PaymentInv, AnsweredIsWeb, TypeOK
<1>2. CASE UNCHANGED <<payBC, txn>>
  BY <1>2 DEF PaymentInv, AnsweredIsWeb
<1>3. ASSUME NEW s \in Slots, InsertsTxn(s), UNCHANGED payBC
      PROVE  AnsweredIsWeb'
  BY <1>3, InsertStep DEF PaymentInv, AnsweredIsWeb
<1>4. ASSUME NEW s \in Slots, CommitApproved(s) \/ CommitDeclined(s), UNCHANGED payBC
      PROVE  AnsweredIsWeb'
  BY <1>4, SettleStep DEF PaymentInv, AnsweredIsWeb
<1> QED
  BY <1>1, <1>2, <1>3, <1>4, TxnStep, AnswerStep

LEMMA UnusedStep ==
    ASSUME PaymentInv, [Next]_vars
    PROVE  UnusedHaveNoReceipt'
<1> USE DEF PaymentInv
<1>1. CASE UNCHANGED txn
  BY <1>1 DEF UnusedHaveNoReceipt
<1>2. ASSUME NEW s \in Slots, InsertsTxn(s)
      PROVE  UnusedHaveNoReceipt'
  BY <1>2, InsertStep DEF UnusedHaveNoReceipt, Methods
<1>3. ASSUME NEW s \in Slots, CommitApproved(s) \/ CommitDeclined(s)
      PROVE  UnusedHaveNoReceipt'
  <2>1. txn[req[s].txn].method # "NONE"
    BY <1>3 DEF CommitApproved, CommitDeclined, CallbackAnswered, AnsweredIsWeb
  <2> QED
    BY <1>3, <2>1, SettleStep DEF UnusedHaveNoReceipt
<1> QED
  BY <1>1, <1>2, <1>3, TxnStep

\* A receipt of a web transaction stands for money that PayBC took.
LEMMA MoneyStep ==
    ASSUME PaymentInv, [Next]_vars
    PROVE  ReceiptMeansMoney'
<1>1. \A t \in Txns : payBC[t] = "captured" => payBC'[t] = "captured"
  BY AnswerStep DEF AnswerAtPayBC, PaymentInv, TypeOK
<1>2. CASE UNCHANGED txn
  BY <1>1, <1>2 DEF PaymentInv, ReceiptMeansMoney
<1>3. ASSUME NEW s \in Slots, InsertsTxn(s)
      PROVE  ReceiptMeansMoney'
  BY <1>1, <1>3, InsertStep DEF PaymentInv, ReceiptMeansMoney
<1>4. ASSUME NEW s \in Slots, CommitApproved(s) \/ CommitDeclined(s)
      PROVE  ReceiptMeansMoney'
  BY <1>1, <1>4, SettleStep DEF PaymentInv, ReceiptMeansMoney
<1> QED
  BY <1>2, <1>3, <1>4, TxnStep

\* The receipt an issuance has read is there until the issuance commits.
LEMMA IssuanceStep ==
    ASSUME PaymentInv, [Next]_vars
    PROVE  IssuancesAreReceipted'
<1>1. \A p \in Permits : Receipted(p) => Receipted(p)'
  BY ReceiptedStays DEF PaymentInv
<1>2. \A s \in Slots : req[s].permits \subseteq Permits
  BY DEF PaymentInv, TypeOK, Requests
<1>3. CASE UNCHANGED req
  BY <1>1, <1>2, <1>3 DEF PaymentInv, IssuancesAreReceipted
<1>4. ASSUME NEW s \in Slots, Handle(s)
      PROVE  IssuancesAreReceipted'
  <2>1. PICK r : /\ req' = [req EXCEPT ![s] = r]
                 /\ r.op = "issue" => BeginIssue(s)
    BY <1>4, SlotStep DEF PaymentInv
  <2>2. req'[s] = r /\ \A u \in Slots \ {s} : req'[u] = req[u]
    BY <2>1 DEF PaymentInv, TypeOK
  <2>3. ASSUME BeginIssue(s)
        PROVE  \A p \in r.permits : Receipted(p)'
    <3>1. PICK p \in Permits :
            /\ Receipted(p)
            /\ req' = [req EXCEPT ![s] =
                         [Idle EXCEPT !.op = "issue", !.permits = {p},
                            !.snap = Snapshot({p}),
                            !.number = NextNumber(NumberSource(p, permit[p]))]]
      BY <2>3 DEF BeginIssue
    <3>2. [Idle EXCEPT !.op = "issue", !.permits = {p}, !.snap = Snapshot({p}),
             !.number = NextNumber(NumberSource(p, permit[p]))].permits = {p}
      BY DEF Idle
    <3>3. r.permits = {p}
      BY <2>2, <3>1, <3>2 DEF PaymentInv, TypeOK
    <3> QED
      BY <1>1, <3>1, <3>3
  <2> QED
    BY <1>1, <1>2, <2>1, <2>2, <2>3 DEF PaymentInv, IssuancesAreReceipted
<1> QED
  BY <1>3, <1>4 DEF Next, vars, AddToCart, RemoveFromCart, AnswerAtPayBC

\* No step puts an unpaid permit in force.
LEMMA PaidStep ==
    ASSUME PaymentInv, [Next]_vars
    PROVE  PaidBeforeIssued'
<1> SUFFICES ASSUME NEW p \in Permits, permit'[p].status \in PaidStatus
             PROVE  Receipted(p)'
  BY DEF PaidBeforeIssued, PaidStatus
<1>1. Receipted(p) => Receipted(p)'
  BY ReceiptedStays DEF PaymentInv
<1>2. CASE permit[p].status \in PaidStatus
  BY <1>1, <1>2 DEF PaymentInv, PaidBeforeIssued, PaidStatus
<1>3. ASSUME NEW s \in Slots, CommitCheckout(s), p \in req[s].permits,
             req[s].method # "WEB"
      PROVE  Receipted(p)'
  <2>1. PICK t \in Txns, m \in Methods :
          /\ txn'[t].receipts = IF m = "WEB" THEN 0 ELSE 1
          /\ m = req[s].method
          /\ txn'[t].permits = req[s].permits
    BY <1>3, InsertStep DEF PaymentInv, InsertsTxn
  <2> QED
    BY <1>3, <2>1 DEF Receipted
<1>4. ASSUME NEW s \in Slots, CommitApproved(s), p \in txn[req[s].txn].permits
      PROVE  Receipted(p)'
  <2>1. req[s].txn \in Txns /\ txn[req[s].txn].receipts \in Nat
    BY <1>4, SettleStep DEF PaymentInv, TypeOK, Txn
  <2>2. ~CommitDeclined(s)
    BY <1>4 DEF CommitApproved, CommitDeclined
  <2>3. txn'[req[s].txn].receipts > 0 /\ p \in txn'[req[s].txn].permits
    BY <1>4, <2>1, <2>2, SettleStep DEF PaymentInv
  <2> QED
    BY <2>1, <2>3 DEF Receipted
<1>5. ASSUME NEW s \in Slots, CommitIssue(s), p \in req[s].permits
      PROVE  Receipted(p)'
  BY <1>1, <1>5 DEF PaymentInv, IssuancesAreReceipted, CommitIssue
<1> QED
  BY <1>2, <1>3, <1>4, <1>5, StatusStep DEF PaymentInv

\* The inductive invariant.
LEMMA PaymentInvCorrect == Spec => []PaymentInv
<1>1. Init => PaymentInv
  <2> SUFFICES ASSUME Init
               PROVE  PaymentInv
    OBVIOUS
  <2>1. AnsweredIsWeb
    BY DEF Init, AnsweredIsWeb
  <2>2. UnusedHaveNoReceipt /\ ReceiptMeansMoney
    BY DEF Init, UnusedHaveNoReceipt, ReceiptMeansMoney, NoTxn
  <2>3. IssuancesAreReceipted
    BY DEF Init, IssuancesAreReceipted, Idle
  <2>4. PaidBeforeIssued
    BY DEF Init, PaidBeforeIssued, NoRow
  <2> QED
    BY <2>1, <2>2, <2>3, <2>4, TypeInit DEF PaymentInv
<1>2. PaymentInv /\ [Next]_vars => PaymentInv'
  <2> SUFFICES ASSUME PaymentInv, [Next]_vars
               PROVE  PaymentInv'
    OBVIOUS
  <2>1. TypeOK' /\ CallbackAnswered'
    BY TypeStep, CallbackStep DEF PaymentInv
  <2> QED
    BY <2>1, AnsweredStep, UnusedStep, MoneyStep, IssuanceStep, PaidStep
       DEF PaymentInv
<1> QED
  BY <1>1, <1>2, PTL DEF Spec

\* Whatever requests overlap, and however many: no permit is issued, or ready
\* to be, without a receipt that pays for it.
THEOREM IssuedArePaid == Spec => []PaidBeforeIssued
<1>1. PaymentInv => PaidBeforeIssued
  BY DEF PaymentInv
<1> QED
  BY <1>1, PaymentInvCorrect, PTL

\* Whatever callbacks are lost, repeated or overlap: a web transaction has a
\* receipt only if PayBC took the money.
THEOREM ReceiptsAreMoney == Spec => []ReceiptMeansMoney
<1>1. PaymentInv => ReceiptMeansMoney
  BY DEF PaymentInv
<1> QED
  BY <1>1, PaymentInvCorrect, PTL

-----------------------------------------------------------------------------
(* One request at a time                                                   *)

OneRequest == \A s, u \in Slots : s = u

(***************************************************************************)
(* The inductive invariant: the permit table.                              *)
(***************************************************************************)

UnusedRows ==
    \A p \in Permits :
        permit[p].status = "NONE" => /\ permit[p].orig = NoId
                                     /\ permit[p].prev = NoId
                                     /\ permit[p].number = NoNumber

\* What was in force has a number, and what has a number keeps its original.
NumberedRows ==
    \A p \in Permits :
        /\ permit[p].status \in {"ISSUED", "SUPERSEDED", "VOIDED"} =>
              permit[p].number # NoNumber
        /\ permit[p].number # NoNumber =>
              /\ permit[p].status \notin {"NONE", "CANCELLED"}
              /\ permit[p].orig # NoId

\* The original permit is its own original, and what is revised had a number.
Lineage ==
    \A p \in Permits :
        /\ permit[p].orig # NoId => permit[permit[p].orig].orig = permit[p].orig
        /\ permit[p].prev # NoId =>
              /\ permit[p].orig # NoId
              /\ permit[p].prev # p
              /\ permit[permit[p].prev].number # NoNumber
              /\ permit[permit[p].prev].rev < MaxRevision

OpenOf(o) ==
    {p \in Permits : /\ permit[p].orig = o
                     /\ permit[p].number = NoNumber
                     /\ permit[p].status \in ActiveForIssuance}

OpenOnce == \A o \in Permits : \A p, q \in OpenOf(o) : p = q

RowsInv ==
    UnusedRows /\ NumberedRows /\ Lineage /\ OpenOnce /\ PredecessorSuperseded

(***************************************************************************)
(* The inductive invariant: the transactions.                              *)
(***************************************************************************)

\* No way leads back from here to a row that can be paid for.
Settled == {"PAYMENT_COMPLETE", "ISSUED", "SUPERSEDED"}

\* The rows of the transaction table are used in order, each for some permits.
UsedTxns ==
    \A t \in Txns :
        /\ txn[t].method = "NONE" <=> txn[t].permits = {}
        /\ \A p \in txn[t].permits : Exists(p)
        /\ txn[t].method # "NONE" =>
              \A u \in Txns : u < t => txn[u].method # "NONE"

\* The receipt of a purchase settles its permits; only the rows that record a
\* void may be paid for again.
PaidAreSettled ==
    \A t \in Txns : txn[t].receipts > 0 =>
        \A p \in txn[t].permits :
            \/ permit[p].status \in Settled
            \/ txn[t].method = "OTHER" /\ permit[p].number # NoNumber
            \/ txn[t].method = "REFUND"

Receipts(p) == {t \in Purchases(p) : txn[t].receipts > 0}

PaidByOne ==
    \A p \in Permits :
        permit[p].number = NoNumber \/ permit[p].status = "ISSUED" =>
            \A t, u \in Receipts(p) : t = u

IsLast(t, p) == t \in Purchases(p) /\ \A u \in Purchases(p) : u <= t

LastAsPriced ==
    \A p \in Permits, t \in Txns :
        /\ IsLast(t, p)
        /\ \/ permit[p].status = "WAITING_PAYMENT"
           \/ /\ permit[p].status \in {"PAYMENT_COMPLETE", "ISSUED"}
              /\ txn[t].receipts > 0
        => txn[t].priced[p] = permit[p].data

TxnsInv == UsedTxns /\ OneReceipt /\ PaidAreSettled /\ PaidByOne /\ LastAsPriced

(***************************************************************************)
(* The inductive invariant: the request in flight.                         *)
(***************************************************************************)

\* A row that was read is the row there is, but for moves of the cart.
AsRead(row, p) ==
    /\ row.orig = permit[p].orig /\ row.prev = permit[p].prev
    /\ row.rev = permit[p].rev /\ row.number = permit[p].number
    /\ row.data = permit[p].data
    /\ \/ row.status = permit[p].status
       \/ row.status \in ActiveForIssuance /\ permit[p].status \in ActiveForIssuance

CreateOK(p) ==
    /\ permit[p].orig = NoId /\ permit[p].prev = NoId
    /\ permit[p].number = NoNumber
    /\ permit[p].status \in ActiveForIssuance

AmendOK(row, p) ==
    /\ AsRead(row, p)
    /\ row.number # NoNumber
    /\ row.rev < MaxRevision
    /\ OpenOf(row.orig) = {}

DeleteOK(row, p) ==
    /\ AsRead(row, p)
    /\ row.status \in ActiveStatus
    /\ row.number = NoNumber

CheckoutOK(row, p) ==
    /\ AsRead(row, p)
    /\ row.status \in {"VOIDED", "IN_CART", "IN_PROGRESS"}

CallbackOK(p) ==
    /\ permit[p].status \in ActiveForIssuance
    /\ \A t \in Txns : IsLast(t, p) => txn[t].priced[p] = permit[p].data

IssueOK(row, p, n) ==
    /\ AsRead(row, p)
    /\ row.number = NoNumber
    /\ row.orig # NoId
    /\ n \in 0..MaxRevision

VoidOK(row, p) ==
    /\ AsRead(row, p)
    /\ row.status = "ISSUED"
    /\ row.rev < MaxRevision

RequestOK(r) ==
    CASE r.op = "create"   -> \E p \in Permits : r.permits = {p} /\ CreateOK(p)
      [] r.op = "amend"    -> \E p \in Permits : r.permits = {p} /\ AmendOK(r.snap[p], p)
      [] r.op = "update"   -> \E p \in Permits :
                                r.permits = {p} /\ permit[p].status \in {"IN_PROGRESS", "IN_CART"}
      [] r.op = "delete"   -> \E p \in Permits : r.permits = {p} /\ DeleteOK(r.snap[p], p)
      [] r.op = "checkout" -> /\ r.permits # {}
                              /\ r.method \in {"WEB", "OTHER"}
                              /\ \A p \in r.permits : CheckoutOK(r.snap[p], p)
      [] r.op = "refund"   -> \E p \in Permits : r.permits = {p} /\ Exists(p)
      [] r.op = "callback" -> \A p \in txn[r.txn].permits : CallbackOK(p)
      [] r.op = "issue"    -> \E p \in Permits :
                                r.permits = {p} /\ IssueOK(r.snap[p], p, r.number)
      [] r.op = "void"     -> \E p \in Permits : r.permits = {p} /\ VoidOK(r.snap[p], p)
      [] OTHER             -> TRUE

RequestsOK == \A s \in Slots : RequestOK(req[s])

SerialInv == PaymentInv /\ RowsInv /\ TxnsInv /\ RequestsOK

-----------------------------------------------------------------------------
(* Facts about constants and sets                                          *)

LEMMA NoIdIsNoRow == NoId \notin Permits /\ NoId \notin Txns
BY DEF NoId, Permits, Txns

LEMMA NumbersAreNat == \A n \in Nat : n # NoNumber
BY DEF NoNumber

\* A set whose elements are all equal has one element at most.
LEMMA AtMostOne ==
    ASSUME NEW S, \A x, y \in S : x = y
    PROVE  Cardinality(S) <= 1
<1>1. CASE S = {}
  BY <1>1, FS_EmptySet
<1>2. CASE S # {}
  <2>1. PICK x \in S : TRUE
    BY <1>2
  <2>2. S = {x}
    BY <2>1
  <2>3. Cardinality({x}) = 1
    BY FS_Singleton
  <2> QED
    BY <2>2, <2>3
<1> QED
  BY <1>1, <1>2

-----------------------------------------------------------------------------
(* The permit table: what each kind of step does to it                     *)

SameLine(p) ==
    /\ permit'[p].orig = permit[p].orig
    /\ permit'[p].prev = permit[p].prev
    /\ permit'[p].rev = permit[p].rev
    /\ permit'[p].number = permit[p].number

\* The cart, the payment handlers and deletion move a row that is not in force
\* on to another status.
Moves(p) ==
    /\ SameLine(p)
    /\ \/ permit'[p].status = permit[p].status
       \/ /\ permit[p].status \in ActiveForIssuance \cup {"VOIDED"}
          /\ permit'[p].status \in ActiveForIssuance \cup {"PAYMENT_COMPLETE"}
       \/ /\ permit[p].status \in ActiveForIssuance
          /\ permit'[p].status = "CANCELLED"
          /\ permit[p].number = NoNumber

LEMMA MovesKeepRows ==
    ASSUME TypeOK, RowsInv, \A p \in Permits : Moves(p)
    PROVE  RowsInv'
<1> USE DEF RowsInv
<1>1. \A p \in Permits : SameLine(p)
  BY DEF Moves
<1>2. \A p \in Permits :
        permit[p].orig \in Permits \cup {NoId} /\ permit[p].prev \in Permits \cup {NoId}
  BY DEF TypeOK, Row
<1>3. UnusedRows'
  BY <1>1 DEF UnusedRows, Moves, SameLine, ActiveForIssuance
<1>4. NumberedRows'
  BY <1>1 DEF NumberedRows, Moves, SameLine, ActiveForIssuance
<1>5. Lineage'
  BY <1>1, <1>2 DEF Lineage, SameLine
<1>6. OpenOnce'
  <2>1. \A o, p \in Permits : p \in OpenOf(o)' => p \in OpenOf(o)
    BY <1>1 DEF OpenOf, NumberedRows, Moves, SameLine, ActiveForIssuance
  <2> QED
    BY <2>1 DEF OpenOnce, OpenOf
<1>7. PredecessorSuperseded'
  BY <1>1, <1>2 DEF PredecessorSuperseded, Moves, SameLine, ActiveForIssuance
<1> QED
  BY <1>3, <1>4, <1>5, <1>6, <1>7

\* create(): a first revision, whose original is not known yet ...
LEMMA CreateKeepsRows ==
    ASSUME TypeOK, RowsInv, NEW q \in Permits,
           permit[q].status = "NONE",
           permit'[q].orig = NoId, permit'[q].prev = NoId,
           permit'[q].number = NoNumber, permit'[q].status = "IN_PROGRESS",
           \A p \in Permits \ {q} : permit'[p] = permit[p]
    PROVE  RowsInv'
<1> USE DEF RowsInv
<1>1. \A p \in Permits :
        permit[p].orig \in Permits \cup {NoId} /\ permit[p].prev \in Permits \cup {NoId}
  BY DEF TypeOK, Row
<1>2. permit[q].orig = NoId /\ permit[q].number = NoNumber /\ permit[q].prev = NoId
  BY DEF UnusedRows
<1>3. UnusedRows' /\ NumberedRows'
  BY DEF UnusedRows, NumberedRows
<1>4. Lineage'
  BY <1>1, <1>2, NoIdIsNoRow DEF Lineage
<1>5. OpenOnce'
  <2>1. \A o, p \in Permits : p \in OpenOf(o)' => p \in OpenOf(o)
    BY NoIdIsNoRow DEF OpenOf
  <2> QED
    BY <2>1 DEF OpenOnce, OpenOf
<1>6. PredecessorSuperseded'
  BY <1>1, <1>2, NumbersAreNat DEF PredecessorSuperseded, NumberedRows, Lineage
<1> QED
  BY <1>3, <1>4, <1>5, <1>6

\* ... and then is the row itself.
LEMMA AssignKeepsRows ==
    ASSUME TypeOK, RowsInv, NEW q \in Permits, CreateOK(q),
           permit'[q].orig = q,
           permit'[q].prev = permit[q].prev, permit'[q].rev = permit[q].rev,
           permit'[q].number = permit[q].number, permit'[q].status = permit[q].status,
           \A p \in Permits \ {q} : permit'[p] = permit[p]
    PROVE  RowsInv'
<1> USE DEF RowsInv, CreateOK
<1>1. \A p \in Permits :
        permit[p].orig \in Permits \cup {NoId} /\ permit[p].prev \in Permits \cup {NoId}
  BY DEF TypeOK, Row
<1>2. \A p \in Permits : permit[p].orig # q
  BY <1>1, NoIdIsNoRow DEF Lineage
<1>3. UnusedRows' /\ NumberedRows'
  BY NoIdIsNoRow DEF UnusedRows, NumberedRows, ActiveForIssuance
<1>4. Lineage'
  BY <1>1, <1>2, NoIdIsNoRow DEF Lineage
<1>5. OpenOnce'
  <2>1. \A o, p \in Permits : p \in OpenOf(o)' => p \in OpenOf(o) \/ (p = q /\ o = q)
    BY DEF OpenOf
  <2>2. OpenOf(q) = {}
    BY <1>2 DEF OpenOf
  <2> QED
    BY <2>1, <2>2 DEF OpenOnce, OpenOf
<1>6. PredecessorSuperseded'
  BY <1>1 DEF PredecessorSuperseded
<1> QED
  BY <1>3, <1>4, <1>5, <1>6

\* createAmendment
LEMMA AmendKeepsRows ==
    ASSUME TypeOK, RowsInv, NEW o \in Permits, NEW q \in Permits,
           permit[q].status = "NONE",
           permit[o].number # NoNumber, permit[o].rev < MaxRevision,
           OpenOf(permit[o].orig) = {},
           permit'[q].orig = permit[o].orig, permit'[q].prev = o,
           permit'[q].number = NoNumber, permit'[q].status = "IN_PROGRESS",
           \A p \in Permits \ {q} : permit'[p] = permit[p]
    PROVE  RowsInv'
<1> USE DEF RowsInv
<1>1. \A p \in Permits :
        permit[p].orig \in Permits \cup {NoId} /\ permit[p].prev \in Permits \cup {NoId}
  BY DEF TypeOK, Row
<1>2. permit[q].orig = NoId /\ permit[q].number = NoNumber /\ permit[q].prev = NoId
  BY DEF UnusedRows
<1>3. o # q /\ permit[o].orig # NoId
  BY <1>2 DEF NumberedRows
<1>4. UnusedRows' /\ NumberedRows'
  BY DEF UnusedRows, NumberedRows
<1>5. Lineage'
  <2>1. permit[permit[o].orig].orig = permit[o].orig /\ permit[o].orig # q
    BY <1>1, <1>2, <1>3 DEF Lineage
  <2>2. \A p \in Permits \ {q} : permit[p].orig # q /\ permit[p].prev # q
    BY <1>1, <1>2, NoIdIsNoRow DEF Lineage
  <2> QED
    BY <1>1, <1>3, <2>1, <2>2 DEF Lineage
<1>6. OpenOnce'
  <2>1. \A n, p \in Permits :
          p \in OpenOf(n)' => p \in OpenOf(n) \/ (p = q /\ n = permit[o].orig)
    BY DEF OpenOf
  <2> QED
    BY <2>1 DEF OpenOnce, OpenOf
<1>7. PredecessorSuperseded'
  BY <1>1, <1>2 DEF PredecessorSuperseded, Lineage
<1> QED
  BY <1>4, <1>5, <1>6, <1>7

\* issuePermits: what the permit revises is superseded in the same step.
LEMMA IssueKeepsRows ==
    ASSUME TypeOK, RowsInv, NEW q \in Permits,
           permit[q].number = NoNumber, permit[q].orig # NoId,
           permit'[q].orig = permit[q].orig, permit'[q].prev = permit[q].prev,
           permit'[q].rev = permit[q].rev, permit'[q].number # NoNumber,
           permit'[q].status = "ISSUED",
           \A p \in Permits \ {q} :
             /\ SameLine(p)
             /\ permit'[p].status = IF p = permit[q].prev THEN "SUPERSEDED"
                                    ELSE permit[p].status
    PROVE  RowsInv'
<1> USE DEF RowsInv
<1>1. \A p \in Permits :
        permit[p].orig \in Permits \cup {NoId} /\ permit[p].prev \in Permits \cup {NoId}
  BY DEF TypeOK, Row
<1>2. permit[q].prev # q
  BY DEF Lineage, NoId, Permits
<1>3. UnusedRows'
  BY DEF UnusedRows, SameLine
<1>4. NumberedRows'
  <2>1. \A p \in Permits : p = permit[q].prev => permit[p].number # NoNumber
    BY NoIdIsNoRow DEF Lineage
  <2> QED
    BY <2>1 DEF NumberedRows, SameLine
<1>5. Lineage'
  BY <1>1 DEF Lineage, SameLine
<1>6. OpenOnce'
  <2>1. \A n, p \in Permits : p \in OpenOf(n)' => p \in OpenOf(n)
    BY DEF OpenOf, SameLine, ActiveForIssuance
  <2> QED
    BY <2>1 DEF OpenOnce, OpenOf
<1>7. PredecessorSuperseded'
  <2> SUFFICES ASSUME NEW p \in Permits,
                      permit'[p].status \in {"ISSUED", "VOIDED"},
                      permit'[p].prev # NoId
               PROVE  permit'[permit'[p].prev].status = "SUPERSEDED"
    BY DEF PredecessorSuperseded
  <2>1. permit'[p].prev = permit[p].prev /\ permit[p].prev \in Permits
    BY <1>1 DEF SameLine
  <2>2. CASE p = q
    BY <1>2, <2>1, <2>2
  <2>3. CASE p # q
    <3>1. permit[permit[p].prev].status = "SUPERSEDED"
      BY <2>1, <2>3 DEF PredecessorSuperseded
    <3>2. permit[p].prev # q
      BY <3>1 DEF NumberedRows
    <3> QED
      BY <2>1, <3>1, <3>2
  <2> QED
    BY <2>2, <2>3
<1> QED
  BY <1>3, <1>4, <1>5, <1>6, <1>7

\* voidPermit: the row that records the void follows the permit that was in force.
LEMMA VoidKeepsRows ==
    ASSUME TypeOK, RowsInv, NEW o \in Permits, NEW q \in Permits,
           permit[q].status = "NONE",
           permit[o].status = "ISSUED", permit[o].rev < MaxRevision,
           SameLine(o), permit'[o].status = "SUPERSEDED",
           permit'[q].orig = permit[o].orig, permit'[q].prev = o,
           permit'[q].number # NoNumber,
           permit'[q].status \in {"VOIDED", "WAITING_PAYMENT"},
           \A p \in Permits \ {o, q} : permit'[p] = permit[p]
    PROVE  RowsInv'
<1> USE DEF RowsInv
<1>1. \A p \in Permits :
        permit[p].orig \in Permits \cup {NoId} /\ permit[p].prev \in Permits \cup {NoId}
  BY DEF TypeOK, Row
<1>2. permit[q].orig = NoId /\ permit[q].number = NoNumber /\ permit[q].prev = NoId
  BY DEF UnusedRows
<1>3. o # q /\ permit[o].number # NoNumber /\ permit[o].orig # NoId
  BY DEF NumberedRows
<1>4. UnusedRows' /\ NumberedRows'
  BY <1>3 DEF UnusedRows, NumberedRows, SameLine
<1>5. Lineage'
  <2>1. permit[permit[o].orig].orig = permit[o].orig /\ permit[o].orig # q
    BY <1>1, <1>2, <1>3 DEF Lineage
  <2>2. \A p \in Permits \ {q} : permit[p].orig # q /\ permit[p].prev # q
    BY <1>1, <1>2, NoIdIsNoRow DEF Lineage
  <2>3. \A p \in Permits \ {q} : SameLine(p)
    BY DEF SameLine
  <2> QED
    BY <1>1, <1>3, <2>1, <2>2, <2>3 DEF Lineage, SameLine
<1>6. OpenOnce'
  <2>1. \A n, p \in Permits : p \in OpenOf(n)' => p \in OpenOf(n)
    BY <1>3 DEF OpenOf, SameLine
  <2> QED
    BY <2>1 DEF OpenOnce, OpenOf
<1>7. PredecessorSuperseded'
  BY <1>1, <1>2, <1>3 DEF PredecessorSuperseded, Lineage, SameLine
<1> QED
  BY <1>4, <1>5, <1>6, <1>7

-----------------------------------------------------------------------------
(* The transactions: what each kind of step does to them                   *)

\* A row that stays as far as its transactions can tell.
RowKept(p) ==
    Exists(p) =>
        /\ Exists(p)'
        /\ permit[p].status \in Settled => permit'[p].status \in Settled
        /\ permit[p].number # NoNumber => permit'[p].number # NoNumber
        /\ permit'[p].status = "ISSUED" =>
              permit[p].number = NoNumber \/ permit[p].status = "ISSUED"
        /\ permit'[p].status = "WAITING_PAYMENT" => permit[p].status = "WAITING_PAYMENT"
        /\ permit'[p].status = "PAYMENT_COMPLETE" => permit[p].status = "PAYMENT_COMPLETE"
        /\ permit'[p].status \in {"WAITING_PAYMENT", "PAYMENT_COMPLETE", "ISSUED"} =>
              permit'[p].data = permit[p].data

\* A purchase whose receipt is there leaves an application paid, no more.
LEMMA PaidApplication ==
    ASSUME RowsInv, TxnsInv, NEW p \in Permits, NEW t \in Receipts(p),
           permit[p].number = NoNumber
    PROVE  permit[p].status = "PAYMENT_COMPLETE"
BY DEF RowsInv, TxnsInv, NumberedRows, PaidAreSettled, Receipts, Purchases, Settled

\* With a row that is kept, what holds of its receipts stays.
LEMMA KeptIsPaidByOne ==
    ASSUME TxnsInv, NEW p \in Permits, RowKept(p), Receipts(p)' = Receipts(p),
           permit'[p].number = NoNumber \/ permit'[p].status = "ISSUED"
    PROVE  \A u, v \in Receipts(p)' : u = v
<1>1. Receipts(p) # {} => Exists(p)
  BY DEF TxnsInv, UsedTxns, Receipts, Purchases
<1> QED
  BY <1>1 DEF TxnsInv, PaidByOne, RowKept

LEMMA KeptIsPriced ==
    ASSUME RowsInv, TxnsInv, NEW p \in Permits, NEW t \in Txns, RowKept(p),
           IsLast(t, p), txn'[t] = txn[t],
           \/ permit'[p].status = "WAITING_PAYMENT"
           \/ permit'[p].status \in {"PAYMENT_COMPLETE", "ISSUED"} /\ txn[t].receipts > 0
    PROVE  txn'[t].priced[p] = permit'[p].data
<1>1. Exists(p)
  BY DEF TxnsInv, UsedTxns, IsLast, Purchases
<1>2. permit'[p].data = permit[p].data
  BY <1>1 DEF RowKept
<1>3. \/ permit[p].status = "WAITING_PAYMENT"
      \/ permit[p].status \in {"PAYMENT_COMPLETE", "ISSUED"} /\ txn[t].receipts > 0
  <2>1. CASE permit'[p].status = "ISSUED" /\ permit[p].number = NoNumber
    <3>1. t \in Receipts(p)
      BY <2>1 DEF IsLast, Receipts
    <3> QED
      BY <2>1, <3>1, PaidApplication
  <2> QED
    BY <1>1, <2>1 DEF RowKept
<1> QED
  BY <1>2, <1>3 DEF TxnsInv, LastAsPriced

LEMMA KeptTxns ==
    ASSUME TypeOK, RowsInv, TxnsInv, UNCHANGED txn, \A p \in Permits : RowKept(p)
    PROVE  TxnsInv'
<1> USE DEF TxnsInv
<1>1. \A t \in Txns : txn[t].permits \subseteq Permits
  BY DEF TypeOK, Txn
<1>2. \A t \in Txns : \A p \in txn[t].permits : Exists(p)
  BY DEF UsedTxns
<1>3. UsedTxns' /\ OneReceipt'
  BY <1>1, <1>2 DEF UsedTxns, OneReceipt, RowKept
<1>4. PaidAreSettled'
  BY <1>1, <1>2 DEF PaidAreSettled, RowKept
<1>5. PaidByOne'
  <2>1. \A p \in Permits : Receipts(p)' = Receipts(p)
    BY DEF Receipts, Purchases
  <2> QED
    BY <2>1, KeptIsPaidByOne DEF PaidByOne
<1>6. LastAsPriced'
  <2>1. \A p \in Permits, t \in Txns : IsLast(t, p)' => IsLast(t, p)
    BY DEF IsLast, Purchases
  <2> QED
    BY <2>1, KeptIsPriced DEF LastAsPriced
<1> QED
  BY <1>3, <1>4, <1>5, <1>6

\* An unused row of the transaction table is written for the permits S.
Inserted(t, S, m) ==
    /\ IsNextTxn(t)
    /\ S \subseteq Permits /\ S # {}
    /\ m \in Methods
    /\ \A u \in Txns \ {t} : txn'[u] = txn[u]
    /\ txn'[t].method = m
    /\ txn'[t].permits = S
    /\ txn'[t].receipts = IF m = "WEB" THEN 0 ELSE 1

\* A row that a purchase pays for: it was not paid for before, unless it records
\* a void.
Bought(t, p, m) ==
    /\ Exists(p)'
    /\ Exists(p) => /\ permit[p].status \in ActiveForIssuance \cup {"VOIDED"}
                    /\ permit[p].number # NoNumber => permit'[p].number # NoNumber
    /\ permit'[p].status # "ISSUED"
    /\ m = "OTHER" => permit'[p].status \in Settled \/ permit'[p].number # NoNumber
    /\ txn'[t].priced[p] = permit'[p].data

LEMMA InsertedKeepsUsed ==
    ASSUME TypeOK, TxnsInv, NEW t \in Txns, NEW S, NEW m, Inserted(t, S, m),
           \A p \in Permits : Exists(p) => Exists(p)',
           \A p \in S : Exists(p)'
    PROVE  UsedTxns' /\ OneReceipt'
<1> USE DEF TxnsInv
<1>1. UsedTxns'
  <2>1. \A u \in Txns : txn[u].permits \subseteq Permits
    BY DEF TypeOK, Txn
  <2>2. \A u \in Txns : txn'[u].method = "NONE" <=> txn'[u].permits = {}
    BY DEF UsedTxns, Inserted, Methods
  <2>3. \A u \in Txns : \A p \in txn'[u].permits : Exists(p)'
    BY <2>1 DEF UsedTxns, Inserted
  <2>4. \A u, v \in Txns : txn'[u].method # "NONE" /\ v < u => txn'[v].method # "NONE"
    BY DEF UsedTxns, Inserted, IsNextTxn, Methods
  <2> QED
    BY <2>2, <2>3, <2>4 DEF UsedTxns
<1>2. OneReceipt'
  BY DEF OneReceipt, Inserted
<1> QED
  BY <1>1, <1>2

\* What was bought had not been paid for, unless it records a void.
LEMMA NotPaidBefore ==
    ASSUME RowsInv, TxnsInv, NEW p \in Permits, NEW t \in Receipts(p),
           permit[p].status \in ActiveForIssuance \cup {"VOIDED"}
    PROVE  txn[t].method = "OTHER" /\ permit[p].number # NoNumber
BY DEF RowsInv, TxnsInv, PaidAreSettled, Receipts, Purchases, Settled, ActiveForIssuance

LEMMA PurchaseKeepsTxns ==
    ASSUME TypeOK, RowsInv, TxnsInv, NEW t \in Txns, NEW S, NEW m \in {"WEB", "OTHER"},
           Inserted(t, S, m),
           \A p \in Permits \ S : RowKept(p),
           \A p \in S : Bought(t, p, m)
    PROVE  TxnsInv'
<1> USE DEF TxnsInv
<1>1. \A u \in Txns : txn[u].permits \subseteq Permits
  BY DEF TypeOK, Txn
<1>2. \A u \in Txns : \A p \in txn[u].permits : Exists(p)
  BY DEF UsedTxns
<1>3. \A p \in Permits : t \notin Purchases(p)
  BY DEF Inserted, IsNextTxn, Purchases
<1>4. S \subseteq Permits
  BY DEF Inserted
<1>5. \A p \in Permits : Purchases(p)' = IF p \in S THEN Purchases(p) \cup {t}
                                         ELSE Purchases(p)
  BY DEF Purchases, Inserted, IsNextTxn
<1>6. \A p \in Permits : Receipts(p)' = IF p \in S /\ m = "OTHER"
                                        THEN Receipts(p) \cup {t} ELSE Receipts(p)
  <2> SUFFICES ASSUME NEW p \in Permits
               PROVE  \A u : u \in Receipts(p)' <=>
                              u \in Receipts(p) \/ (p \in S /\ m = "OTHER" /\ u = t)
    OBVIOUS
  <2>1. \A u \in Purchases(p) : u \in Txns /\ txn'[u] = txn[u]
    BY <1>3 DEF Purchases, Inserted
  <2>2. txn'[t].receipts > 0 <=> m = "OTHER"
    BY DEF Inserted
  <2> QED
    BY <1>3, <1>5, <2>1, <2>2 DEF Receipts
<1>7. UsedTxns' /\ OneReceipt'
  BY <1>4, InsertedKeepsUsed DEF RowKept, Bought
<1>8. PaidAreSettled'
  <2> SUFFICES ASSUME NEW u \in Txns, NEW p \in Permits, p \in txn'[u].permits,
                      txn'[u].receipts > 0, txn'[u].method # "REFUND"
               PROVE  \/ permit'[p].status \in Settled
                      \/ txn'[u].method = "OTHER" /\ permit'[p].number # NoNumber
    BY <1>1, <1>4 DEF PaidAreSettled, Inserted
  <2>1. CASE u = t
    BY <2>1 DEF Inserted, Bought
  <2>2. CASE u # t
    <3>1. txn'[u] = txn[u] /\ Exists(p)
      BY <1>2, <2>2 DEF Inserted
    <3>2. CASE p \in S
      <4>1. txn[u].method \in {"WEB", "OTHER"}
        BY <3>1 DEF UsedTxns, TypeOK, Txn, Methods
      <4>2. u \in Receipts(p)
        BY <3>1, <4>1 DEF Receipts, Purchases
      <4> QED
        BY <3>1, <3>2, <4>2, NotPaidBefore DEF Bought
    <3>3. CASE p \notin S
      BY <3>1, <3>3 DEF PaidAreSettled, RowKept
    <3> QED
      BY <3>2, <3>3
  <2> QED
    BY <2>1, <2>2
<1>9. PaidByOne'
  <2> SUFFICES ASSUME NEW p \in Permits,
                      permit'[p].number = NoNumber \/ permit'[p].status = "ISSUED"
               PROVE  \A u, v \in Receipts(p)' : u = v
    BY DEF PaidByOne
  <2>1. CASE p \in S
    <3>1. Receipts(p) = {}
      <4>1. Receipts(p) # {} => Exists(p)
        BY <1>2 DEF Receipts, Purchases
      <4> QED
        BY <2>1, <4>1, NotPaidBefore DEF Bought
    <3> QED
      BY <1>6, <3>1
  <2>2. CASE p \notin S
    <3>1. Receipts(p)' = Receipts(p)
      BY <1>6, <2>2
    <3> QED
      BY <2>2, <3>1, KeptIsPaidByOne
  <2> QED
    BY <2>1, <2>2
<1>10. LastAsPriced'
  <2> SUFFICES ASSUME NEW p \in Permits, NEW u \in Txns, IsLast(u, p)',
                      \/ permit'[p].status = "WAITING_PAYMENT"
                      \/ /\ permit'[p].status \in {"PAYMENT_COMPLETE", "ISSUED"}
                         /\ txn'[u].receipts > 0
               PROVE  txn'[u].priced[p] = permit'[p].data
    BY DEF LastAsPriced
  <2>1. CASE p \in S
    <3>1. \A v \in Purchases(p) : v < t
      BY <1>3 DEF Purchases, UsedTxns, Inserted, IsNextTxn, Txns
    <3>2. u = t
      BY <1>5, <2>1, <3>1 DEF IsLast, Txns
    <3> QED
      BY <2>1, <3>2 DEF Bought
  <2>2. CASE p \notin S
    <3>1. IsLast(u, p) /\ u # t
      BY <1>3, <1>5, <2>2 DEF IsLast
    <3>2. txn'[u] = txn[u]
      BY <3>1 DEF Inserted
    <3> QED
      BY <2>2, <3>1, <3>2, KeptIsPriced
  <2> QED
    BY <2>1, <2>2
<1> QED
  BY <1>7, <1>8, <1>9, <1>10

LEMMA RefundKeepsTxns ==
    ASSUME TypeOK, RowsInv, TxnsInv, NEW t \in Txns, NEW S,
           Inserted(t, S, "REFUND"),
           \A p \in Permits : RowKept(p),
           \A p \in S : Exists(p)'
    PROVE  TxnsInv'
<1> USE DEF TxnsInv
<1>1. \A u \in Txns : txn[u].permits \subseteq Permits
  BY DEF TypeOK, Txn
<1>2. \A u \in Txns : \A p \in txn[u].permits : Exists(p)
  BY DEF UsedTxns
<1>3. \A p \in Permits : t \notin Purchases(p) /\ t \notin Purchases(p)'
  BY DEF Inserted, IsNextTxn, Purchases
<1>4. \A p \in Permits : Purchases(p)' = Purchases(p) /\ Receipts(p)' = Receipts(p)
  BY <1>3 DEF Purchases, Receipts, Inserted
<1>5. UsedTxns' /\ OneReceipt'
  BY InsertedKeepsUsed DEF RowKept
<1>6. PaidAreSettled'
  BY <1>1, <1>2 DEF PaidAreSettled, Inserted, RowKept
<1>7. PaidByOne'
  BY <1>4, KeptIsPaidByOne DEF PaidByOne
<1>8. LastAsPriced'
  <2>1. \A p \in Permits, u \in Txns :
          IsLast(u, p)' => IsLast(u, p) /\ txn'[u] = txn[u]
    BY <1>3, <1>4 DEF IsLast, Inserted
  <2> QED
    BY <2>1, KeptIsPriced DEF LastAsPriced
<1> QED
  BY <1>5, <1>6, <1>7, <1>8

\* updateTransactions with an approved payment.
LEMMA ApprovalKeepsTxns ==
    ASSUME TypeOK, RowsInv, TxnsInv, NEW t \in Txns, txn[t].method = "WEB",
           \A u \in Txns \ {t} : txn'[u] = txn[u],
           txn'[t].method = "WEB", txn'[t].permits = txn[t].permits,
           txn'[t].priced = txn[t].priced, txn'[t].receipts = txn[t].receipts + 1,
           \A p \in Permits \ txn[t].permits : permit'[p] = permit[p],
           \A p \in txn[t].permits :
             /\ CallbackOK(p)
             /\ SameLine(p) /\ permit'[p].data = permit[p].data
             /\ permit'[p].status = "PAYMENT_COMPLETE"
    PROVE  TxnsInv'
<1> USE DEF TxnsInv
<1>1. \A u \in Txns : txn[u].permits \subseteq Permits
  BY DEF TypeOK, Txn
<1>2. \A p \in txn[t].permits : permit[p].status \in ActiveForIssuance
  BY DEF CallbackOK
<1>3. txn[t].receipts = 0
  <2>1. PICK p \in txn[t].permits : TRUE
    BY DEF UsedTxns
  <2>2. ~(txn[t].receipts > 0)
    BY <1>2, <2>1 DEF PaidAreSettled, Settled, ActiveForIssuance
  <2> QED
    BY <2>2 DEF TypeOK, Txn
<1>4. \A u \in Txns : /\ txn'[u].method = txn[u].method
                      /\ txn'[u].permits = txn[u].permits
                      /\ txn'[u].priced = txn[u].priced
  OBVIOUS
<1>5. \A p \in Permits : Purchases(p)' = Purchases(p)
  BY <1>4 DEF Purchases
<1>6. \A p \in Permits \ txn[t].permits : Receipts(p)' = Receipts(p)
  BY <1>5 DEF Receipts, Purchases
<1>7. UsedTxns'
  <2>1. \A p \in Permits : Exists(p) => Exists(p)'
    BY DEF Exists
  <2> QED
    BY <1>1, <1>4, <2>1 DEF UsedTxns
<1>8. OneReceipt'
  BY <1>3 DEF OneReceipt
<1>9. PaidAreSettled'
  BY <1>1, <1>4 DEF PaidAreSettled, Settled, SameLine
<1>10. PaidByOne'
  <2> SUFFICES ASSUME NEW p \in Permits,
                      permit'[p].number = NoNumber \/ permit'[p].status = "ISSUED"
               PROVE  \A u, v \in Receipts(p)' : u = v
    BY DEF PaidByOne
  <2>1. CASE p \in txn[t].permits
    <3>1. permit[p].number = NoNumber
      BY <2>1 DEF SameLine
    <3>2. Receipts(p) = {}
      BY <1>2, <2>1, <3>1, NotPaidBefore
    <3>3. \A u \in Receipts(p)' : u = t
      BY <1>5, <3>2 DEF Receipts, Purchases
    <3> QED
      BY <3>3
  <2>2. CASE p \notin txn[t].permits
    BY <1>6, <2>2 DEF PaidByOne
  <2> QED
    BY <2>1, <2>2
<1>11. LastAsPriced'
  <2> SUFFICES ASSUME NEW p \in Permits, NEW u \in Txns, IsLast(u, p)',
                      \/ permit'[p].status = "WAITING_PAYMENT"
                      \/ /\ permit'[p].status \in {"PAYMENT_COMPLETE", "ISSUED"}
                         /\ txn'[u].receipts > 0
               PROVE  txn'[u].priced[p] = permit'[p].data
    BY DEF LastAsPriced
  <2>1. IsLast(u, p)
    BY <1>5 DEF IsLast
  <2>2. CASE p \in txn[t].permits
    BY <1>4, <2>1, <2>2 DEF CallbackOK
  <2>3. CASE p \notin txn[t].permits
    <3>1. txn'[u] = txn[u]
      BY <2>1, <2>3 DEF IsLast, Purchases
    <3> QED
      BY <2>1, <2>3, <3>1 DEF LastAsPriced
  <2> QED
    BY <2>2, <2>3
<1> QED
  BY <1>7, <1>8, <1>9, <1>10, <1>11

\* updateTransactions with a declined one.
LEMMA DeclineKeepsTxns ==
    ASSUME TxnsInv, UNCHANGED permit,
           \A u \in Txns : /\ txn'[u].method = txn[u].method
                           /\ txn'[u].permits = txn[u].permits
                           /\ txn'[u].priced = txn[u].priced
                           /\ txn'[u].receipts = txn[u].receipts
    PROVE  TxnsInv'
<1> USE DEF TxnsInv
<1>1. \A p \in Permits : Purchases(p)' = Purchases(p) /\ Receipts(p)' = Receipts(p)
  BY DEF Purchases, Receipts
<1>2. UsedTxns' /\ OneReceipt'
  BY DEF UsedTxns, OneReceipt, Exists
<1>3. PaidAreSettled'
  BY DEF PaidAreSettled
<1>4. PaidByOne' /\ LastAsPriced'
  BY <1>1 DEF PaidByOne, LastAsPriced, IsLast
<1> QED
  BY <1>2, <1>3, <1>4

-----------------------------------------------------------------------------
(* Requests that begin, end, and wait while the cart is used               *)

LEMMA TablesUnchanged ==
    ASSUME TypeOK, RowsInv, TxnsInv, UNCHANGED <<permit, txn>>
    PROVE  RowsInv' /\ TxnsInv'
<1>1. \A p \in Permits : Moves(p) /\ RowKept(p)
  BY DEF Moves, SameLine, RowKept, Exists
<1> QED
  BY <1>1, MovesKeepRows, KeptTxns

LEMMA RequestEnds ==
    ASSUME OneRequest, TypeOK, NEW s \in Slots, End(s)
    PROVE  RequestsOK'
<1>1. \A u \in Slots : req'[u].op = "idle"
  BY DEF OneRequest, End, TypeOK, Idle
<1> QED
  BY <1>1 DEF RequestsOK, RequestOK

\* What a request that reads rows has in its slot.
LEMMA BeginFields ==
    ASSUME TypeOK, NEW s \in Slots, NEW op, NEW S, Begin(s, op, S)
    PROVE  /\ req'[s].op = op
           /\ req'[s].permits = S
           /\ \A p \in S \cap Permits : req'[s].snap[p] = permit[p]
BY DEF Begin, Idle, TypeOK, Snapshot

LEMMA AsReadNow == \A p \in Permits : AsRead(permit[p], p)
BY DEF AsRead

\* A request in a slot is the only one.
LEMMA TheRequest ==
    ASSUME OneRequest, NEW s \in Slots, RequestOK(req[s])'
    PROVE  RequestsOK'
BY DEF OneRequest, RequestsOK

\* What a user does with the cart.
Carted(p) ==
    /\ SameLine(p)
    /\ permit'[p].data = permit[p].data
    /\ \/ permit'[p].status = permit[p].status
       \/ /\ permit[p].status \in ActiveForIssuance
          /\ permit'[p].status \in {"IN_CART", "IN_PROGRESS"}

LEMMA CartedKeepsTables ==
    ASSUME TypeOK, RowsInv, TxnsInv, UNCHANGED txn, \A p \in Permits : Carted(p)
    PROVE  RowsInv' /\ TxnsInv'
<1>1. \A p \in Permits : Moves(p)
  BY DEF Carted, Moves, ActiveForIssuance
<1>2. \A p \in Permits : RowKept(p)
  BY DEF Carted, RowKept, SameLine, Exists, Settled, ActiveForIssuance
<1> QED
  BY <1>1, <1>2, MovesKeepRows, KeptTxns

LEMMA CartedKeepsRequests ==
    ASSUME TypeOK, CallbackAnswered, RequestsOK, UNCHANGED <<txn, req>>,
           \A p \in Permits : Carted(p)
    PROVE  RequestsOK'
<1>1. ASSUME NEW p \in Permits, NEW row, AsRead(row, p)
      PROVE  /\ row.orig = permit'[p].orig /\ row.prev = permit'[p].prev
             /\ row.rev = permit'[p].rev /\ row.number = permit'[p].number
             /\ row.data = permit'[p].data
             /\ \/ row.status = permit'[p].status
                \/ /\ row.status \in ActiveForIssuance
                   /\ permit'[p].status \in ActiveForIssuance
  BY <1>1 DEF AsRead, Carted, SameLine, ActiveForIssuance
<1>2. \A s \in Slots, p \in Permits :
        AsRead(req[s].snap[p], p) => AsRead(req[s].snap[p], p)'
  BY <1>1 DEF AsRead
<1>3. \A p \in Permits :
        permit[p].status \in ActiveForIssuance => permit'[p].status \in ActiveForIssuance
  BY DEF Carted, ActiveForIssuance
<1>4. \A p \in Permits : Exists(p) => Exists(p)'
  BY DEF Carted, Exists
<1>5. \A o : OpenOf(o)' = OpenOf(o)
  BY <1>3 DEF OpenOf, Carted, SameLine
<1>6. \A p \in Permits, t \in Txns : IsLast(t, p)' = IsLast(t, p)
  BY DEF IsLast, Purchases
<1>7. ASSUME NEW s \in Slots
      PROVE  RequestOK(req[s])'
  <2> DEFINE r == req[s]
  <2>1. r \in Requests /\ RequestOK(r) /\ r' = r
    BY DEF TypeOK, RequestsOK
  <2>2. CASE r.op = "create"
    BY <1>3, <2>1, <2>2 DEF RequestOK, CreateOK, Carted, SameLine
  <2>3. CASE r.op = "amend"
    BY <1>2, <1>5, <2>1, <2>3 DEF RequestOK, AmendOK
  <2>4. CASE r.op = "update"
    BY <2>1, <2>4 DEF RequestOK, Carted
  <2>5. CASE r.op = "delete"
    BY <1>2, <2>1, <2>5 DEF RequestOK, DeleteOK
  <2>6. CASE r.op = "checkout"
    BY <1>2, <2>1, <2>6 DEF RequestOK, CheckoutOK, Requests
  <2>7. CASE r.op = "refund"
    BY <1>4, <2>1, <2>7 DEF RequestOK
  <2>8. CASE r.op = "issue"
    BY <1>2, <2>1, <2>8 DEF RequestOK, IssueOK
  <2>9. CASE r.op = "void"
    BY <1>2, <2>1, <2>9 DEF RequestOK, VoidOK
  <2>10. CASE r.op = "idle"
    BY <2>1, <2>10 DEF RequestOK
  <2>11. ASSUME NEW p \in Permits, CallbackOK(p)
         PROVE  CallbackOK(p)'
    BY <1>3, <1>6, <2>11 DEF CallbackOK, Carted
  <2>12. CASE r.op = "callback"
    <3>1. \A p \in txn[r.txn].permits : CallbackOK(p)
      BY <2>1, <2>12 DEF RequestOK
    <3>2. r.txn \in Txns /\ txn[r.txn].permits \subseteq Permits
      BY <2>12 DEF CallbackAnswered, TypeOK, Txn
    <3>3. \A p \in txn'[r.txn].permits : CallbackOK(p)'
      BY <2>11, <3>1, <3>2
    <3> QED
      BY <2>1, <2>12, <3>3 DEF RequestOK
  <2> QED
    BY <2>1, <2>2, <2>3, <2>4, <2>5, <2>6, <2>7, <2>8, <2>9, <2>10, <2>12
       DEF Requests, Ops
<1> QED
  BY <1>7 DEF RequestsOK

-----------------------------------------------------------------------------
(* The handlers, one at a time                                             *)

SerialKept == RowsInv' /\ TxnsInv' /\ RequestsOK'

RowsMove == \A p \in Permits : Moves(p)

\* A new row of the permit table: an application that revises o, or nothing.
Opened(q, o) ==
    /\ permit[q].status = "NONE"
    /\ permit'[q].status = "IN_PROGRESS"
    /\ permit'[q].prev = o /\ permit'[q].number = NoNumber
    /\ \A p \in Permits \ {q} : permit'[p] = permit[p]

LEMMA OnlyBegins ==
    ASSUME OneRequest, SerialInv, NEW s \in Slots, UNCHANGED <<permit, txn>>,
           RequestOK(req[s])'
    PROVE  SerialKept
BY TablesUnchanged, TheRequest DEF SerialInv, PaymentInv, SerialKept

LEMMA EndsSlot ==
    ASSUME OneRequest, SerialInv, NEW s \in Slots, End(s), RowsInv', TxnsInv'
    PROVE  SerialKept
BY RequestEnds DEF SerialInv, PaymentInv, SerialKept

LEMMA CreateBegins ==
    ASSUME OneRequest, SerialInv, NEW s \in Slots, BeginCreate(s)
    PROVE  SerialKept /\ \E q \in Permits : Opened(q, NoId)
<1> USE DEF SerialInv, PaymentInv
<1>1. PICK q \in Permits, d \in Data :
        /\ IsNextPermit(q)
        /\ permit' = [permit EXCEPT ![q] =
                        [NoRow EXCEPT !.status = "IN_PROGRESS", !.data = d]]
        /\ Begin(s, "create", {q})
  BY DEF BeginCreate
<1>2. /\ permit'[q].status = "IN_PROGRESS" /\ permit'[q].number = NoNumber
      /\ permit'[q].orig = NoId /\ permit'[q].prev = NoId
      /\ \A p \in Permits \ {q} : permit'[p] = permit[p]
  BY <1>1 DEF NoRow, TypeOK
<1>3. permit[q].status = "NONE"
  BY <1>1 DEF IsNextPermit
<1>4. RowsInv'
  BY <1>2, <1>3, CreateKeepsRows
<1>5. TxnsInv'
  <2>1. \A p \in Permits : RowKept(p)
    BY <1>2, <1>3 DEF RowKept, Exists
  <2> QED
    BY <2>1, KeptTxns DEF BeginCreate
<1>6. RequestOK(req[s])'
  <2>1. req'[s].op = "create" /\ req'[s].permits = {q}
    BY <1>1, BeginFields
  <2> QED
    BY <1>2, <2>1 DEF RequestOK, CreateOK, ActiveForIssuance
<1> QED
  BY <1>2, <1>3, <1>4, <1>5, <1>6, TheRequest DEF SerialKept, Opened

LEMMA CreateEnds ==
    ASSUME OneRequest, SerialInv, NEW s \in Slots, AssignOriginal(s)
    PROVE  SerialKept
<1> USE DEF SerialInv, PaymentInv
<1>1. PICK q \in Permits : req[s].permits = {q} /\ CreateOK(q)
  BY DEF AssignOriginal, RequestsOK, RequestOK
<1>2. /\ permit'[q] = [permit[q] EXCEPT !.orig = q]
      /\ \A p \in Permits \ {q} : permit'[p] = permit[p]
  BY <1>1 DEF AssignOriginal
<1>3. /\ permit'[q].orig = q /\ permit'[q].prev = permit[q].prev
      /\ permit'[q].rev = permit[q].rev /\ permit'[q].number = permit[q].number
      /\ permit'[q].status = permit[q].status /\ permit'[q].data = permit[q].data
  BY <1>2 DEF TypeOK, Row
<1>4. RowsInv'
  BY <1>1, <1>2, <1>3, AssignKeepsRows
<1>5. TxnsInv'
  <2>1. \A p \in Permits : RowKept(p)
    BY <1>2, <1>3 DEF RowKept, Exists
  <2> QED
    BY <2>1, KeptTxns DEF AssignOriginal
<1> QED
  BY <1>4, <1>5, EndsSlot DEF AssignOriginal

LEMMA AmendBegins ==
    ASSUME OneRequest, SerialInv, NEW s \in Slots, BeginAmend(s)
    PROVE  SerialKept
<1> USE DEF SerialInv, PaymentInv
<1>1. PICK p \in Permits :
        /\ permit[p].number # NoNumber /\ permit[p].rev < MaxRevision
        /\ ActiveApplications(permit[p].orig) = {}
        /\ Begin(s, "amend", {p})
  BY DEF BeginAmend
<1>2. /\ req'[s].op = "amend" /\ req'[s].permits = {p}
      /\ req'[s].snap[p] = permit[p]
  BY <1>1, BeginFields
<1>3. UNCHANGED <<permit, txn>>
  BY DEF BeginAmend
<1>4. OpenOf(permit[p].orig) = {}
  BY <1>1 DEF OpenOf, ActiveApplications
<1>5. AmendOK(req[s].snap[p], p)'
  BY <1>1, <1>2, <1>3, <1>4, AsReadNow DEF AmendOK, AsRead, OpenOf
<1>6. RequestOK(req[s])'
  BY <1>2, <1>5 DEF RequestOK
<1> QED
  BY <1>3, <1>6, OnlyBegins

LEMMA AmendEnds ==
    ASSUME OneRequest, SerialInv, NEW s \in Slots, InsertAmendment(s)
    PROVE  SerialKept /\ \E q, o \in Permits :
                            permit[o].number # NoNumber /\ Opened(q, o)
<1> USE DEF SerialInv, PaymentInv
<1>1. PICK o \in Permits : req[s].permits = {o} /\ AmendOK(req[s].snap[o], o)
  BY DEF InsertAmendment, RequestsOK, RequestOK
<1>2. PICK q \in Permits, d \in Data :
        /\ IsNextPermit(q)
        /\ permit' = [permit EXCEPT ![q] =
                        [status |-> "IN_PROGRESS", orig |-> req[s].snap[o].orig,
                         prev |-> o, rev |-> req[s].snap[o].rev + 1,
                         number |-> NoNumber, data |-> d]]
  BY <1>1 DEF InsertAmendment
<1>3. /\ permit'[q].status = "IN_PROGRESS" /\ permit'[q].number = NoNumber
      /\ permit'[q].orig = req[s].snap[o].orig /\ permit'[q].prev = o
      /\ \A p \in Permits \ {q} : permit'[p] = permit[p]
  BY <1>2 DEF TypeOK
<1>4. permit[q].status = "NONE"
  BY <1>2 DEF IsNextPermit
<1>5. RowsInv'
  BY <1>1, <1>3, <1>4, AmendKeepsRows DEF AmendOK, AsRead
<1>6. TxnsInv'
  <2>1. \A p \in Permits : RowKept(p)
    BY <1>3, <1>4 DEF RowKept, Exists
  <2> QED
    BY <2>1, KeptTxns DEF InsertAmendment
<1>7. permit[o].number # NoNumber /\ Opened(q, o)
  BY <1>1, <1>3, <1>4 DEF AmendOK, AsRead, Opened
<1> QED
  BY <1>7, <1>5, <1>6, EndsSlot DEF InsertAmendment

LEMMA UpdateBegins ==
    ASSUME OneRequest, SerialInv, NEW s \in Slots, BeginUpdate(s)
    PROVE  SerialKept
<1> USE DEF SerialInv, PaymentInv
<1>1. PICK p \in Permits, d \in Data :
        /\ permit[p].status = "IN_PROGRESS"
        /\ req' = [req EXCEPT ![s] = [Idle EXCEPT !.op = "update",
                                                  !.permits = {p}, !.data = d]]
  BY DEF BeginUpdate
<1>2. req'[s].op = "update" /\ req'[s].permits = {p}
  BY <1>1 DEF Idle, TypeOK
<1>3. UNCHANGED <<permit, txn>>
  BY DEF BeginUpdate
<1>4. RequestOK(req[s])'
  BY <1>1, <1>2, <1>3 DEF RequestOK
<1> QED
  BY <1>3, <1>4, OnlyBegins

LEMMA UpdateEnds ==
    ASSUME OneRequest, SerialInv, NEW s \in Slots, CommitUpdate(s)
    PROVE  SerialKept /\ RowsMove
<1> USE DEF SerialInv, PaymentInv
<1>1. PICK q \in Permits :
        req[s].permits = {q} /\ permit[q].status \in {"IN_PROGRESS", "IN_CART"}
  BY DEF CommitUpdate, RequestsOK, RequestOK
<1>2. /\ permit'[q] = [permit[q] EXCEPT !.data = req[s].data]
      /\ \A p \in Permits \ {q} : permit'[p] = permit[p]
  BY <1>1 DEF CommitUpdate
<1>3. SameLine(q) /\ permit'[q].status = permit[q].status
  BY <1>2 DEF SameLine, TypeOK, Row
<1>4. \A p \in Permits : Moves(p) /\ RowKept(p)
  BY <1>1, <1>2, <1>3 DEF Moves, SameLine, RowKept, Exists
<1>5. RowsInv' /\ TxnsInv'
  BY <1>4, MovesKeepRows, KeptTxns DEF CommitUpdate
<1> QED
  BY <1>4, <1>5, EndsSlot DEF CommitUpdate, RowsMove

LEMMA DeleteBegins ==
    ASSUME OneRequest, SerialInv, NEW s \in Slots, BeginDelete(s)
    PROVE  SerialKept
<1> USE DEF SerialInv, PaymentInv
<1>1. PICK p \in Permits :
        /\ permit[p].status \in ActiveStatus
        /\ permit[p].number = NoNumber
        /\ Begin(s, "delete", {p})
  BY DEF BeginDelete
<1>2. /\ req'[s].op = "delete" /\ req'[s].permits = {p}
      /\ req'[s].snap[p] = permit[p]
  BY <1>1, BeginFields
<1>3. UNCHANGED <<permit, txn>>
  BY DEF BeginDelete
<1>4. DeleteOK(req[s].snap[p], p)'
  BY <1>1, <1>2, <1>3, AsReadNow DEF DeleteOK, AsRead
<1>5. RequestOK(req[s])'
  BY <1>2, <1>4 DEF RequestOK
<1> QED
  BY <1>3, <1>5, OnlyBegins

LEMMA DeleteEnds ==
    ASSUME OneRequest, SerialInv, NEW s \in Slots, CommitDelete(s)
    PROVE  SerialKept /\ RowsMove
<1> USE DEF SerialInv, PaymentInv
<1>1. PICK q \in Permits : req[s].permits = {q} /\ DeleteOK(req[s].snap[q], q)
  BY DEF CommitDelete, RequestsOK, RequestOK
<1>2. /\ permit'[q] = [req[s].snap[q] EXCEPT !.status = "CANCELLED",
                                             !.data = permit[q].data]
      /\ \A p \in Permits \ {q} : permit'[p] = permit[p]
  BY <1>1 DEF CommitDelete
<1>3. SameLine(q) /\ permit'[q].status = "CANCELLED" /\ permit[q].number = NoNumber
  BY <1>1, <1>2 DEF SameLine, DeleteOK, AsRead, TypeOK, Requests, Row
<1>4. permit[q].status \in ActiveForIssuance
  BY <1>1 DEF DeleteOK, AsRead, ActiveStatus, ActiveForIssuance
<1>5. \A p \in Permits : Moves(p) /\ RowKept(p)
  BY <1>2, <1>3, <1>4 DEF Moves, SameLine, RowKept, Exists, Settled, ActiveForIssuance
<1>6. RowsInv' /\ TxnsInv'
  BY <1>5, MovesKeepRows, KeptTxns DEF CommitDelete
<1> QED
  BY <1>5, <1>6, EndsSlot DEF CommitDelete, RowsMove

\* What an insert into the transaction table writes.
LEMMA NewTxnInserts ==
    ASSUME TypeOK, NEW t \in Txns, IsNextTxn(t), NEW S \in SUBSET Permits, S # {},
           NEW m \in Methods, NEW rows, NEW pg, NewTxn(t, S, rows, m, pg)
    PROVE  /\ Inserted(t, S, m)
           /\ \A p \in S : txn'[t].priced[p] = rows[p].data
<1> DEFINE priced == [p \in Permits |-> IF p \in S THEN rows[p].data ELSE SomeData]
           row == [NoTxn EXCEPT !.method = m, !.permits = S, !.pgApproved = pg,
                                !.priced = priced,
                                !.receipts = IF m = "WEB" THEN 0 ELSE 1]
<1>1. txn'[t] = row /\ \A u \in Txns \ {t} : txn'[u] = txn[u]
  BY DEF NewTxn, TypeOK
<1>2. /\ row.method = m /\ row.permits = S /\ row.priced = priced
      /\ row.receipts = IF m = "WEB" THEN 0 ELSE 1
  BY DEF NoTxn
<1>3. \A p \in S : priced[p] = rows[p].data
  OBVIOUS
<1> QED
  BY <1>1, <1>2, <1>3 DEF Inserted

LEMMA CheckoutBegins ==
    ASSUME OneRequest, SerialInv, NEW s \in Slots, BeginCheckout(s)
    PROVE  SerialKept
<1> USE DEF SerialInv, PaymentInv
<1>1. PICK S \in (SUBSET Permits) \ {{}}, m \in PayMethods :
        /\ \A p \in S : Payable(p, permit[p])
        /\ req' = [req EXCEPT ![s] =
                    [Idle EXCEPT !.op = "checkout", !.permits = S,
                                 !.snap = Snapshot(S), !.method = m]]
  BY DEF BeginCheckout
<1>2. /\ req'[s].op = "checkout" /\ req'[s].permits = S /\ req'[s].method = m
      /\ \A p \in S : req'[s].snap[p] = permit[p]
  BY <1>1 DEF Idle, TypeOK, Snapshot
<1>3. UNCHANGED <<permit, txn>>
  BY DEF BeginCheckout
<1>4. \A p \in S : permit[p].status \in {"VOIDED", "IN_CART", "IN_PROGRESS"}
  BY <1>1 DEF Payable, IsAmendmentApplication
<1>5. \A p \in S : CheckoutOK(req[s].snap[p], p)'
  BY <1>2, <1>3, <1>4 DEF CheckoutOK, AsRead
<1>6. /\ req'[s].permits # {} /\ req'[s].method \in {"WEB", "OTHER"}
      /\ \A p \in req'[s].permits : CheckoutOK(req[s].snap[p], p)'
  BY <1>1, <1>2, <1>5, PayMethodsAssumption
<1>7. RequestOK(req[s])'
  BY <1>2, <1>6 DEF RequestOK
<1> QED
  BY <1>3, <1>7, OnlyBegins

LEMMA CheckoutEnds ==
    ASSUME OneRequest, SerialInv, NEW s \in Slots, CommitCheckout(s)
    PROVE  SerialKept /\ RowsMove
<1> USE DEF SerialInv, PaymentInv
<1> DEFINE S == req[s].permits
           m == req[s].method
           row(p) == req[s].snap[p]
<1>1. /\ S \in SUBSET Permits /\ S # {} /\ m \in {"WEB", "OTHER"}
      /\ \A p \in S : CheckoutOK(row(p), p) /\ row(p) \in Row
  BY DEF CommitCheckout, RequestsOK, RequestOK, TypeOK, Requests
<1>2. PICK t \in Txns : IsNextTxn(t) /\ NewTxn(t, S, req[s].snap, m, "null")
  BY DEF CommitCheckout
<1>3. Inserted(t, S, m) /\ \A p \in S : txn'[t].priced[p] = row(p).data
  <2>1. TypeOK /\ m \in Methods
    BY <1>1 DEF Methods
  <2> HIDE DEF S, m, SerialInv, PaymentInv
  <2> QED
    BY <1>1, <1>2, <2>1, NewTxnInserts
<1>4. \A p \in Permits :
        permit'[p] = IF p \in S /\ SavesPermit(row(p), m)
                     THEN PurchasedRow(row(p), m) ELSE permit[p]
  BY DEF CommitCheckout
<1> HIDE DEF S, m, row
<1>5. ASSUME NEW p \in S
      PROVE  /\ SameLine(p) /\ permit'[p].data = row(p).data
             /\ permit[p].status \in ActiveForIssuance \cup {"VOIDED"}
             /\ \/ m = "WEB" /\ permit'[p].status = "WAITING_PAYMENT"
                \/ m = "OTHER" /\ permit'[p].status = "PAYMENT_COMPLETE"
                \/ m = "OTHER" /\ permit[p].status = "VOIDED" /\ permit'[p].status = "VOIDED"
  <2>1. /\ AsRead(row(p), p)
        /\ row(p).status \in {"VOIDED", "IN_CART", "IN_PROGRESS"} /\ row(p) \in Row
    BY <1>1 DEF CheckoutOK
  <2>2. permit[p].status \in ActiveForIssuance \cup {"VOIDED"}
    BY <2>1 DEF AsRead, ActiveForIssuance
  <2>3. CASE SavesPermit(row(p), m)
    BY <1>1, <1>4, <2>1, <2>2, <2>3 DEF PurchasedRow, Row, AsRead, SameLine
  <2>4. CASE ~SavesPermit(row(p), m)
    BY <1>1, <1>4, <2>1, <2>2, <2>4 DEF SavesPermit, AsRead, SameLine, ActiveForIssuance
  <2> QED
    BY <2>3, <2>4
<1>6. \A p \in Permits \ S : Moves(p) /\ RowKept(p)
  BY <1>4 DEF Moves, SameLine, RowKept, Exists
<1>7. \A p \in S : Moves(p)
  BY <1>5 DEF Moves, ActiveForIssuance
<1>8. \A p \in S : Bought(t, p, m)
  BY <1>1, <1>3, <1>5 DEF Bought, Exists, SameLine, Settled, RowsInv, NumberedRows
<1>9. RowsInv'
  BY <1>6, <1>7, MovesKeepRows
<1>10. TxnsInv'
  BY <1>1, <1>3, <1>6, <1>8, PurchaseKeepsTxns
<1> QED
  BY <1>6, <1>7, <1>9, <1>10, EndsSlot DEF CommitCheckout, RowsMove

LEMMA RefundBegins ==
    ASSUME OneRequest, SerialInv, NEW s \in Slots, BeginRefund(s)
    PROVE  SerialKept
<1> USE DEF SerialInv, PaymentInv
<1>1. PICK p \in Permits : Payable(p, permit[p]) /\ Begin(s, "refund", {p})
  BY DEF BeginRefund
<1>2. req'[s].op = "refund" /\ req'[s].permits = {p}
  BY <1>1, BeginFields
<1>3. UNCHANGED <<permit, txn>>
  BY DEF BeginRefund
<1>4. Exists(p)'
  BY <1>1, <1>3 DEF Exists, Payable, IsAmendmentApplication
<1>5. RequestOK(req[s])'
  BY <1>2, <1>4 DEF RequestOK
<1> QED
  BY <1>3, <1>5, OnlyBegins

LEMMA RefundEnds ==
    ASSUME OneRequest, SerialInv, NEW s \in Slots, CommitRefund(s)
    PROVE  SerialKept
<1> USE DEF SerialInv, PaymentInv
<1>1. PICK q \in Permits : req[s].permits = {q} /\ Exists(q)
  BY DEF CommitRefund, RequestsOK, RequestOK
<1>2. PICK t \in Txns :
        IsNextTxn(t) /\ NewTxn(t, {q}, req[s].snap, "REFUND", "null")
  BY <1>1 DEF CommitRefund
<1>3. Inserted(t, {q}, "REFUND")
  BY <1>2, NewTxnInserts DEF Methods
<1>4. UNCHANGED permit
  BY DEF CommitRefund
<1>5. \A p \in Permits : Moves(p) /\ RowKept(p)
  BY <1>4 DEF Moves, SameLine, RowKept, Exists
<1>6. Exists(q)'
  BY <1>1, <1>4 DEF Exists
<1>7. RowsInv' /\ TxnsInv'
  BY <1>3, <1>5, <1>6, MovesKeepRows, RefundKeepsTxns
<1> QED
  BY <1>7, EndsSlot DEF CommitRefund

LEMMA CallbackBegins ==
    ASSUME OneRequest, SerialInv, NEW s \in Slots, BeginCallback(s)
    PROVE  SerialKept
<1> USE DEF SerialInv, PaymentInv
<1>1. PICK t \in Txns :
        /\ \A p \in txn[t].permits : permit[p].status = "WAITING_PAYMENT"
        /\ req' = [req EXCEPT ![s] = [Idle EXCEPT !.op = "callback", !.txn = t]]
  BY DEF BeginCallback
<1>2. req'[s].op = "callback" /\ req'[s].txn = t
  BY <1>1 DEF Idle, TypeOK
<1>3. UNCHANGED <<permit, txn>>
  BY DEF BeginCallback
<1>4. txn[t].permits \subseteq Permits
  BY DEF TypeOK, Txn
<1>5. \A p \in txn[t].permits : CallbackOK(p)
  BY <1>1, <1>4 DEF CallbackOK, TxnsInv, LastAsPriced, ActiveForIssuance
<1>6. \A p \in txn'[t].permits : CallbackOK(p)'
  BY <1>3, <1>5 DEF CallbackOK, IsLast, Purchases
<1>7. RequestOK(req[s])'
  BY <1>2, <1>6 DEF RequestOK
<1> QED
  BY <1>3, <1>7, OnlyBegins

LEMMA CallbackApproves ==
    ASSUME OneRequest, SerialInv, NEW s \in Slots, CommitApproved(s)
    PROVE  SerialKept /\ RowsMove
<1> USE DEF SerialInv, PaymentInv
<1> DEFINE t == req[s].txn
<1>1. /\ t \in Txns /\ txn[t].method = "WEB"
      /\ \A p \in txn[t].permits : CallbackOK(p)
  BY DEF CommitApproved, CallbackAnswered, AnsweredIsWeb, RequestsOK, RequestOK
<1>2. /\ \A u \in Txns \ {t} : txn'[u] = txn[u]
      /\ txn'[t].method = "WEB" /\ txn'[t].permits = txn[t].permits
      /\ txn'[t].priced = txn[t].priced
      /\ txn'[t].receipts = txn[t].receipts + 1
  BY <1>1 DEF CommitApproved, TypeOK, Txn
<1>3. txn[t].permits \subseteq Permits
  BY <1>1 DEF TypeOK, Txn
<1>4. /\ \A p \in Permits \ txn[t].permits : permit'[p] = permit[p]
      /\ \A p \in txn[t].permits :
            permit'[p] = [permit[p] EXCEPT !.status = "PAYMENT_COMPLETE"]
  BY <1>3 DEF CommitApproved
<1> HIDE DEF t
<1>5. \A p \in txn[t].permits :
        /\ SameLine(p) /\ permit'[p].data = permit[p].data
        /\ permit'[p].status = "PAYMENT_COMPLETE"
  <2>1. \A p \in txn[t].permits : permit[p] \in Row
    BY <1>3 DEF TypeOK
  <2> QED
    BY <1>4, <2>1 DEF SameLine, Row
<1>6. \A p \in Permits : Moves(p)
  BY <1>1, <1>4, <1>5 DEF Moves, SameLine, CallbackOK
<1>7. RowsInv' /\ TxnsInv'
  BY <1>1, <1>2, <1>4, <1>5, <1>6, MovesKeepRows, ApprovalKeepsTxns
<1> QED
  BY <1>6, <1>7, EndsSlot DEF CommitApproved, RowsMove

LEMMA CallbackDeclines ==
    ASSUME OneRequest, SerialInv, NEW s \in Slots, CommitDeclined(s)
    PROVE  SerialKept
<1> USE DEF SerialInv, PaymentInv
<1>1. req[s].txn \in Txns
  BY DEF CommitDeclined, CallbackAnswered
<1>2. \A u \in Txns : /\ txn'[u].method = txn[u].method
                      /\ txn'[u].permits = txn[u].permits
                      /\ txn'[u].priced = txn[u].priced
                      /\ txn'[u].receipts = txn[u].receipts
  BY <1>1 DEF CommitDeclined, TypeOK, Txn
<1>3. UNCHANGED permit
  BY DEF CommitDeclined
<1>4. \A p \in Permits : Moves(p)
  BY <1>3 DEF Moves, SameLine
<1>5. RowsInv' /\ TxnsInv'
  BY <1>2, <1>3, <1>4, MovesKeepRows, DeclineKeepsTxns
<1> QED
  BY <1>5, EndsSlot DEF CommitDeclined

\* The number of a permit is made from the revision before it.
LEMMA IssueBegins ==
    ASSUME OneRequest, SerialInv, NEW s \in Slots, BeginIssue(s)
    PROVE  SerialKept
<1> USE DEF SerialInv, PaymentInv
<1>1. PICK p \in Permits :
        /\ ReadyForIssuance(permit[p])
        /\ permit[p].orig = p \/ permit[p].prev # NoId
        /\ req' = [req EXCEPT ![s] =
                     [Idle EXCEPT !.op = "issue", !.permits = {p},
                        !.snap = Snapshot({p}),
                        !.number = NextNumber(NumberSource(p, permit[p]))]]
  BY DEF BeginIssue
<1>2. /\ req'[s].op = "issue" /\ req'[s].permits = {p}
      /\ req'[s].snap[p] = permit[p]
      /\ req'[s].number = NextNumber(NumberSource(p, permit[p]))
  BY <1>1 DEF Idle, TypeOK, Snapshot
<1>3. UNCHANGED <<permit, txn>>
  BY DEF BeginIssue
<1>4. permit[p].number = NoNumber /\ permit[p].orig # NoId
  BY <1>1, NoIdIsNoRow DEF ReadyForIssuance, RowsInv, Lineage
<1>5. NextNumber(NumberSource(p, permit[p])) \in 0..MaxRevision
  <2>1. CASE permit[p].orig = p
    BY <1>4, <2>1, BoundsAssumption DEF NextNumber, NumberSource
  <2>2. CASE permit[p].orig # p
    <3> DEFINE o == permit[p].prev
    <3>1. o \in Permits /\ permit[o].number # NoNumber /\ permit[o].rev < MaxRevision
      BY <1>1, <2>2 DEF RowsInv, Lineage, TypeOK, Row
    <3>2. permit[o].rev \in Nat
      BY <3>1 DEF TypeOK, Row
    <3> QED
      BY <2>2, <3>1, <3>2, BoundsAssumption DEF NextNumber, NumberSource
  <2> QED
    BY <2>1, <2>2
<1>6. IssueOK(req[s].snap[p], p, req[s].number)'
  BY <1>2, <1>3, <1>4, <1>5 DEF IssueOK, AsRead
<1>7. RequestOK(req[s])'
  BY <1>2, <1>6 DEF RequestOK
<1> QED
  BY <1>3, <1>7, OnlyBegins

\* What issuePermits writes.
Entered(q, n) ==
    /\ permit[q].number = NoNumber /\ permit[q].orig # NoId
    /\ n \in 0..MaxRevision
    /\ permit'[q].orig = permit[q].orig /\ permit'[q].prev = permit[q].prev
    /\ permit'[q].rev = permit[q].rev /\ permit'[q].data = permit[q].data
    /\ permit'[q].number = n /\ permit'[q].status = "ISSUED"
    /\ \A p \in Permits \ {q} :
         /\ SameLine(p) /\ permit'[p].data = permit[p].data
         /\ permit'[p].status = IF p = permit[q].prev THEN "SUPERSEDED"
                                ELSE permit[p].status

LEMMA IssueWrites ==
    ASSUME SerialInv, NEW s \in Slots, CommitIssue(s)
    PROVE  \E q \in Permits : req[s].permits = {q} /\ Entered(q, req[s].number)
<1> USE DEF SerialInv, PaymentInv
<1>1. PICK q \in Permits :
        req[s].permits = {q} /\ IssueOK(req[s].snap[q], q, req[s].number)
  BY DEF CommitIssue, RequestsOK, RequestOK
<1> DEFINE n == req[s].number
           o == permit[q].prev
<1>2. /\ permit[q].number = NoNumber /\ permit[q].orig # NoId
      /\ n \in 0..MaxRevision /\ req[s].snap[q].prev = o
  BY <1>1 DEF IssueOK, AsRead
<1>3. o # q
  BY NoIdIsNoRow DEF RowsInv, Lineage
<1>4. {req[s].snap[p].prev : p \in req[s].permits} = {o}
  BY <1>1, <1>2
<1>5. permit' = [p \in Permits |->
                    CASE p \in {q} ->
                           [permit[p] EXCEPT !.status = "ISSUED", !.number = n]
                      [] p \in {o} \ {q} ->
                           [permit[p] EXCEPT !.status = "SUPERSEDED"]
                      [] OTHER -> permit[p]]
  BY <1>1, <1>4 DEF CommitIssue
<1> HIDE DEF n, o
<1>6. permit'[q] = [permit[q] EXCEPT !.status = "ISSUED", !.number = n]
  BY <1>5
<1>7. \A p \in Permits \ {q} :
        permit'[p] = IF p = o THEN [permit[p] EXCEPT !.status = "SUPERSEDED"]
                     ELSE permit[p]
  BY <1>5
<1>8. \A p \in Permits : permit[p] \in Row
  BY DEF TypeOK
<1>9. \A p \in Permits \ {q} :
        /\ SameLine(p) /\ permit'[p].data = permit[p].data
        /\ permit'[p].status = IF p = o THEN "SUPERSEDED" ELSE permit[p].status
  BY <1>7, <1>8 DEF SameLine, Row
<1>10. /\ permit'[q].orig = permit[q].orig /\ permit'[q].prev = permit[q].prev
       /\ permit'[q].rev = permit[q].rev /\ permit'[q].data = permit[q].data
       /\ permit'[q].number = n /\ permit'[q].status = "ISSUED"
  BY <1>6, <1>8 DEF Row
<1> QED
  BY <1>1, <1>2, <1>9, <1>10 DEF Entered, n, o

LEMMA IssueEnds ==
    ASSUME OneRequest, SerialInv, NEW s \in Slots, CommitIssue(s)
    PROVE  SerialKept
<1> USE DEF SerialInv, PaymentInv
<1>1. PICK q \in Permits : Entered(q, req[s].number)
  BY IssueWrites
<1>2. permit'[q].number # NoNumber
  BY <1>1, NumbersAreNat DEF Entered
<1>3. RowsInv'
  BY <1>1, <1>2, IssueKeepsRows DEF Entered
<1>4. TxnsInv'
  <2>1. RowKept(q)
    BY <1>1, <1>2 DEF Entered, RowKept, Exists, Settled
  <2>2. \A p \in Permits \ {q} : RowKept(p)
    BY <1>1 DEF Entered, RowKept, SameLine, Exists, Settled
  <2> QED
    BY <2>1, <2>2, KeptTxns DEF CommitIssue
<1> QED
  BY <1>3, <1>4, EndsSlot DEF CommitIssue

LEMMA VoidBegins ==
    ASSUME OneRequest, SerialInv, NEW s \in Slots, BeginVoid(s)
    PROVE  SerialKept
<1> USE DEF SerialInv, PaymentInv
<1>1. PICK p \in Permits, m \in PayMethods \cup {"REFUND"} :
        /\ permit[p].status = "ISSUED" /\ permit[p].rev < MaxRevision
        /\ req' = [req EXCEPT ![s] =
                     [Idle EXCEPT !.op = "void", !.permits = {p},
                        !.snap = Snapshot({p}), !.method = m]]
  BY DEF BeginVoid
<1>2. /\ req'[s].op = "void" /\ req'[s].permits = {p}
      /\ req'[s].snap[p] = permit[p]
  BY <1>1 DEF Idle, TypeOK, Snapshot
<1>3. UNCHANGED <<permit, txn>>
  BY DEF BeginVoid
<1>4. VoidOK(req[s].snap[p], p)'
  BY <1>1, <1>2, <1>3 DEF VoidOK, AsRead
<1>5. RequestOK(req[s])'
  BY <1>2, <1>4 DEF RequestOK
<1> QED
  BY <1>3, <1>5, OnlyBegins

\* What voidPermit writes.
Voided(o, q, t, m) ==
    /\ permit[o].status = "ISSUED" /\ permit[o].rev < MaxRevision
    /\ permit[q].status = "NONE"
    /\ SameLine(o) /\ permit'[o].status = "SUPERSEDED"
    /\ permit'[q].orig = permit[o].orig /\ permit'[q].prev = o
    /\ permit'[q].number = permit[o].rev + 1
    /\ permit'[q].status = IF m = "WEB" THEN "WAITING_PAYMENT" ELSE "VOIDED"
    /\ \A p \in Permits \ {o, q} : permit'[p] = permit[p]
    /\ Inserted(t, {q}, m)
    /\ txn'[t].priced[q] = permit'[q].data

LEMMA VoidWrites ==
    ASSUME SerialInv, NEW s \in Slots, CommitVoid(s)
    PROVE  \E o, q \in Permits, t \in Txns : Voided(o, q, t, req[s].method)
<1> USE DEF SerialInv, PaymentInv
<1>1. PICK o \in Permits : req[s].permits = {o} /\ VoidOK(req[s].snap[o], o)
  BY DEF CommitVoid, RequestsOK, RequestOK
<1> DEFINE m == req[s].method
           old == req[s].snap[o]
           r == old.rev + 1
           n == NextNumber(old)
           new == [old EXCEPT !.status = "VOIDED", !.prev = o,
                              !.rev = r, !.number = n]
           charged == PurchasedRow(new, "WEB")
           row == IF m = "WEB" THEN charged ELSE new
<1>2. PICK q \in Permits, t \in Txns :
        /\ IsNextPermit(q) /\ IsNextTxn(t)
        /\ permit' = [permit EXCEPT ![o].status = "SUPERSEDED", ![q] = row]
        /\ NewTxn(t, {q}, [p \in Permits |-> new], m,
                  IF m = "WEB" THEN "yes" ELSE "null")
  BY <1>1 DEF CommitVoid
<1>3. m \in Methods /\ old \in Row /\ permit[o] \in Row
  BY DEF TypeOK, Requests
<1>4. /\ AsRead(old, o) /\ old.status = "ISSUED" /\ old.rev < MaxRevision
      /\ permit[o].status = "ISSUED"
  BY <1>1 DEF VoidOK, AsRead, ActiveForIssuance
<1>5. permit[q].status = "NONE" /\ q # o
  BY <1>2, <1>4 DEF IsNextPermit
<1>6. n = permit[o].rev + 1
  BY <1>4 DEF NextNumber, AsRead, RowsInv, NumberedRows
<1> HIDE DEF n, r
<1>7. /\ new.status = "VOIDED" /\ new.prev = o /\ new.number = n
      /\ new.orig = old.orig /\ new.data = old.data
  BY <1>3 DEF Row
<1>8. /\ charged.status = "WAITING_PAYMENT" /\ charged.prev = o
      /\ charged.number = n
      /\ charged.orig = old.orig /\ charged.data = old.data
  BY <1>3 DEF Row, PurchasedRow
<1> HIDE DEF new, charged
<1>9. /\ row.status = IF m = "WEB" THEN "WAITING_PAYMENT" ELSE "VOIDED"
      /\ row.prev = o /\ row.number = n
      /\ row.orig = old.orig /\ row.data = old.data
  BY <1>7, <1>8
<1> HIDE DEF row
<1>10. permit'[q] = row /\ permit'[o] = [permit[o] EXCEPT !.status = "SUPERSEDED"]
  BY <1>2, <1>5 DEF TypeOK
<1>11. \A p \in Permits \ {o, q} : permit'[p] = permit[p]
  BY <1>2 DEF TypeOK
<1>12. SameLine(o) /\ permit'[o].status = "SUPERSEDED"
  BY <1>3, <1>10 DEF SameLine, Row
<1>13. /\ Inserted(t, {q}, m)
       /\ txn'[t].priced[q] = new.data
  BY <1>2, <1>3, NewTxnInserts
<1>14. Voided(o, q, t, m)
  BY <1>4, <1>5, <1>6, <1>7, <1>9, <1>10, <1>11, <1>12, <1>13 DEF Voided, AsRead
<1> QED
  BY <1>14

LEMMA VoidEnds ==
    ASSUME OneRequest, SerialInv, NEW s \in Slots, CommitVoid(s)
    PROVE  SerialKept
<1> USE DEF SerialInv, PaymentInv
<1> DEFINE m == req[s].method
<1>1. PICK o, q \in Permits, t \in Txns : Voided(o, q, t, m)
  BY VoidWrites
<1>2. m \in Methods
  BY DEF TypeOK, Requests
<1>3. permit[o].rev \in Nat /\ permit'[q].number # NoNumber
  BY <1>1 DEF Voided, TypeOK, Row, NoNumber
<1> HIDE DEF m
<1>4. RowsInv'
  BY <1>1, <1>3, VoidKeepsRows DEF Voided
<1>5. RowKept(o) /\ o # q
  BY <1>1 DEF Voided, RowKept, SameLine, Exists, Settled
<1>6. \A p \in Permits \ {o, q} : RowKept(p)
  BY <1>1 DEF Voided, RowKept, Exists
<1>7. Exists(q)' /\ RowKept(q)
  BY <1>1 DEF Voided, RowKept, Exists
<1>8. CASE m \in {"WEB", "OTHER"}
  <2>1. Bought(t, q, m)
    BY <1>1, <1>3 DEF Voided, Bought, Exists
  <2>2. TxnsInv'
    BY <1>1, <1>5, <1>6, <1>8, <2>1, PurchaseKeepsTxns DEF Voided
  <2> QED
    BY <1>4, <2>2, EndsSlot DEF CommitVoid
<1>9. CASE m = "REFUND"
  <2>1. TxnsInv'
    BY <1>1, <1>5, <1>6, <1>7, <1>9, RefundKeepsTxns DEF Voided
  <2> QED
    BY <1>4, <2>1, EndsSlot DEF CommitVoid
<1> QED
  BY <1>2, <1>8, <1>9 DEF Methods

LEMMA FailEnds ==
    ASSUME OneRequest, SerialInv, NEW s \in Slots, Fail(s)
    PROVE  SerialKept
<1>1. RowsInv' /\ TxnsInv'
  BY TablesUnchanged DEF Fail, SerialInv, PaymentInv
<1> QED
  BY <1>1, EndsSlot DEF Fail

\* The cart, PayBC and stuttering while a request is in flight, or none is.
LEMMA CartSteps ==
    ASSUME TypeOK, AddToCart \/ RemoveFromCart
    PROVE  \A p \in Permits : Carted(p)
<1>1. ASSUME NEW S, NEW from, NEW to \in {"IN_CART", "IN_PROGRESS"},
             SetStatus(S, from, to), from \subseteq ActiveForIssuance
      PROVE  \A p \in Permits : Carted(p)
  <2>1. \A p \in Permits :
          \/ permit'[p] = permit[p]
          \/ /\ permit[p].status \in ActiveForIssuance
             /\ permit'[p] = [permit[p] EXCEPT !.status = to]
    BY <1>1 DEF SetStatus
  <2>2. \A p \in Permits : permit[p] \in Row
    BY DEF TypeOK
  <2> QED
    BY <2>1, <2>2 DEF Carted, SameLine, Row
<1> QED
  BY <1>1 DEF AddToCart, RemoveFromCart, ActiveForIssuance

LEMMA OthersKeep ==
    ASSUME SerialInv,
           \/ AddToCart
           \/ RemoveFromCart
           \/ AnswerAtPayBC
           \/ UNCHANGED vars
    PROVE  SerialKept
<1> USE DEF SerialInv, PaymentInv
<1>1. UNCHANGED <<txn, req>>
  BY DEF AddToCart, RemoveFromCart, AnswerAtPayBC, vars
<1>2. \A p \in Permits : Carted(p)
  <2>1. CASE UNCHANGED permit
    BY <2>1 DEF Carted, SameLine
  <2> QED
    BY <2>1, CartSteps DEF AnswerAtPayBC, vars
<1> QED
  BY <1>1, <1>2, CartedKeepsTables, CartedKeepsRequests DEF SerialKept

LEMMA SerialStep ==
    ASSUME OneRequest, SerialInv, [Next]_vars
    PROVE  SerialInv'
<1>1. ASSUME NEW s \in Slots, Handle(s)
      PROVE  SerialKept
  <2>1. CASE \/ BeginCreate(s) \/ AssignOriginal(s) \/ BeginAmend(s)
             \/ InsertAmendment(s) \/ BeginUpdate(s) \/ CommitUpdate(s)
             \/ BeginDelete(s) \/ CommitDelete(s)
    BY <2>1, CreateBegins, CreateEnds, AmendBegins, AmendEnds, UpdateBegins,
       UpdateEnds, DeleteBegins, DeleteEnds
  <2>2. CASE \/ BeginCheckout(s) \/ CommitCheckout(s) \/ BeginRefund(s)
             \/ CommitRefund(s) \/ BeginCallback(s) \/ CommitApproved(s)
             \/ CommitDeclined(s)
    BY <2>2, CheckoutBegins, CheckoutEnds, RefundBegins, RefundEnds,
       CallbackBegins, CallbackApproves, CallbackDeclines
  <2>3. CASE \/ BeginIssue(s) \/ CommitIssue(s) \/ BeginVoid(s)
             \/ CommitVoid(s) \/ Fail(s)
    BY <2>3, IssueBegins, IssueEnds, VoidBegins, VoidEnds, FailEnds
  <2> QED
    BY <1>1, <2>1, <2>2, <2>3 DEF Handle
<1>2. SerialKept
  BY <1>1, OthersKeep DEF Next
<1>3. PaymentInv
  BY DEF SerialInv
<1>4. PaymentInv'
  <2>1. TypeOK' /\ CallbackAnswered'
    BY <1>3, TypeStep, CallbackStep DEF PaymentInv
  <2> QED
    BY <1>3, <2>1, AnsweredStep, UnusedStep, MoneyStep, IssuanceStep, PaidStep
       DEF PaymentInv
<1> QED
  BY <1>2, <1>4 DEF SerialInv, SerialKept

LEMMA SerialInit ==
    ASSUME Init
    PROVE  SerialInv
<1>1. /\ \A p \in Permits : permit[p] = NoRow
      /\ \A t \in Txns : txn[t] = NoTxn
      /\ \A s \in Slots : req[s] = Idle
  BY DEF Init
<1>2. PaymentInv
  BY TypeInit, <1>1 DEF Init, PaymentInv, AnsweredIsWeb, UnusedHaveNoReceipt,
     ReceiptMeansMoney, IssuancesAreReceipted, PaidBeforeIssued, NoTxn, NoRow, Idle
<1>3. RowsInv
  BY <1>1 DEF RowsInv, UnusedRows, NumberedRows, Lineage, OpenOnce, OpenOf,
     PredecessorSuperseded, NoRow, ActiveForIssuance
<1>4. TxnsInv
  BY <1>1 DEF TxnsInv, UsedTxns, OneReceipt, PaidAreSettled, PaidByOne, Receipts,
     LastAsPriced, IsLast, Purchases, NoTxn, NoRow
<1>5. RequestsOK
  <2>1. \A s \in Slots : req[s].op = "idle"
    BY <1>1 DEF Idle
  <2> QED
    BY <2>1 DEF RequestsOK, RequestOK
<1> QED
  BY <1>2, <1>3, <1>4, <1>5 DEF SerialInv

LEMMA SerialInvCorrect ==
    ASSUME OneRequest
    PROVE  Spec => []SerialInv
<1>1. Init => SerialInv
  BY SerialInit
<1>2. SerialInv /\ [Next]_vars => SerialInv'
  BY SerialStep
<1> QED
  BY <1>1, <1>2, PTL DEF Spec

\* While requests run one at a time, an application is paid for at most once,
\* in whatever ways its purchases were started, left open and settled.
THEOREM SerialPaidOnce ==
    ASSUME OneRequest
    PROVE  Spec => []PaidOnce
<1>1. SerialInv => PaidOnce
  <2> SUFFICES ASSUME SerialInv, NEW p \in Permits,
                      permit[p].number = NoNumber \/ permit[p].status = "ISSUED"
               PROVE  Cardinality({t \in Purchases(p) : txn[t].receipts > 0}) <= 1
    BY DEF PaidOnce, SerialInv, TxnsInv
  <2>1. \A t, u \in {v \in Purchases(p) : txn[v].receipts > 0} : t = u
    BY DEF SerialInv, TxnsInv, PaidByOne, Receipts
  <2> QED
    BY <2>1, AtMostOne
<1> QED
  BY <1>1, SerialInvCorrect, PTL

\* While requests run one at a time, what is issued holds the data that its last
\* purchase was priced at.
THEOREM SerialPricedAsIssued ==
    ASSUME OneRequest
    PROVE  Spec => []PricedAsIssued
<1>1. SerialInv => PricedAsIssued
  BY DEF SerialInv, TxnsInv, LastAsPriced, IsLast, PricedAsIssued
<1> QED
  BY <1>1, SerialInvCorrect, PTL

\* While requests run one at a time, two revisions in a row are never in force
\* together, and a permit has one open amendment at most.
THEOREM SerialRevisionsInOrder ==
    ASSUME OneRequest
    PROVE  Spec => []RevisionsInOrder
<1>1. SerialInv => RevisionsInOrder
  <2> SUFFICES ASSUME SerialInv, NEW o \in Permits
               PROVE  Cardinality({p \in ActiveApplications(o) :
                                      permit[p].number = NoNumber}) <= 1
    BY DEF RevisionsInOrder, OneActiveAmendment, SerialInv, RowsInv
  <2>1. \A p, q \in {r \in ActiveApplications(o) : permit[r].number = NoNumber} : p = q
    BY DEF SerialInv, RowsInv, OpenOnce, OpenOf, ActiveApplications
  <2> QED
    BY <2>1, AtMostOne
<1> QED
  BY <1>1, SerialInvCorrect, PTL

-----------------------------------------------------------------------------
(* The register of permits                                                 *)

LEMMA StageOf ==
    ASSUME NEW row
    PROVE  /\ row.status = "NONE" => Stage(row) = "none"
           /\ row.status # "NONE" /\ row.number = NoNumber => Stage(row) = "open"
           /\ row.status # "NONE" /\ row.number # NoNumber =>
                /\ row.status = "ISSUED" => Stage(row) = "inForce"
                /\ row.status = "SUPERSEDED" => Stage(row) = "replaced"
                /\ row.status \notin {"ISSUED", "SUPERSEDED"} => Stage(row) = "voided"
BY DEF Stage

SameEntry(p) ==
    /\ Stage(permit'[p]) = Stage(permit[p])
    /\ permit'[p].prev = permit[p].prev
    /\ permit'[p].number = permit[p].number

\* Carts, payments and deletions are below what the register knows ...
LEMMA MovesAreHidden ==
    ASSUME TypeOK, RowsMove
    PROVE  \A p \in Permits : SameEntry(p)
<1> SUFFICES ASSUME NEW p \in Permits
             PROVE  SameEntry(p)
  OBVIOUS
<1>1. /\ permit'[p].prev = permit[p].prev /\ permit'[p].number = permit[p].number
  BY DEF RowsMove, Moves, SameLine
<1>2. Stage(permit'[p]) = Stage(permit[p])
  BY <1>1, StageOf DEF RowsMove, Moves, ActiveForIssuance, Stage
<1> QED
  BY <1>1, <1>2 DEF SameEntry

\* ... but for the receipts, which are for rows that exist.
LEMMA RegisterPays ==
    ASSUME UsedTxns', \A p \in Permits : Receipted(p) => Receipted(p)',
           \A p \in Permits : SameEntry(p)
    PROVE  Register!Next
<1> DEFINE S == {p \in Permits : Receipted(p)'}
<1>1. \A p \in S : Stage(permit[p]) # "none"
  <2>1. \A p \in S : Exists(p)'
    BY DEF UsedTxns, Receipted
  <2>2. \A p \in S : Stage(permit'[p]) # "none"
    BY <2>1 DEF Exists, Stage
  <2> QED
    BY <2>2 DEF SameEntry
<1>2. {p \in Permits : Receipted(p)}' = {p \in Permits : Receipted(p)} \cup S
  OBVIOUS
<1>3. Register!Pay(S)
  BY <1>1, <1>2 DEF Register!Pay, SameEntry
<1> QED
  BY <1>3 DEF Register!Next

LEMMA RegisterOpens ==
    ASSUME RowsInv, UNCHANGED txn, NEW q \in Permits, NEW o \in Permits \cup {NoId},
           o # NoId => permit[o].number # NoNumber, Opened(q, o)
    PROVE  Register!Next
<1>1. Stage(permit[q]) = "none" /\ Stage(permit'[q]) = "open"
  BY StageOf DEF Opened
<1>2. permit[q].number = NoNumber
  BY DEF Opened, RowsInv, UnusedRows
<1>3. o # NoId => Stage(permit[o]) \in {"inForce", "replaced", "voided"}
  BY StageOf DEF RowsInv, NumberedRows
<1>4. \A p \in Permits : Receipted(p)' <=> Receipted(p)
  BY DEF Receipted
<1>5. Register!Open(q, o)
  BY <1>1, <1>2, <1>3, <1>4 DEF Opened, Register!Open, Register!Numbered
<1> QED
  BY <1>5 DEF Register!Next

LEMMA RegisterEnters ==
    ASSUME RowsInv, UNCHANGED txn, NEW q \in Permits, NEW n, Entered(q, n), Receipted(q)
    PROVE  Register!Next
<1>1. n # NoNumber
  BY NumbersAreNat DEF Entered
<1>2. Stage(permit[q]) = "open" /\ Stage(permit'[q]) = "inForce"
  BY <1>1, StageOf DEF Entered, RowsInv, UnusedRows
<1>3. \A p \in Permits \ {q} :
        Stage(permit'[p]) = IF p = permit[q].prev THEN "replaced" ELSE Stage(permit[p])
  <2> TAKE p \in Permits \ {q}
  <2>1. CASE p = permit[q].prev
    <3>1. permit'[p].number # NoNumber /\ permit'[p].status = "SUPERSEDED"
      BY <2>1, NoIdIsNoRow DEF Entered, SameLine, RowsInv, Lineage
    <3> QED
      BY <2>1, <3>1, StageOf
  <2>2. CASE p # permit[q].prev
    BY <2>2 DEF Entered, SameLine, Stage
  <2> QED
    BY <2>1, <2>2
<1>4. \A p \in Permits : Receipted(p)' <=> Receipted(p)
  BY DEF Receipted
<1>5. Register!Enter(q, n)
  <2> DEFINE stage == [p \in Permits |-> Stage(permit[p])]
             number == [p \in Permits |-> permit[p].number]
             prev == [p \in Permits |-> permit[p].prev]
  <2>1. stage' = [p \in Permits |-> IF p = q THEN "inForce"
                                    ELSE IF p = prev[q] THEN "replaced"
                                    ELSE stage[p]]
    BY <1>2, <1>3
  <2>2. \A p \in Permits : /\ permit'[p].prev = permit[p].prev
                           /\ p # q => permit'[p].number = permit[p].number
    BY DEF Entered, SameLine
  <2>3. number' = [number EXCEPT ![q] = n]
    BY <2>2 DEF Entered
  <2>4. prev' = prev
    BY <2>2
  <2>5. {p \in Permits : Receipted(p)}' = {p \in Permits : Receipted(p)}
    BY <1>4
  <2> HIDE DEF number, prev
  <2>6. stage[q] = "open" /\ q \in {p \in Permits : Receipted(p)}
    BY <1>2
  <2> HIDE DEF stage
  <2> QED
    BY <2>1, <2>3, <2>4, <2>5, <2>6 DEF Register!Enter, stage, number, prev
<1> QED
  BY <1>5 DEF Entered, Register!Next

LEMMA InsertedReceipts ==
    ASSUME TypeOK, UnusedHaveNoReceipt, NEW t \in Txns, NEW S, NEW m, Inserted(t, S, m)
    PROVE  \A p \in Permits : Receipted(p)' <=> Receipted(p) \/ (p \in S /\ m # "WEB")
<1> SUFFICES ASSUME NEW p \in Permits
             PROVE  Receipted(p)' <=> Receipted(p) \/ (p \in S /\ m # "WEB")
  OBVIOUS
<1>1. txn[t].receipts = 0
  BY DEF UnusedHaveNoReceipt, Inserted, IsNextTxn
<1>2. \A u \in Txns \ {t} : txn'[u] = txn[u]
  BY DEF Inserted
<1>3. txn'[t].receipts > 0 /\ p \in txn'[t].permits <=> m # "WEB" /\ p \in S
  BY DEF Inserted
<1>4. Receipted(p)' <=> \E u \in Txns : txn'[u].receipts > 0 /\ p \in txn'[u].permits
  BY DEF Receipted
<1> QED
  BY <1>1, <1>2, <1>3, <1>4 DEF Receipted

LEMMA RegisterVoids ==
    ASSUME TypeOK, UnusedHaveNoReceipt, RowsInv, NEW o \in Permits, NEW q \in Permits,
           NEW t \in Txns, NEW m, Voided(o, q, t, m)
    PROVE  Register!Next
<1>1. PICK n \in 0..MaxRevision : n = permit[o].rev + 1 /\ n # NoNumber
  BY NumbersAreNat, BoundsAssumption DEF Voided, TypeOK, Row
<1>2. o # q /\ permit[o].number # NoNumber
  BY DEF Voided, RowsInv, NumberedRows
<1>3. /\ Stage(permit[o]) = "inForce" /\ Stage(permit'[o]) = "replaced"
      /\ Stage(permit[q]) = "none" /\ Stage(permit'[q]) = "voided"
  BY <1>1, <1>2, StageOf DEF Voided, SameLine
<1>4. \A p \in Permits \ {o, q} : permit'[p] = permit[p]
  BY DEF Voided
<1>5. {p \in Permits : Receipted(p)}' \in
        {{p \in Permits : Receipted(p)}, {p \in Permits : Receipted(p)} \cup {q}}
  BY InsertedReceipts DEF Voided
<1>6. Register!Void(o, q, n)
  BY <1>1, <1>2, <1>3, <1>4, <1>5 DEF Voided, SameLine, Register!Void
<1> QED
  BY <1>6 DEF Register!Next

LEMMA HandlerKeepsRegister ==
    ASSUME OneRequest, SerialInv, UsedTxns',
           \A p \in Permits : Receipted(p) => Receipted(p)',
           NEW s \in Slots, Handle(s)
    PROVE  Register!Next
<1> USE DEF SerialInv, PaymentInv
<1>1. ASSUME RowsMove
      PROVE  Register!Next
  BY <1>1, MovesAreHidden, RegisterPays
<1>2. ASSUME UNCHANGED permit
      PROVE  RowsMove
  BY <1>2 DEF RowsMove, Moves, SameLine
<1>3. CASE \/ BeginAmend(s) \/ BeginUpdate(s) \/ BeginDelete(s) \/ BeginCheckout(s)
           \/ BeginRefund(s) \/ CommitRefund(s) \/ BeginCallback(s)
           \/ CommitDeclined(s) \/ BeginIssue(s) \/ BeginVoid(s) \/ Fail(s)
  <2>1. UNCHANGED permit
    BY <1>3 DEF BeginAmend, BeginUpdate, BeginDelete, BeginCheckout, BeginRefund,
       CommitRefund, BeginCallback, CommitDeclined, BeginIssue, BeginVoid, Fail
  <2> QED
    BY <1>1, <1>2, <2>1
<1>4. CASE \/ CommitUpdate(s) \/ CommitDelete(s) \/ CommitCheckout(s)
           \/ CommitApproved(s)
  BY <1>1, <1>4, UpdateEnds, DeleteEnds, CheckoutEnds, CallbackApproves
<1>5. CASE BeginCreate(s)
  <2>1. PICK q \in Permits : Opened(q, NoId)
    BY <1>5, CreateBegins
  <2> QED
    BY <1>5, <2>1, RegisterOpens DEF BeginCreate
<1>6. CASE InsertAmendment(s)
  <2>1. PICK q, o \in Permits : permit[o].number # NoNumber /\ Opened(q, o)
    BY <1>6, AmendEnds
  <2> QED
    BY <1>6, <2>1, RegisterOpens DEF InsertAmendment
<1>7. CASE AssignOriginal(s)
  <2>1. \A p \in Permits : permit[p] \in Row
    BY DEF TypeOK
  <2>2. \A p \in Permits : permit'[p] \in {permit[p], [permit[p] EXCEPT !.orig = p]}
    BY <1>7 DEF AssignOriginal
  <2>3. \A p \in Permits : /\ permit'[p].status = permit[p].status
                           /\ permit'[p].prev = permit[p].prev
                           /\ permit'[p].number = permit[p].number
    BY <2>1, <2>2 DEF Row
  <2>4. \A p \in Permits : SameEntry(p)
    BY <2>3 DEF SameEntry, Stage
  <2> QED
    BY <2>4, RegisterPays
<1>8. CASE CommitIssue(s)
  <2>1. PICK q \in Permits : req[s].permits = {q} /\ Entered(q, req[s].number)
    BY <1>8, IssueWrites
  <2>2. Receipted(q)
    BY <1>8, <2>1 DEF CommitIssue, IssuancesAreReceipted
  <2> QED
    BY <1>8, <2>1, <2>2, RegisterEnters DEF CommitIssue
<1>9. CASE CommitVoid(s)
  <2>1. PICK o, q \in Permits, t \in Txns : Voided(o, q, t, req[s].method)
    BY <1>9, VoidWrites
  <2> QED
    BY <2>1, RegisterVoids
<1> QED
  BY <1>3, <1>4, <1>5, <1>6, <1>7, <1>8, <1>9 DEF Handle

\* Every step of the handlers, the cart and PayBC is a step of the register, or
\* leaves it as it is.
LEMMA StepKeepsRegister ==
    ASSUME OneRequest, SerialInv, [Next]_vars
    PROVE  [Register!Next]_(Register!vars)
<1>1. SerialInv'
  BY SerialStep
<1>2. UsedTxns' /\ \A p \in Permits : Receipted(p) => Receipted(p)'
  BY <1>1, ReceiptedStays DEF SerialInv, PaymentInv, TxnsInv
<1>3. ASSUME NEW s \in Slots, Handle(s)
      PROVE  Register!Next
  BY <1>2, <1>3, HandlerKeepsRegister
<1>4. CASE AddToCart \/ RemoveFromCart
  <2>1. RowsMove
    BY <1>4, CartSteps DEF SerialInv, PaymentInv, RowsMove, Carted, Moves,
       ActiveForIssuance
  <2> QED
    BY <1>2, <2>1, MovesAreHidden, RegisterPays DEF SerialInv, PaymentInv
<1>5. CASE AnswerAtPayBC \/ UNCHANGED vars
  <2>1. UNCHANGED <<permit, txn>>
    BY <1>5 DEF AnswerAtPayBC, vars
  <2> QED
    BY <2>1 DEF Register!vars, Receipted
<1> QED
  BY <1>3, <1>4, <1>5 DEF Next

\* While requests run one at a time, the tables implement the register of
\* permits: whatever carts, gateways, deletions and failures do, what is in
\* force was paid for, replaces what it revises, and is replaced for good.
THEOREM ImplementsRegister ==
    ASSUME OneRequest
    PROVE  Spec => KeepsRegister
<1>1. Init => Register!Init
  <2> SUFFICES ASSUME Init
               PROVE  Register!Init
    OBVIOUS
  <2>1. \A p \in Permits : permit[p] = NoRow
    BY DEF Init
  <2>2. /\ Stage(NoRow) = "none" /\ NoRow.prev = NoId /\ NoRow.number = NoNumber
    BY DEF Stage, NoRow
  <2>3. \A p \in Permits : ~Receipted(p)
    BY DEF Init, NoTxn, Receipted
  <2> QED
    BY <2>1, <2>2, <2>3 DEF Register!Init
<1>2. SerialInv /\ [Next]_vars => [Register!Next]_(Register!vars)
  BY StepKeepsRegister
<1> QED
  BY <1>1, <1>2, SerialInvCorrect, PTL DEF Spec, KeepsRegister, Register!Spec

=============================================================================
