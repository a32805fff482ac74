----------------------------- MODULE PermitMoney -----------------------------
(***************************************************************************)
(* The money of one permit and its revisions: what the vehicles API asks   *)
(* for an amendment, a void or a revocation, worked out from the           *)
(* transactions recorded so far (PolicyService.                            *)
(* validateApplicationAndCalculateCost and permit-fee.helper.ts), what the *)
(* frontend offers and sends (feeSummary.ts), and what PaymentService and  *)
(* PermitService.voidPermit record.                                        *)
(*                                                                         *)
(* An application in progress and one in the cart are the one status       *)
(* "OPEN": both can be paid for.  The fee of a revision is what the policy *)
(* engine says for its data; requests do not overlap (PermitPayment has    *)
(* the overlapping ones, without amounts).                                 *)
(***************************************************************************)
EXTENDS Integers, Sequences, Functions

CONSTANTS
    Fees,             \* the fees the policy engine may find for a revision
    MaxRevisions,     \* bound on the revisions of the permit
    MaxTransactions,  \* bound on the recorded transactions
    Again             \* an amendment that was refunded may be gone back to

MoneyAssumption ==
    /\ Fees \subseteq Nat \ {0}
    /\ MaxRevisions \in Nat /\ MaxTransactions \in Nat
    /\ Again \in BOOLEAN

Numbered == {"ISSUED", "SUPERSEDED", "VOIDED", "REVOKED"}

Revision == [status : {"OPEN", "WAITING_PAYMENT", "PAYMENT_COMPLETE"} \cup Numbered,
             fee : Fees]

\* A transaction with its line for the permit: what was sent for the permit,
\* the total that was recorded, and what the gateway said of it.
Entry == [row : 1..MaxRevisions, kind : {"PURCHASE", "REFUND"},
          amount : Nat, total : Int, approved : {"yes", "no", "open"}]

VARIABLES
    rows,     \* the revisions of the permit, the oldest first
    ledger,   \* the transactions, in the order they were recorded
    noFee,    \* the company holds a no-fee authorization
    waived    \* history: it has held one

vars == <<rows, ledger, noFee, waived>>

Last == Len(rows)
Has(i, statuses) == i \in DOMAIN rows /\ rows[i].status \in statuses

-----------------------------------------------------------------------------
(* What has been paid                                                      *)

Signed == [t \in DOMAIN ledger |->
             IF ledger[t].kind = "PURCHASE" THEN ledger[t].amount
             ELSE -ledger[t].amount]

SumOf(T) == SumFunctionOnSet(Signed, T)

\* findPermitHistory: the transactions of the revisions that have a number,
\* approved or not.
History == {t \in DOMAIN ledger : rows[ledger[t].row].status \in Numbered}

\* calculatePermitAmount
ExistingAmount == SumOf(History)

\* calculateNetAmount of the frontend: a web transaction that is not approved
\* is left out (isValidTransaction).
NetAmount == SumOf({t \in History : ledger[t].approved = "yes"})

\* The policy engine (external): nothing, for a company with a no-fee type.
PolicyFee(row) == IF noFee THEN 0 ELSE row.fee

\* Mutant: an amendment costs its fee, whatever was paid before.
CostGross(i) ==
    CASE rows[i].status = "REVOKED" -> 0
      [] rows[i].status = "VOIDED" -> -ExistingAmount
      [] OTHER -> PolicyFee(rows[i])

\* validateApplicationAndCalculateCost.  The revision number of row i is
\* i - 1.
Cost(i) ==
    CASE rows[i].status = "REVOKED" -> 0
      [] rows[i].status = "VOIDED" -> -ExistingAmount
      [] OTHER -> IF \/ noFee /\ i = 1
                     \/ i > 1 /\ ExistingAmount = 0
                  THEN 0
                  ELSE IF ExistingAmount > 0
                       THEN PolicyFee(rows[i]) - ExistingAmount
                       ELSE PolicyFee(rows[i]) + ExistingAmount

\* calculateAmountToRefund of the frontend
AmountToRefund(i) ==
    IF NetAmount = 0 THEN 0 ELSE NetAmount - PolicyFee(rows[i])

\* Mutant: every attempt to pay is given back.
AmountForVoidExisting(expired) == IF expired THEN 0 ELSE ExistingAmount

\* calculateAmountForVoid of the frontend
AmountForVoid(expired) == IF expired THEN 0 ELSE NetAmount

\* validatePaymentReceived: the amount is the cost without its sign, and for a
\* refund the cost is negative.
Accepts(amount, kind, cost) ==
    /\ amount = IF cost < 0 THEN -cost ELSE cost
    /\ kind = "REFUND" => cost < 0

-----------------------------------------------------------------------------
Record(i, kind, amount, total, approved) ==
    /\ Len(ledger) < MaxTransactions
    /\ ledger' = Append(ledger, [row |-> i, kind |-> kind, amount |-> amount,
                                 total |-> total, approved |-> approved])

SetStatus(i, status) == rows' = [rows EXCEPT ![i].status = status]

\* Nothing was paid or given back for row i.
Untouched(i) ==
    \A t \in DOMAIN ledger : ledger[t].row = i => ledger[t].approved # "yes"

\* Who has been through the payment of row i goes on to issue it, unless the
\* issuance failed and the user is back at the form.
AtTheForm(i) == Has(i, {"OPEN"}) /\ (Untouched(i) \/ Again)

Init == /\ rows = <<>>
        /\ ledger = <<>>
        /\ noFee = FALSE
        /\ waived = FALSE

\* A new application, or an amendment of the permit in force.
Apply ==
    /\ Last = 0 \/ Has(Last, {"ISSUED"})
    /\ Last < MaxRevisions
    /\ \E f \in Fees : rows' = Append(rows, [status |-> "OPEN", fee |-> f])
    /\ UNCHANGED <<ledger, noFee, waived>>

\* ApplicationService.update: the new data has another fee.  A refund leaves
\* the amendment in progress, so that it can still be changed.
Edit(i) ==
    /\ AtTheForm(i)
    /\ \E f \in Fees \ {rows[i].fee} : rows' = [rows EXCEPT ![i].fee = f]
    /\ UNCHANGED <<ledger, noFee, waived>>

\* createTransactions, a purchase that is complete at once.  The cart sends the
\* cost the API put on the application; the frontend's zero refund of an
\* amendment (mapToZeroDollarRefundRequestData) is a purchase as well.
Purchase(i) ==
    /\ AtTheForm(i)
    /\ Accepts(Cost(i), "PURCHASE", Cost(i))
    /\ Record(i, "PURCHASE", Cost(i), Cost(i), "yes")
    /\ SetStatus(i, "PAYMENT_COMPLETE")
    /\ UNCHANGED <<noFee, waived>>

\* createTransactions, a purchase at PayBC.
StartWebPurchase(i) ==
    /\ AtTheForm(i)
    /\ Cost(i) > 0
    /\ Accepts(Cost(i), "PURCHASE", Cost(i))
    /\ Record(i, "PURCHASE", Cost(i), Cost(i), "open")
    /\ SetStatus(i, "WAITING_PAYMENT")
    /\ UNCHANGED <<noFee, waived>>

\* updateTransactions, with the gateway's answer.  A declined payment leaves
\* the permit waiting.
Approve(i, t) ==
    /\ Has(i, {"WAITING_PAYMENT"})
    /\ ledger[t].row = i /\ ledger[t].approved = "open"
    /\ ledger' = [ledger EXCEPT ![t].approved = "yes"]
    /\ SetStatus(i, "PAYMENT_COMPLETE")
    /\ UNCHANGED <<noFee, waived>>

Decline(i, t) ==
    /\ Has(i, {"WAITING_PAYMENT"})
    /\ ledger[t].row = i /\ ledger[t].approved = "open"
    /\ ledger' = [ledger EXCEPT ![t].approved = "no"]
    /\ UNCHANGED <<rows, noFee, waived>>

\* addToCart takes the waiting permit back, whatever became of its payment.
BackToCart(i) ==
    /\ Has(i, {"WAITING_PAYMENT"})
    /\ SetStatus(i, "OPEN")
    /\ UNCHANGED <<ledger, noFee, waived>>

\* createRefundTransactions for an amendment that costs less than what was
\* paid, with the amount the frontend shows; the amendment keeps its status,
\* and is issued by the next request.
Refund(i) ==
    /\ AtTheForm(i)
    /\ i > 1
    /\ AmountToRefund(i) > 0
    /\ Accepts(AmountToRefund(i), "REFUND", Cost(i))
    /\ Record(i, "REFUND", AmountToRefund(i), AmountToRefund(i), "yes")
    /\ UNCHANGED <<rows, noFee, waived>>

\* issuePermits: an application with a receipt, and the revision it replaces.
Issue(i) ==
    /\ Has(i, {"OPEN", "PAYMENT_COMPLETE"})
    /\ ~Untouched(i)
    /\ rows' = [j \in DOMAIN rows |->
                  IF j = i THEN [rows[j] EXCEPT !.status = "ISSUED"]
                  ELSE IF j = i - 1 THEN [rows[j] EXCEPT !.status = "SUPERSEDED"]
                  ELSE rows[j]]
    /\ UNCHANGED <<ledger, noFee, waived>>

\* The revision that voidPermit adds, with its transaction.
Close(status, kind, amount, total) ==
    /\ Has(Last, {"ISSUED"})
    /\ Last < MaxRevisions
    /\ rows' = Append([rows EXCEPT ![Last].status = "SUPERSEDED"],
                      [status |-> status, fee |-> rows[Last].fee])
    /\ Record(Last + 1, kind, amount, total, "yes")
    /\ UNCHANGED <<noFee, waived>>

\* voidPermit with VOIDED: the amount is the frontend's.  The cost is what the
\* API finds, but its violations are null by then: nothing is compared.  With
\* nothing to refund a purchase of 0 is recorded, its total being the cost.
Void(expired) ==
    LET amount == AmountForVoid(expired) IN
    IF amount = 0
    THEN Close("VOIDED", "PURCHASE", 0, -ExistingAmount)
    ELSE Close("VOIDED", "REFUND", amount, amount)

\* voidPermit with REVOKED: nothing is given back.
Revoke == Close("REVOKED", "PURCHASE", 0, 0)

\* The staff gives the company its no-fee authorization, or takes it away.
ChangeNoFee ==
    /\ noFee' = ~noFee
    /\ waived' = TRUE
    /\ UNCHANGED <<rows, ledger>>

\* The steps when every payment at PayBC is approved.
NextApproved ==
    \/ Apply
    \/ \E i \in DOMAIN rows : \/ Edit(i) \/ Purchase(i) \/ StartWebPurchase(i)
                              \/ Refund(i) \/ Issue(i)
                              \/ \E t \in DOMAIN ledger : Approve(i, t)
    \/ \E expired \in BOOLEAN : Void(expired)
    \/ Revoke
    \/ ChangeNoFee

\* A payment at PayBC may be declined or abandoned as well.
Next ==
    \/ NextApproved
    \/ \E i \in DOMAIN rows : \/ BackToCart(i)
                              \/ \E t \in DOMAIN ledger : Decline(i, t)

Spec == Init /\ [][Next]_vars

-----------------------------------------------------------------------------
(* What the code keeps                                                     *)

\* Every revision and every recorded transaction is of its type; no amount is
\* negative.
TypeOK ==
    /\ rows \in Seq(Revision) /\ Last <= MaxRevisions
    /\ ledger \in Seq(Entry)
    /\ {noFee, waived} \subseteq BOOLEAN

\* However often a permit was amended, up and down, what its company has paid
\* in all is the fee of the revision in force (calculatePermitAmount taken
\* off the new fee, permit after permit) -- unless a no-fee authorization
\* came in between.
NetIsFee == Has(Last, {"ISSUED"}) /\ ~waived => NetAmount = rows[Last].fee

\* Whatever authorizations came and went, the company never gets back more
\* than it paid for the permit, nor pays more than the fee of the revision in
\* force or of one before it.
NetIsSomeFee ==
    /\ NetAmount >= 0
    /\ NetAmount > 0 => \E i \in DOMAIN rows : NetAmount = rows[i].fee

\* A void gives back everything or, for an expired permit, nothing; a
\* revocation nothing.
VoidGivesBackAll ==
    [][\A i \in DOMAIN rows' :
        i = Last + 1 =>
            /\ rows'[i].status = "VOIDED" => NetAmount' \in {NetAmount, 0}
            /\ rows'[i].status = "REVOKED" => NetAmount' = NetAmount]_vars

=============================================================================
