----------------------------- MODULE CreditLimit -----------------------------
(***************************************************************************)
(* The limit of one credit account.  A payment adds the balance eGARMS     *)
(* reports to the transactions eGARMS does not know of yet, compares the   *)
(* sum with the limit, and saves its transaction later.  What eGARMS knows *)
(* is what the nightly extract sent: see GarmsExtract for how a tick of it *)
(* goes wrong; here it either sends its window or leaves the file open.    *)
(***************************************************************************)
EXTENDS Integers, FiniteSets, Functions

CONSTANTS
    Payers,    \* how many payments may be under way at once
    Amounts,   \* what a permit costs
    Limit,     \* the limit of the account at eGARMS (negative_limit)
    External,  \* externalAdjustmentAmount: what TPS had not posted
    MaxDay,    \* bound on the days
    MaxPaid,   \* bound on what the customer pays off
    LateHour   \* whether permits are paid from 21:00 to 21:59

AmountsAssumption == Amounts \subseteq Nat \ {0} /\ LateHour \in BOOLEAN
LimitAssumption ==
    {Limit, External, MaxDay, MaxPaid} \subseteq Nat /\ External <= Limit

(***************************************************************************)
(* A day is three slots: until 21:00, the hour from 21:00, and the rest.   *)
(* Day d has the cut-off CutOff(d): slots before it are before 21:00.      *)
(***************************************************************************)
Slots == 0..(3 * MaxDay + 2)
Day(t) == t \div 3
Hour21(t) == t % 3 = 1
Night(t) == t % 3 = 2
CutOff(d) == 3 * d + 1
NoFile == -1

VARIABLES
    now,     \* the slot it is
    status,  \* of the account: ORBC's, verified, and eGARMS's in one
    charged, \* purchases less refunds of each slot, as ORBC has them
    balance, \* at eGARMS, negative when the customer owes
    paid,    \* what the customer has paid off
    sentTo,  \* toTimestamp of the latest file
    open,    \* fromTimestamp of the file that is not submitted, or NoFile
    payment  \* what each payment is doing

vars == <<now, status, charged, balance, paid, sentTo, open, payment>>

Idle == [step |-> "idle", amount |-> 0, balance |-> 0, since |-> 0]

Init ==
    /\ now = 0
    /\ status = "ACTIVE"
    /\ charged = [t \in Slots |-> 0]
    /\ balance = -External
    /\ paid = 0
    /\ sentTo = 0
    /\ open = NoFile
    /\ payment = [p \in Payers |-> Idle]

Total(slots) == SumFunctionOnSet(charged, slots)

-----------------------------------------------------------------------------
\* Time, the customer and the finance staff (external).  The circuit breaker
\* gives up on eGARMS after ten seconds: no payment lasts longer than a slot.
PassTime ==
    /\ now + 1 \in Slots
    /\ \A p \in Payers : payment[p].step # "idle" => payment[p].since = now
    /\ now' = now + 1
    /\ UNCHANGED <<status, charged, balance, paid, sentTo, open, payment>>

PayOff ==
    /\ paid < MaxPaid
    /\ paid' = paid + 1
    /\ balance' = balance + 1
    /\ UNCHANGED <<now, status, charged, sentTo, open, payment>>

SetStatus(s) ==
    /\ status # s
    /\ status' = s
    /\ UNCHANGED <<now, charged, balance, paid, sentTo, open, payment>>

\* getToDateForGarms of the scheduler: the cut-off before the hour from 21:00 ends.
ExtractTo == IF Night(now) THEN CutOff(Day(now)) ELSE CutOff(Day(now) - 1)

Window(from, to) == {t \in Slots : from <= t /\ t < to}

\* One tick of the extract: it takes up an open file or makes one, and sends
\* its window unless that fails.
Extract(ok) ==
    LET from == IF open # NoFile THEN open ELSE sentTo IN
    /\ open # NoFile \/ sentTo < ExtractTo
    /\ sentTo' = ExtractTo
    /\ open' = IF ok THEN NoFile ELSE from
    /\ balance' = IF ok THEN balance - Total(Window(from, ExtractTo))
                  ELSE balance
    /\ UNCHANGED <<now, status, charged, paid, payment>>

-----------------------------------------------------------------------------
(* validateCreditAccountPayment and the transaction it is called for       *)

\* getToDateForGarms of the vehicles service: the next cut-off, except in the
\* hour from 21:00.
ToTimestamp == IF Night(now) THEN CutOff(Day(now) + 1) ELSE CutOff(Day(now))

\* getCreditAccountAmountToAdjust: there is no lower bound without an open file.
AdjustedSlots ==
    {t \in Slots : (open # NoFile => open <= t) /\ t < ToTimestamp}

AmountToAdjust == Total(AdjustedSlots)

Abs(n) == IF n < 0 THEN -n ELSE n

\* creditBalance, as the limit DTO has it.
CreditBalance(b) == Abs(b) + AmountToAdjust

\* Mutant: the amount of the purchase is left out.
ExceedsAlready(b, amount) == Limit < CreditBalance(b)

Exceeds(b, amount) == Limit < CreditBalance(b) + amount

\* The account's state is checked, eGARMS is asked for the balance.
PurchaseBegin(p, amount) ==
    /\ payment[p].step = "idle"
    /\ status = "ACTIVE"
    /\ Hour21(now) => LateHour
    /\ payment' = [payment EXCEPT ![p] = [step |-> "check", amount |-> amount,
                                          balance |-> balance, since |-> now]]
    /\ UNCHANGED <<now, status, charged, balance, paid, sentTo, open>>

\* The payment is refused or goes on to save its transaction.
PurchaseCheck(p) ==
    /\ payment[p].step = "check"
    /\ payment' = [payment EXCEPT ![p] =
                     IF Exceeds(payment[p].balance, payment[p].amount) THEN Idle
                     ELSE [@ EXCEPT !.step = "save"]]
    /\ UNCHANGED <<now, status, charged, balance, paid, sentTo, open>>

PurchaseSave(p) ==
    /\ payment[p].step = "save"
    /\ charged' = [charged EXCEPT ![now] = @ + payment[p].amount]
    /\ payment' = [payment EXCEPT ![p] = Idle]
    /\ UNCHANGED <<now, status, balance, paid, sentTo, open>>

\* A refund of what was charged needs no room, only an account that is not closed.
Refund(amount) ==
    /\ status # "CLOSED"
    /\ Hour21(now) => LateHour
    /\ amount <= Total(Slots)
    /\ charged' = [charged EXCEPT ![now] = @ - amount]
    /\ UNCHANGED <<now, status, balance, paid, sentTo, open, payment>>

\* The transaction is rolled back, or the pod stops.
Fail(p) ==
    /\ payment[p].step # "idle"
    /\ payment' = [payment EXCEPT ![p] = Idle]
    /\ UNCHANGED <<now, status, charged, balance, paid, sentTo, open>>

Next ==
    \/ PassTime \/ PayOff
    \/ \E s \in {"ACTIVE", "ONHOLD", "CLOSED"} : SetStatus(s)
    \/ \E ok \in BOOLEAN : Extract(ok)
    \/ \E amount \in Amounts : Refund(amount)
    \/ \E p \in Payers :
          \/ \E amount \in Amounts : PurchaseBegin(p, amount)
          \/ PurchaseCheck(p) \/ PurchaseSave(p) \/ Fail(p)

Spec == Init /\ [][Next]_vars

-----------------------------------------------------------------------------
\* What the customer owes: eGARMS's balance and all that it was not told yet.
Unsent == {t \in Slots : t >= IF open # NoFile THEN open ELSE sentTo}
Owed == Total(Unsent) - balance

\* The windows sent, the open one and what is to come follow each other; what
\* eGARMS was told and what it was not add up to what was charged.
TypeOK ==
    /\ now \in Slots
    /\ paid \in 0..MaxPaid
    /\ sentTo \in 0..now
    /\ open \in {NoFile} \cup (0..sentTo)
    /\ Owed = Total(Slots) + External - paid

\* The customer never owes more than the limit, across failed extracts,
\* refunds and payments, when purchases do not overlap and none is made in the
\* hour from 21:00 (credit-account.service.ts validateCreditAccountPayment).
NeverOverdrawn == Owed <= Limit

=============================================================================
