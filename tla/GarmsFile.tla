------------------------------ MODULE GarmsFile ------------------------------
(***************************************************************************)
(* The contents of the two files for GARMS.  The transactions come from    *)
(* the query in any order; the cash file has a header for each date and    *)
(* one detail for each service code under it, the credit file one header   *)
(* and a detail for each permit.  Amounts are in cents; a record is        *)
(* abstracted to the values in it and to its length.                       *)
(***************************************************************************)
EXTENDS Integers, Sequences, SequencesExt, FiniteSets, FiniteSetsExt

CONSTANTS
    Dates,            \* the dates of approval, in order
    PermitTypes,
    ServiceCode,      \* getPermitTypeServiceCodes
    Methods,          \* the payment methods and cards of this instance, as pairs
    Amounts,          \* amounts of a permit, in cents
    MaxTransactions,  \* bound on the transactions of an extract
    MaxPermits        \* bound on the permits of a transaction

InputsAssumption ==
    /\ Dates \subseteq Nat
    /\ Amounts \subseteq Nat
    /\ ServiceCode \in [PermitTypes -> 1..9999]
    /\ MaxTransactions \in Nat
    /\ MaxPermits \in Nat \ {0}

NoCard == "none"

VARIABLES
    transactions, \* the result of the query
    file          \* the file made of it

vars == <<transactions, file>>

Permits == [type : PermitTypes, amount : Amounts]

Transactions ==
    [date : Dates, method : Methods, refund : BOOLEAN,
     permits : UNION {[1..n -> Permits] : n \in 1..MaxPermits}]

\* The extract of one type has either account payments or all others.
IsCredit(t) == t.method[1] = "ACCOUNT"

-----------------------------------------------------------------------------
(* Sums                                                                    *)

Total(values) == FoldLeft(LAMBDA acc, v : acc + v, 0, values)

\* getPaymentAmount
Signed(t, permit) == IF t.refund THEN -permit.amount ELSE permit.amount

\* The payments of some transactions: a permit each, with its date,
\* payment type, service code and signed amount.
Flattened(ts) ==
    LET Of(t) == [i \in DOMAIN t.permits |->
                    [date |-> t.date,
                     paidBy |-> IF t.method[2] # NoCard THEN t.method[2] ELSE t.method[1],
                     code |-> ServiceCode[t.permits[i].type],
                     amount |-> Signed(t, t.permits[i])]]
    IN FlattenSeq([i \in DOMAIN ts |-> Of(ts[i])])

Amount(ps) == Total([i \in DOMAIN ps |-> ps[i].amount])

Where(ps, Test(_)) == SelectSeq(ps, Test)

-----------------------------------------------------------------------------
(* groupTransactionsByDate                                                 *)

\* The dates in the order in which the transactions bring them up.
DatesSeen(ts) ==
    FoldLeft(LAMBDA acc, t : IF t.date \in ToSet(acc) THEN acc ELSE Append(acc, t.date),
             <<>>, ts)

Group(date, ts) == [date |-> date, transactions |-> ts]

OfDate(ts, d) == SelectSeq(ts, LAMBDA t : t.date = d)

\* Mutant: the second date's own transactions are overwritten.
GroupsFirstOnly(ts) ==
    LET dates == DatesSeen(ts)
        byDate == [i \in DOMAIN dates |-> Group(dates[i], OfDate(ts, dates[i]))]
    IN IF Len(dates) < 2 THEN byDate
       ELSE Append(SubSeq(byDate, 3, Len(dates)),
                   Group(dates[2], byDate[1].transactions))

\* The first two groups are combined under the date of the second, and the
\* combination goes to the end (its key is deleted and set again).
Groups(ts) ==
    LET dates == DatesSeen(ts)
        byDate == [i \in DOMAIN dates |-> Group(dates[i], OfDate(ts, dates[i]))]
    IN IF Len(dates) < 2 THEN byDate
       ELSE Append(SubSeq(byDate, 3, Len(dates)),
                   Group(dates[2], byDate[1].transactions \o byDate[2].transactions))

-----------------------------------------------------------------------------
(* Lengths of fields: padding never cuts.                                  *)

Digits(n) == Min({d \in 1..9 : n < 10^d})

NumberLength(n, length) == Max({length, Digits(n)})

Abs(n) == IF n < 0 THEN -n ELSE n

\* Mutant: a negative amount gets its sign in front of the padding, too.
AmountLengthSigned(cents, length) ==
    Max({length, Digits(Abs(cents) \div 100) + 3}) + (IF cents < 0 THEN 2 ELSE 1)

\* formatAmount: zero is a constant, whatever the length.
AmountLength(cents, length) ==
    IF cents = 0 THEN 11 ELSE Max({length, Digits(Abs(cents) \div 100) + 3}) + 1

CashLength == 140
CreditLength == 182

-----------------------------------------------------------------------------
(* createGarmsCashFile: a header and its details, for one group            *)

Buckets == {"CASH", "CHEQUE", "DB", "VI", "MC", "AM", "GA"}

BucketOf(paidBy) == CASE paidBy = "PV" -> "VI"
                      [] paidBy = "MD" -> "MC"
                      [] OTHER         -> paidBy

CashDetails(ps) ==
    [c \in {ps[i].code : i \in DOMAIN ps} |->
        LET of == Where(ps, LAMBDA p : p.code = c)
        IN [quantity |-> Len(of), amount |-> Amount(of)]]

CashHeader(ps) ==
    [recCount |-> Cardinality(DOMAIN CashDetails(ps)),
     revAmount |-> Amount(ps),
     totals |-> [b \in Buckets |-> Amount(Where(ps, LAMBDA p : BucketOf(p.paidBy) = b))],
     serviceQuantity |-> Len(ps)]

CashHeaderLength(h) ==
    1 + 5 + 8 + NumberLength(h.recCount, 6) + AmountLength(h.revAmount, 10)
      + MapThenSumSet(LAMBDA b : AmountLength(h.totals[b], 10), Buckets)
      + 11 + 11 + NumberLength(h.serviceQuantity, 5) + 5

CashDetailLength(code, d) ==
    1 + 5 + 8 + 4 + NumberLength(code, 4) + NumberLength(d.quantity, 5) + 5
      + AmountLength(d.amount, 10) + 15 + 15 + 1 + 66

CashGroup(g) ==
    LET ps == Flattened(g.transactions)
    IN [date |-> g.date, header |-> CashHeader(ps), details |-> CashDetails(ps)]

-----------------------------------------------------------------------------
(* createGarmsCreditFile                                                   *)

CreditDetails(ts) ==
    LET groups == Groups(ts)
        Of(g) == LET ps == Flattened(g.transactions)
                 IN [i \in DOMAIN ps |-> [date |-> g.date, code |-> ps[i].code,
                                          amount |-> ps[i].amount]]
    IN FlattenSeq([i \in DOMAIN groups |-> Of(groups[i])])

CreditHeader(details) ==
    [serviceCount |-> Len(details), revAmount |-> Amount(details)]

CreditHeaderLength(h) ==
    1 + 5 + 8 + 6 + NumberLength(h.serviceCount, 4) + NumberLength(h.serviceCount, 5) + 5
      + AmountLength(h.revAmount, 10) + 137

\* A credit account number has six characters, a permit id at most nine.
CreditDetailLength(d) ==
    1 + 5 + 8 + 5 + 8 + NumberLength(d.code, 4) + 5 + 25 + 25 + 35 + 5
      + AmountLength(d.amount, 9) + 15 + 15 + 6 + 1 + 9

-----------------------------------------------------------------------------
NoContents == [kind |-> "none", groups |-> <<>>, header |-> <<>>, details |-> <<>>]

Init ==
    /\ transactions = <<>>
    /\ file = NoContents

Fetch ==
    /\ file = NoContents
    /\ Len(transactions) < MaxTransactions
    /\ \E t \in Transactions :
        /\ \A u \in ToSet(transactions) : IsCredit(u) <=> IsCredit(t)
        /\ transactions' = Append(transactions, t)
    /\ UNCHANGED file

CreateCashFile ==
    LET groups == Groups(transactions) IN
    /\ file = NoContents
    /\ transactions # <<>>
    /\ ~IsCredit(transactions[1])
    /\ file' = [NoContents EXCEPT !.kind = "CASH",
                                  !.groups = [i \in DOMAIN groups |-> CashGroup(groups[i])]]
    /\ UNCHANGED transactions

CreateCreditFile ==
    LET details == CreditDetails(transactions) IN
    /\ file = NoContents
    /\ transactions # <<>>
    /\ IsCredit(transactions[1])
    /\ file' = [NoContents EXCEPT !.kind = "CREDIT", !.details = details,
                                  !.header = CreditHeader(details)]
    /\ UNCHANGED transactions

Next == Fetch \/ CreateCashFile \/ CreateCreditFile

Spec == Init /\ [][Next]_vars

-----------------------------------------------------------------------------
(* Properties                                                              *)

IsCash == file.kind = "CASH"
IsCreditFile == file.kind = "CREDIT"

NetOf(ts) ==
    Total([i \in DOMAIN ts |->
             LET sum == Total([j \in DOMAIN ts[i].permits |-> ts[i].permits[j].amount])
             IN IF ts[i].refund THEN -sum ELSE sum])

CountOf(ts) == Total([i \in DOMAIN ts |-> Len(ts[i].permits)])

\* Each header of the cash file agrees with its details: the revenue is the
\* sum of the details and the sum of the totals by payment type (no payment
\* type of the extract is without a total), the quantity that of the details.
CashBalances ==
    IsCash => \A i \in DOMAIN file.groups :
        LET h == file.groups[i].header
            d == file.groups[i].details
        IN /\ h.revAmount = MapThenSumSet(LAMBDA c : d[c].amount, DOMAIN d)
           /\ h.revAmount = MapThenSumSet(LAMBDA b : h.totals[b], Buckets)
           /\ h.serviceQuantity = MapThenSumSet(LAMBDA c : d[c].quantity, DOMAIN d)

\* Combining dates loses no transaction: over all headers the cash file has
\* the net amount and the number of the permits that were extracted.
CashComplete ==
    IsCash =>
        /\ Total([i \in DOMAIN file.groups |-> file.groups[i].header.revAmount])
             = NetOf(transactions)
        /\ Total([i \in DOMAIN file.groups |-> file.groups[i].header.serviceQuantity])
             = CountOf(transactions)

\* The cash file has the record length that the transfer declares (LRECL).
CashRecordsFit ==
    IsCash => \A i \in DOMAIN file.groups :
        LET g == file.groups[i]
        IN /\ CashHeaderLength(g.header) = CashLength
           /\ \A c \in DOMAIN g.details : CashDetailLength(c, g.details[c]) = CashLength

\* The header of the credit file agrees with the details and with the net
\* amount and the number of the permits that were extracted.
CreditComplete ==
    IsCreditFile =>
        /\ file.header.revAmount = NetOf(transactions)
        /\ file.header.serviceCount = CountOf(transactions)
        /\ CreditHeaderLength(file.header) = CreditLength

\* The details of the credit file have the record length that the transfer
\* declares, whatever the sign of the amount.  (A permit without a fee is the
\* exception: zero is formatted as a constant of eleven characters, and its
\* detail is one character longer.)
CreditRecordsFit ==
    IsCreditFile => \A i \in DOMAIN file.details :
        file.details[i].amount # 0 => CreditDetailLength(file.details[i]) = CreditLength

=============================================================================
