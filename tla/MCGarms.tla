------------------------------ MODULE MCGarms ------------------------------
(***************************************************************************)
(* Instances for TLC of the exchange with GARMS: the ticks of the extract  *)
(* (GarmsExtract), the contents of its files (GarmsFile), a function of    *)
(* the transactions of one window, and the limit of a credit account       *)
(* (CreditLimit), which has the windows of serial ticks in it.  The        *)
(* initial state chooses the part that runs, and the others rest.          *)
(***************************************************************************)
EXTENDS GarmsExtract, TLC

CONSTANTS
    OverlapDays,    \* bound on the days when ticks overlap
    OverlapFiles,   \* bound on the rows when ticks overlap
    Payers, Prices, Limit, External, LimitDays, MaxPaid     \* of CreditLimit

VARIABLES
    part,                   \* the part that runs
    transactions, contents, \* of GarmsFile
    now, status, charged, balance, paid, sentTo, open, payment  \* of CreditLimit

extractVars == vars
contentsVars == <<transactions, contents>>
limitVars == <<now, status, charged, balance, paid, sentTo, open, payment>>
garmsVars == <<part, extractVars, contentsVars, limitVars>>

\* The extract when nothing fails.
Calm == INSTANCE GarmsExtract WITH Faults <- {}

\* STOS and STFR are reported under service codes of their own.
MCServiceCode == [t \in {"STOS", "STFR"} |-> IF t = "STFR" THEN 2 ELSE 1]

\* Three transactions of one permit each, on three dates.
Cash == INSTANCE GarmsFile WITH
    Dates <- {1, 2, 3}, PermitTypes <- {"STOS", "STFR"}, ServiceCode <- MCServiceCode,
    Methods <- {<<"CASH", "none">>, <<"ICEPAY", "PV">>}, Amounts <- {0, 3000},
    MaxTransactions <- 3, MaxPermits <- 1, file <- contents

\* Two transactions of up to two permits, in the other ways to pay.
Cards == INSTANCE GarmsFile WITH
    Dates <- {1, 2}, PermitTypes <- {"STOS", "STFR"}, ServiceCode <- MCServiceCode,
    Methods <- {<<"GA", "none">>, <<"CHEQUE", "none">>, <<"POS", "MD">>, <<"POS", "DB">>,
                <<"ICEPAY", "AM">>, <<"ICEPAY", "VI">>, <<"POS", "MC">>},
    Amounts <- {3000}, MaxTransactions <- 2, MaxPermits <- 2, file <- contents

\* Account payments, refunds included.
Credit == INSTANCE GarmsFile WITH
    Dates <- {1, 2, 3}, PermitTypes <- {"STOS", "STFR"}, ServiceCode <- MCServiceCode,
    Methods <- {<<"ACCOUNT", "none">>}, Amounts <- {0, 3000, 44000},
    MaxTransactions <- 2, MaxPermits <- 2, file <- contents

\* Nothing is bought or refunded from 21:00 to 21:59.
Limits == INSTANCE CreditLimit WITH
    Amounts <- Prices, MaxDay <- LimitDays, LateHour <- FALSE

ASSUME Cash!InputsAssumption /\ Cards!InputsAssumption /\ Credit!InputsAssumption

\* One purchase at a time.
ASSUME OnePayerAssumption ==
    /\ \A p, q \in Payers : p = q
    /\ Limits!AmountsAssumption
    /\ Limits!LimitAssumption

ExtractsAlone == {"alone", "calm"}

GarmsInit ==
    /\ part \in {"overlap", "alone", "calm", "cash", "cards", "credit", "limit"}
    /\ Init
    /\ Cash!Init
    /\ Limits!Init

AtMostOneBusy == Cardinality({r \in Runners : run[r] # Idle}) <= 1

WithinOverlapBounds ==
    /\ day <= OverlapDays
    /\ \A p \in Payments : approved[p] < OverlapDays \/ approved[p] = NotYet
    /\ \A i \in Used : i <= OverlapFiles

GarmsNext ==
    /\ UNCHANGED part
    /\ \/ /\ part = "overlap"
          /\ Next
          /\ WithinOverlapBounds'
          /\ UNCHANGED <<contentsVars, limitVars>>
       \/ /\ part = "alone"
          /\ Next
          /\ AtMostOneBusy'
          /\ UNCHANGED <<contentsVars, limitVars>>
       \/ /\ part = "calm"
          /\ Calm!Next
          /\ AtMostOneBusy'
          /\ UNCHANGED <<contentsVars, limitVars>>
       \/ /\ part = "cash"
          /\ Cash!Next
          /\ UNCHANGED <<extractVars, limitVars>>
       \/ /\ part = "cards"
          /\ Cards!Next
          /\ UNCHANGED <<extractVars, limitVars>>
       \/ /\ part = "credit"
          /\ Credit!Next
          /\ UNCHANGED <<extractVars, limitVars>>
       \/ /\ part = "limit"
          /\ Limits!Next
          /\ UNCHANGED <<extractVars, contentsVars>>

GarmsSpec == GarmsInit /\ [][GarmsNext]_garmsVars

\* Runners are interchangeable.
RunnerSymmetry == Permutations(Runners)

-----------------------------------------------------------------------------
(* The properties of the parts                                             *)

\* The type invariants of the extract and of the limit.
GarmsTypeOK == TypeOK /\ Limits!TypeOK

\* With one tick at a time the windows of the extract tile the time line and,
\* with permits issued in time, a submitted row's file holds every payment of
\* its window, whatever fails in between; when nothing fails, GARMS gets each
\* payment once.
AloneEachOnce ==
    /\ part \in ExtractsAlone => WindowsTile /\ (IssuedInTime => NothingMissed)
    /\ part = "calm" => SentOnce

\* The two files add up: the headers agree with their details and totals, and
\* combining dates loses no payment.
FilesAddUp == Cash!CashBalances /\ Cash!CashComplete /\ Credit!CreditComplete

\* The records have the length that the transfer declares, but for a zero
\* amount in the credit file.
RecordsFit == Cash!CashRecordsFit /\ Credit!CreditRecordsFit

\* When purchases do not overlap, the customer never owes more than the limit,
\* across failed extracts, refunds and payments.
NeverOverdrawn == Limits!NeverOverdrawn

=============================================================================
