--------------------------- MODULE MCCreditAccount ---------------------------
(***************************************************************************)
(* An instance of CreditAccount for TLC.  The initial state chooses whether*)
(* calls overlap: if not, they are about all of the companies and accounts,*)
(* otherwise about a part of them.                                         *)
(***************************************************************************)
EXTENDS CreditAccount, TLC

CONSTANTS
    OverlapCompanies,   \* the companies that overlapping calls are about
    OverlapAccounts,    \* bound on the accounts when calls overlap
    MaxVerified         \* bound on the accounts that are verified

VARIABLE serial     \* one call at a time

chosenVars == <<vars, serial>>

ChosenInit == Init /\ serial \in BOOLEAN

AtMostOne == Cardinality({p \in Calls : call[p] # Idle}) <= 1

WithinBounds == \A a \in Existing : account[a].verified => a <= MaxVerified

WithinOverlapBounds ==
    /\ Existing \subseteq 1..OverlapAccounts
    /\ \A p \in Calls : {call[p].company} \cup call[p].asked
                           \subseteq OverlapCompanies \cup {NoCompany}

ChosenNext ==
    /\ Next
    /\ UNCHANGED serial
    /\ WithinBounds'
    /\ IF serial THEN AtMostOne' ELSE WithinOverlapBounds'

ChosenSpec == ChosenInit /\ [][ChosenNext]_chosenVars

\* Calls are interchangeable, and so are companies, those of overlapping calls
\* among themselves.
CallSymmetry == Permutations(Calls) \cup Permutations(Companies)

-----------------------------------------------------------------------------
\* When calls do not overlap, a company never gets a second account, and no
\* company may charge two accounts as their user.
SerialOneAccount == serial => OneAccountPerHolder /\ OneAccountPerUser

\* When calls do not overlap, a closed account has no active users.
SerialClosedHasNoUsers == serial => ClosedHasNoUsers

=============================================================================
