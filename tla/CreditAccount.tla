---------------------------- MODULE CreditAccount ----------------------------
(***************************************************************************)
(* Credit accounts, their holders and the companies that may charge them.  *)
(* Every operation reads what it checks in calls of its own and writes     *)
(* later by id, so that several calls may work from what they read before  *)
(* another one wrote; a call may also die at any step.                     *)
(***************************************************************************)
EXTENDS Integers, FiniteSets

CONSTANTS
    Calls,       \* how many API calls may be under way at once
    Companies,   \* the companies
    MaxAccounts, \* bound on the rows of ORBC_CREDIT_ACCOUNT
    MaxRows      \* bound on the rows of ORBC_CREDIT_ACCOUNT_USER

ASSUME BoundsAssumption == MaxAccounts \in Nat /\ MaxRows \in Nat

Accounts == 1..MaxAccounts
Rows == 1..MaxRows
None == 0
NoCompany == "no company"

ASSUME CompaniesAssumption == NoCompany \notin Companies

\* CreditAccountStatus, and the part of it a call may ask for.
Status == {"ACTIVE", "ONHOLD", "CLOSED", "SETUP_FAIL"}
StatusValid == {"ACTIVE", "ONHOLD", "CLOSED"}
Activities == {"none", "OPENED", "REOPENED", "HOLDRMVD", "ONHOLD", "CLOSED"}

VARIABLES
    account, \* the accounts, each with the last status activity of its history
    user,    \* the rows that make a company a user of an account
    call     \* what each call is doing

vars == <<account, user, call>>

NoAccount == [holder |-> NoCompany, status |-> "SETUP_FAIL", verified |-> FALSE,
              setUp |-> FALSE, last |-> "none"]
NoRow == [account |-> None, company |-> NoCompany, active |-> FALSE]
Idle == [step |-> "idle", account |-> None, company |-> NoCompany,
         from |-> "SETUP_FAIL", to |-> "SETUP_FAIL", row |-> None,
         asked |-> {}, failed |-> {}, rows |-> {}, setUp |-> FALSE]

Init ==
    /\ account = [a \in Accounts |-> NoAccount]
    /\ user = [r \in Rows |-> NoRow]
    /\ call = [p \in Calls |-> Idle]

Existing == {a \in Accounts : account[a].holder # NoCompany}
HeldBy(c) == {a \in Existing : account[a].holder = c}
UserRows == {r \in Rows : user[r].account # None}
RowsOf(c) == {r \in UserRows : user[r].company = c}
ActiveRows == {r \in UserRows : user[r].active}

Begin(p, step) ==
    /\ call[p].step = "idle"
    /\ call' = [call EXCEPT ![p] = step]
Advance(p, from, to) ==
    /\ call[p].step = from
    /\ call' = [call EXCEPT ![p].step = to]
Return(p) == call' = [call EXCEPT ![p] = Idle]

-----------------------------------------------------------------------------
(* create: two checks, four calls to CFS, then the row.                    *)

\* validateCreateCreditAccount: the company is no active user of any account ...
CreateCheckUser(p, c) ==
    /\ RowsOf(c) \cap ActiveRows = {}
    /\ Begin(p, [Idle EXCEPT !.step = "create.holder", !.company = c])
    /\ UNCHANGED <<account, user>>

\* ... and has never had an account, in any status.
MayOpen(c) == HeldBy(c) = {}

CreateCheckHolder(p) ==
    /\ IF MayOpen(call[p].company) THEN Advance(p, "create.holder", "create.cfs")
       ELSE call[p].step = "create.holder" /\ Return(p)
    /\ UNCHANGED <<account, user>>

\* Party, account, site and contact: without a party nothing is saved, a
\* failure after it leaves the account set up in part.
CreateInCfs(p) ==
    /\ call[p].step = "create.cfs"
    /\ \/ \E ok \in BOOLEAN :
            call' = [call EXCEPT ![p].step = "create.save", ![p].setUp = ok]
       \/ Return(p)
    /\ UNCHANGED <<account, user>>

\* The opening activity is saved on its own; that it was not is only logged.
CreateSave(p) ==
    /\ call[p].step = "create.save"
    /\ Existing # Accounts
    /\ \E last \in IF call[p].setUp THEN {"OPENED", "none"} ELSE {"none"} :
          account' = [account EXCEPT ![Cardinality(Existing) + 1] =
              [holder |-> call[p].company, verified |-> FALSE,
               setUp |-> call[p].setUp, last |-> last,
               status |-> IF call[p].setUp THEN "ACTIVE" ELSE "SETUP_FAIL"]]
    /\ Return(p)
    /\ UNCHANGED user

-----------------------------------------------------------------------------
(* updateCreditAccountStatus and verifyCreditAccount                       *)

StatusRead(p, a, to) ==
    /\ a \in Existing
    /\ account[a].status # to
    /\ ~(to = "ONHOLD" /\ account[a].status = "CLOSED")
    /\ Begin(p, [Idle EXCEPT !.step = "status.write", !.account = a,
                             !.from = account[a].status, !.to = to])
    /\ UNCHANGED <<account, user>>

\* Mutant: an account that could not be set up is opened by the way.
ActivityTypeOpened(from, to) ==
    IF to # "ACTIVE" THEN to
    ELSE IF from = "CLOSED" THEN "REOPENED"
    ELSE IF from = "ONHOLD" THEN "HOLDRMVD"
    ELSE "OPENED"

\* getCreditAccountActivityType, of the account as it was read.
ActivityType(from, to) ==
    IF to # "ACTIVE" THEN to
    ELSE IF from = "CLOSED" THEN "REOPENED"
    ELSE IF from = "ONHOLD" THEN "HOLDRMVD"
    ELSE "none"

\* Mutant: a closed account keeps its users.
AfterStatusKept(a, to) == user

\* Closing an account deactivates all of its users.
AfterStatus(a, to) ==
    [r \in Rows |-> IF to = "CLOSED" /\ user[r].account = a
                    THEN [user[r] EXCEPT !.active = FALSE] ELSE user[r]]

\* One transaction; the activity's type may not be null, the whole of it is
\* rolled back if there is none.
StatusWrite(p) ==
    LET a == call[p].account
        activity == ActivityType(call[p].from, call[p].to)
    IN
    /\ call[p].step = "status.write"
    /\ IF activity = "none" THEN UNCHANGED <<account, user>>
       ELSE /\ account' = [account EXCEPT ![a].status = call[p].to,
                                          ![a].last = activity]
            /\ user' = AfterStatus(a, call[p].to)
    /\ Return(p)

VerifyRead(p, a) ==
    /\ a \in Existing
    /\ ~account[a].verified
    /\ Begin(p, [Idle EXCEPT !.step = "verify.write", !.account = a])
    /\ UNCHANGED <<account, user>>

VerifyWrite(p) ==
    /\ call[p].step = "verify.write"
    /\ account' = [account EXCEPT ![call[p].account].verified = TRUE]
    /\ Return(p)
    /\ UNCHANGED user

-----------------------------------------------------------------------------
(* addOrActivateCreditAccountUser                                          *)

AddRead(p, a, c) ==
    /\ a \in Existing
    /\ account[a].status # "CLOSED"
    /\ Begin(p, [Idle EXCEPT !.step = "add.holder", !.account = a, !.company = c])
    /\ UNCHANGED <<account, user>>

\* findOne returns one of the accounts the company holds; only an active one
\* refuses the call.
AddCheckHolder(p) ==
    LET held == HeldBy(call[p].company) IN
    /\ \/ /\ held = {} \/ \E a \in held : account[a].status # "ACTIVE"
          /\ Advance(p, "add.holder", "add.users")
       \/ /\ call[p].step = "add.holder"
          /\ \E a \in held : account[a].status = "ACTIVE"
          /\ Return(p)
    /\ UNCHANGED <<account, user>>

\* Mutant: only the rows of this account are looked at.
InTheWayHere(p) == {r \in RowsOf(call[p].company) \cap ActiveRows :
                      user[r].account = call[p].account}

InTheWay(p) == RowsOf(call[p].company) \cap ActiveRows

\* The company's row of this account, if it has one, is activated again.
AddCheckUsers(p) ==
    LET mapped == {r \in RowsOf(call[p].company) : user[r].account = call[p].account} IN
    /\ call[p].step = "add.users"
    /\ IF InTheWay(p) # {} THEN Return(p)
       ELSE IF mapped = {} THEN Advance(p, "add.users", "add.insert")
       ELSE \E r \in mapped :
              call' = [call EXCEPT ![p].step = "add.activate", ![p].row = r]
    /\ UNCHANGED <<account, user>>

AddActivate(p) ==
    /\ call[p].step = "add.activate"
    /\ user' = [user EXCEPT ![call[p].row].active = TRUE]
    /\ Return(p)
    /\ UNCHANGED account

AddInsert(p) ==
    /\ call[p].step = "add.insert"
    /\ UserRows # Rows
    /\ user' = [user EXCEPT ![Cardinality(UserRows) + 1] =
                   [account |-> call[p].account, company |-> call[p].company,
                    active |-> TRUE]]
    /\ Return(p)
    /\ UNCHANGED account

-----------------------------------------------------------------------------
(* deactivateCreditAccountUser                                             *)

DeactivateRead(p, a, cs) ==
    /\ a \in Existing
    /\ cs # {}
    /\ Begin(p, [Idle EXCEPT !.step = "remove.holders", !.account = a, !.asked = cs])
    /\ UNCHANGED <<account, user>>

\* Mutant: neither the query nor the filter asks for the companies of the call.
HoldersAll(p) == {c \in Companies : HeldBy(c) # {}}

HoldersAsked(p) == {c \in call[p].asked : HeldBy(c) # {}}

\* Companies that hold an account, whichever, are reported as failures ...
DeactivateCheckHolders(p) ==
    /\ call[p].step = "remove.holders"
    /\ call' = [call EXCEPT ![p].step = "remove.users",
                            ![p].failed = HoldersAsked(p)]
    /\ UNCHANGED <<account, user>>

\* ... but the rows to deactivate are those of all companies asked for, and
\* the other companies without one are failures too.
DeactivateReadUsers(p) ==
    LET rows == {r \in ActiveRows : /\ user[r].account = call[p].account
                                    /\ user[r].company \in call[p].asked}
        active == {user[r].company : r \in rows}
    IN
    /\ call[p].step = "remove.users"
    /\ IF rows = {} THEN Return(p)
       ELSE call' = [call EXCEPT ![p].step = "remove.write", ![p].rows = rows,
                       ![p].failed = @ \cup (call[p].asked \ active)]
    /\ UNCHANGED <<account, user>>

DeactivateWrite(p) ==
    /\ call[p].step = "remove.write"
    /\ user' = [r \in Rows |-> IF r \in call[p].rows
                               THEN [user[r] EXCEPT !.active = FALSE] ELSE user[r]]
    /\ Return(p)
    /\ UNCHANGED account

-----------------------------------------------------------------------------
\* The pod stops, or a query fails: what was written stays.
Die(p) ==
    /\ call[p].step # "idle"
    /\ Return(p)
    /\ UNCHANGED <<account, user>>

Step(p) ==
    \/ CreateCheckHolder(p) \/ CreateInCfs(p) \/ CreateSave(p)
    \/ StatusWrite(p) \/ VerifyWrite(p)
    \/ AddCheckHolder(p) \/ AddCheckUsers(p) \/ AddActivate(p) \/ AddInsert(p)
    \/ DeactivateCheckHolders(p) \/ DeactivateReadUsers(p) \/ DeactivateWrite(p)

Request(p) ==
    \/ \E c \in Companies : CreateCheckUser(p, c)
    \/ \E a \in Accounts, to \in StatusValid : StatusRead(p, a, to)
    \/ \E a \in Accounts : VerifyRead(p, a)
    \/ \E a \in Accounts, c \in Companies : AddRead(p, a, c)
    \/ \E a \in Accounts, cs \in SUBSET Companies : DeactivateRead(p, a, cs)

Next == \E p \in Calls : Request(p) \/ Step(p) \/ Die(p)

Spec == Init /\ [][Next]_vars

-----------------------------------------------------------------------------
TypeOK ==
    /\ account \in [Accounts -> [holder : Companies \cup {NoCompany},
                                 status : Status, verified : BOOLEAN,
                                 setUp : BOOLEAN, last : Activities]]
    /\ user \in [Rows -> [account : Accounts \cup {None},
                          company : Companies \cup {NoCompany}, active : BOOLEAN]]
    /\ \A p \in Calls :
          /\ call[p].failed \subseteq call[p].asked
          /\ \A r \in call[p].rows : user[r].account = call[p].account

\* The status of an account is the one its last status activity tells, even
\* when two calls overlap: the activity is chosen from the account as it was
\* read and the status is written whatever it has become
\* (credit-account.service.ts updateCreditAccountStatus).  An account that was
\* set up may lack its opening activity; one that was not has none until it is
\* held or closed.
StatusAsRecorded ==
    \A a \in Existing :
       LET s == account[a].status
           l == account[a].last
       IN CASE s = "SETUP_FAIL" -> l = "none" /\ ~account[a].setUp
            [] s = "ACTIVE" -> \/ l \in {"REOPENED", "HOLDRMVD"}
                               \/ account[a].setUp /\ l \in {"OPENED", "none"}
            [] OTHER -> l = s

\* A company never gets a second account, of whatever status the first one is,
\* as long as calls do not overlap (validateCreateCreditAccount).
OneAccountPerHolder ==
    \A c \in Companies : Cardinality(HeldBy(c)) <= 1

\* No company may charge two accounts as their user, whatever was added,
\* removed, closed and opened again, as long as calls do not overlap
\* (addOrActivateCreditAccountUser).
OneAccountPerUser ==
    \A r, s \in ActiveRows : user[r].company = user[s].company => r = s

\* A closed account has no active users, as long as calls do not overlap: not
\* even after one that was on hold was closed, and none comes back with the
\* row of an earlier membership.
ClosedHasNoUsers ==
    \A r \in ActiveRows : account[user[r].account].status # "CLOSED"

=============================================================================
