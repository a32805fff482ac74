------------------------- MODULE CreditAccountProofs -------------------------
(***************************************************************************)
(* Proofs about CreditAccount, for every number of calls, companies,       *)
(* accounts and rows: its types and the status of an account, whatever     *)
(* calls overlap or die; and, for calls that do not overlap, what holds of *)
(* holders, users and closed accounts.                                     *)
(***************************************************************************)
EXTENDS MCCreditAccount, FiniteSetTheorems, TLAPS

USE BoundsAssumption, CompaniesAssumption

(***************************************************************************)
(* The inductive invariant of calls that may overlap.                      *)
(***************************************************************************)

CreateSteps == {"create.holder", "create.cfs", "create.save"}
StatusSteps == {"status.write", "verify.write"}
AddSteps == {"add.holder", "add.users", "add.activate", "add.insert"}
RemoveSteps == {"remove.holders", "remove.users", "remove.write"}
Steps == {"idle"} \cup CreateSteps \cup StatusSteps \cup AddSteps \cup RemoveSteps

AccountType == [holder : Companies \cup {NoCompany}, status : Status, verified : BOOLEAN,
                setUp : BOOLEAN, last : Activities]
RowType == [account : Accounts \cup {None}, company : Companies \cup {NoCompany},
            active : BOOLEAN]
CallType == [step : Steps, account : Accounts \cup {None}, company : Companies \cup {NoCompany},
             from : Status, to : Status, row : Rows \cup {None}, asked : SUBSET Companies,
             failed : SUBSET Companies, rows : SUBSET Rows, setUp : BOOLEAN]

\* Rows get the next number, in both tables.
AccountsFilled == \E n \in 0..MaxAccounts : Existing = 1..n
RowsFilled == \E n \in 0..MaxRows : UserRows = 1..n

\* A row is about an account that exists.
RowsHaveAccounts ==
    \A r \in UserRows : user[r].account \in Existing /\ user[r].company \in Companies

TablesOK ==
    /\ account \in [Accounts -> AccountType]
    /\ user \in [Rows -> RowType]
    /\ AccountsFilled
    /\ RowsFilled
    /\ RowsHaveAccounts

\* What a call has read is of an account and of rows that exist.
CallOK(w) ==
    /\ w.failed \subseteq w.asked
    /\ w.step \in CreateSteps \cup AddSteps => w.company \in Companies
    /\ w.step \in StatusSteps \cup AddSteps \cup RemoveSteps => w.account \in Existing
    /\ w.step = "status.write" => w.to \in StatusValid
    /\ w.step = "add.activate" => /\ w.row \in UserRows
                                  /\ user[w.row].account = w.account
                                  /\ user[w.row].company = w.company
    /\ \A r \in w.rows : r \in UserRows /\ user[r].account = w.account

CallsOK ==
    /\ call \in [Calls -> CallType]
    /\ \A p \in Calls : CallOK(call[p])

CreditInv == TablesOK /\ CallsOK /\ StatusAsRecorded

-----------------------------------------------------------------------------
(* The next number                                                         *)

\* One more than the rows there are is the number after the last one.
LEMMA NextNumber ==
    ASSUME NEW n \in Nat, NEW S, S = 1..n
    PROVE  IsFiniteSet(S) /\ Cardinality(S) = n
<1>1. IsFiniteSet(1..n) /\ Cardinality(1..n) = IF 1 > n THEN 0 ELSE n - 1 + 1
  BY FS_Interval
<1> QED
  BY <1>1

LEMMA NextAccount ==
    ASSUME AccountsFilled, Existing # Accounts
    PROVE  /\ Cardinality(Existing) + 1 \in Accounts
           /\ \E n \in 0..MaxAccounts :
                 /\ Existing = 1..n
                 /\ Cardinality(Existing) = n /\ n + 1 \in 0..MaxAccounts
                 /\ n + 1 \notin Existing
<1> PICK n \in 0..MaxAccounts : Existing = 1..n
  BY DEF AccountsFilled
<1>1. Cardinality(Existing) = n
  BY NextNumber
<1>2. n # MaxAccounts
  BY DEF Accounts
<1> QED
  BY <1>1, <1>2 DEF Accounts

LEMMA NextRow ==
    ASSUME RowsFilled, UserRows # Rows
    PROVE  /\ Cardinality(UserRows) + 1 \in Rows
           /\ \E n \in 0..MaxRows :
                 /\ UserRows = 1..n
                 /\ Cardinality(UserRows) = n /\ n + 1 \in 0..MaxRows
                 /\ n + 1 \notin UserRows
<1> PICK n \in 0..MaxRows : UserRows = 1..n
  BY DEF RowsFilled
<1>1. Cardinality(UserRows) = n
  BY NextNumber
<1>2. n # MaxRows
  BY DEF Rows
<1> QED
  BY <1>1, <1>2 DEF Rows

-----------------------------------------------------------------------------
(* Steps that write                                                        *)

LEMMA IdleOK == Idle \in CallType /\ CallOK(Idle)
  BY DEF Idle, CallType, Steps, Status, None, CallOK, CreateSteps, StatusSteps, AddSteps,
         RemoveSteps

\* What was read of the tables stays so: rows are only added, and a row stays
\* one of its account and its company.
Grows ==
    /\ Existing \subseteq Existing'
    /\ UserRows \subseteq UserRows'
    /\ \A r \in UserRows : /\ user'[r].account = user[r].account
                           /\ user'[r].company = user[r].company

\* The call under way in p becomes w; the other calls stay what they were.
LEMMA CallStep ==
    ASSUME CallsOK, NEW p \in Calls, NEW w \in CallType, call' = [call EXCEPT ![p] = w],
           CallOK(w), Grows
    PROVE  CallsOK'
<1>1. /\ call' \in [Calls -> CallType]
      /\ call'[p] = w /\ \A q \in Calls \ {p} : call'[q] = call[q]
  BY DEF CallsOK
<1>2. ASSUME NEW v, CallOK(v)
      PROVE  /\ v.failed \subseteq v.asked
             /\ v.step \in CreateSteps \cup AddSteps => v.company \in Companies
             /\ v.step \in StatusSteps \cup AddSteps \cup RemoveSteps => v.account \in Existing'
             /\ v.step = "status.write" => v.to \in StatusValid
             /\ v.step = "add.activate" => /\ v.row \in UserRows'
                                           /\ user'[v.row].account = v.account
                                           /\ user'[v.row].company = v.company
             /\ \A r \in v.rows : r \in UserRows' /\ user'[r].account = v.account
  BY <1>2 DEF CallOK, Grows
<1>3. \A q \in Calls : CallOK(call[q])'
  <2> TAKE q \in Calls
  <2>1. CallOK(call'[q])
    BY <1>1 DEF CallsOK
  <2> QED
    BY <1>2, <2>1 DEF CallOK
<1> QED
  BY <1>1, <1>3 DEF CallsOK

\* A step that only reads.
LEMMA ReadStep ==
    ASSUME CreditInv, NEW p \in Calls, NEW w \in CallType, call' = [call EXCEPT ![p] = w],
           CallOK(w), UNCHANGED <<account, user>>
    PROVE  CreditInv'
<1>1. Existing' = Existing /\ UserRows' = UserRows
  BY DEF Existing, UserRows
<1>2. TablesOK' /\ StatusAsRecorded'
  BY <1>1 DEF CreditInv, TablesOK, AccountsFilled, RowsFilled, RowsHaveAccounts,
              StatusAsRecorded
<1>3. Grows
  BY <1>1 DEF Grows
<1> QED
  BY <1>2, <1>3, CallStep DEF CreditInv

\* A step that writes and returns.
LEMMA WriteStep ==
    ASSUME CreditInv, NEW p \in Calls, Return(p), TablesOK', StatusAsRecorded', Grows
    PROVE  CreditInv'
  BY IdleOK, CallStep DEF Return, CreditInv

-----------------------------------------------------------------------------
(* The steps                                                               *)

\* A call that ends leaves the tables to the others.
LEMMA ReturnStep ==
    ASSUME CreditInv, NEW p \in Calls, Return(p), UNCHANGED <<account, user>>
    PROVE  CreditInv'
  BY IdleOK, ReadStep DEF Return

\* A step that goes on with what the call has read so far.
LEMMA AdvanceStep ==
    ASSUME CreditInv, NEW p \in Calls, NEW from, NEW to \in Steps, Advance(p, from, to),
           CallOK([call[p] EXCEPT !.step = to]), UNCHANGED <<account, user>>
    PROVE  CreditInv'
<1>1. call[p] \in CallType
  BY DEF CreditInv, CallsOK
<1>2. call' = [call EXCEPT ![p] = [call[p] EXCEPT !.step = to]]
  BY DEF Advance
<1>3. [call[p] EXCEPT !.step = to] \in CallType
  BY <1>1 DEF CallType
<1> QED
  BY <1>2, <1>3, ReadStep

LEMMA CreateStep ==
    ASSUME CreditInv, NEW p \in Calls,
           \/ \E c \in Companies : CreateCheckUser(p, c)
           \/ CreateCheckHolder(p) \/ CreateInCfs(p)
    PROVE  CreditInv'
<1>1. call[p] \in CallType /\ CallOK(call[p])
  BY DEF CreditInv, CallsOK
<1>2. ASSUME NEW c \in Companies, CreateCheckUser(p, c)
      PROVE  CreditInv'
  <2> DEFINE w == [Idle EXCEPT !.step = "create.holder", !.company = c]
  <2>1. w \in CallType /\ CallOK(w)
    BY DEF Idle, CallType, Steps, Status, None, CallOK, CreateSteps, StatusSteps, AddSteps,
           RemoveSteps
  <2>2. call' = [call EXCEPT ![p] = w] /\ UNCHANGED <<account, user>>
    BY <1>2 DEF CreateCheckUser, Begin
  <2> HIDE DEF w
  <2> QED
    BY <2>1, <2>2, ReadStep
<1>3. CASE CreateCheckHolder(p)
  <2>1. CASE Return(p)
    BY <1>3, <2>1, ReturnStep DEF CreateCheckHolder
  <2>2. CASE Advance(p, "create.holder", "create.cfs")
    <3>1. "create.cfs" \in Steps
      BY DEF Steps, CreateSteps
    <3>2. CallOK([call[p] EXCEPT !.step = "create.cfs"])
      BY <1>1, <2>2 DEF Advance, CallOK, CallType, CreateSteps, StatusSteps, AddSteps, RemoveSteps
    <3> QED
      BY <1>3, <2>2, <3>1, <3>2, AdvanceStep DEF CreateCheckHolder
  <2> QED
    BY <1>3, <2>1, <2>2 DEF CreateCheckHolder
<1>4. CASE CreateInCfs(p)
  <2>1. ASSUME NEW ok \in BOOLEAN,
               call' = [call EXCEPT ![p].step = "create.save", ![p].setUp = ok]
        PROVE  CreditInv'
    <3> DEFINE w == [call[p] EXCEPT !.step = "create.save", !.setUp = ok]
    <3>1. call' = [call EXCEPT ![p] = w]
      BY <2>1
    <3>2. w \in CallType
      <4>1. "create.save" \in Steps
        BY DEF Steps, CreateSteps
      <4> QED
        BY <1>1, <4>1 DEF CallType
    <3>3. CallOK(w)
      BY <1>1, <1>4 DEF CreateInCfs, CallOK, CallType, CreateSteps, StatusSteps, AddSteps,
                        RemoveSteps
    <3> HIDE DEF w
    <3> QED
      BY <1>4, <3>1, <3>2, <3>3, ReadStep DEF CreateInCfs
  <2> QED
    BY <1>4, <2>1, ReturnStep DEF CreateInCfs
<1> QED
  BY <1>2, <1>3, <1>4

LEMMA StatusReadStep ==
    ASSUME CreditInv, NEW p \in Calls, NEW a \in Accounts, NEW to \in StatusValid,
           StatusRead(p, a, to)
    PROVE  CreditInv'
<1> DEFINE w == [Idle EXCEPT !.step = "status.write", !.account = a,
                             !.from = account[a].status, !.to = to]
<1>1. account[a].status \in Status /\ a \in Existing
  BY DEF CreditInv, TablesOK, AccountType, StatusRead
<1>2. w \in CallType /\ CallOK(w)
  BY <1>1 DEF Idle, CallType, Steps, Status, StatusValid, None, CallOK, CreateSteps, StatusSteps,
              AddSteps, RemoveSteps
<1>3. call' = [call EXCEPT ![p] = w] /\ UNCHANGED <<account, user>>
  BY DEF StatusRead, Begin
<1> HIDE DEF w
<1> QED
  BY <1>2, <1>3, ReadStep

LEMMA VerifyReadStep ==
    ASSUME CreditInv, NEW p \in Calls, NEW a \in Accounts, VerifyRead(p, a)
    PROVE  CreditInv'
<1> DEFINE w == [Idle EXCEPT !.step = "verify.write", !.account = a]
<1>1. w \in CallType /\ CallOK(w)
  BY DEF VerifyRead, Idle, CallType, Steps, Status, None, CallOK, CreateSteps, StatusSteps,
         AddSteps, RemoveSteps
<1>2. call' = [call EXCEPT ![p] = w] /\ UNCHANGED <<account, user>>
  BY DEF VerifyRead, Begin
<1> HIDE DEF w
<1> QED
  BY <1>1, <1>2, ReadStep

LEMMA AddReadStep ==
    ASSUME CreditInv, NEW p \in Calls, NEW a \in Accounts, NEW c \in Companies,
           AddRead(p, a, c)
    PROVE  CreditInv'
<1> DEFINE w == [Idle EXCEPT !.step = "add.holder", !.account = a, !.company = c]
<1>1. w \in CallType /\ CallOK(w)
  BY DEF AddRead, Idle, CallType, Steps, Status, None, CallOK, CreateSteps, StatusSteps,
         AddSteps, RemoveSteps
<1>2. call' = [call EXCEPT ![p] = w] /\ UNCHANGED <<account, user>>
  BY DEF AddRead, Begin
<1> HIDE DEF w
<1> QED
  BY <1>1, <1>2, ReadStep

LEMMA AddCheckStep ==
    ASSUME CreditInv, NEW p \in Calls, AddCheckHolder(p) \/ AddCheckUsers(p)
    PROVE  CreditInv'
<1>1. call[p] \in CallType /\ CallOK(call[p])
  BY DEF CreditInv, CallsOK
<1>2. CASE Return(p)
  BY <1>2, ReturnStep DEF AddCheckHolder, AddCheckUsers
<1>3. CASE Advance(p, "add.holder", "add.users")
  <2>1. "add.users" \in Steps
    BY DEF Steps, AddSteps
  <2>2. CallOK([call[p] EXCEPT !.step = "add.users"])
    BY <1>1, <1>3 DEF Advance, CallOK, CallType, CreateSteps, StatusSteps, AddSteps, RemoveSteps
  <2> QED
    BY <1>3, <2>1, <2>2, AdvanceStep DEF AddCheckHolder, AddCheckUsers
<1>4. CASE Advance(p, "add.users", "add.insert")
  <2>1. "add.insert" \in Steps
    BY DEF Steps, AddSteps
  <2>2. CallOK([call[p] EXCEPT !.step = "add.insert"])
    BY <1>1, <1>4 DEF Advance, CallOK, CallType, CreateSteps, StatusSteps, AddSteps, RemoveSteps
  <2> QED
    BY <1>4, <2>1, <2>2, AdvanceStep DEF AddCheckHolder, AddCheckUsers
<1>5. ASSUME AddCheckUsers(p), NEW r \in RowsOf(call[p].company),
             user[r].account = call[p].account,
             call' = [call EXCEPT ![p].step = "add.activate", ![p].row = r]
      PROVE  CreditInv'
  <2> DEFINE w == [call[p] EXCEPT !.step = "add.activate", !.row = r]
  <2>1. r \in UserRows /\ r \in Rows /\ user[r].company = call[p].company
    BY DEF RowsOf, UserRows
  <2>2. call' = [call EXCEPT ![p] = w]
    BY <1>5
  <2>3. w \in CallType
    <3>1. "add.activate" \in Steps
      BY DEF Steps, AddSteps
    <3> QED
      BY <1>1, <2>1, <3>1 DEF CallType
  <2>4. CallOK(w)
    BY <1>1, <1>5, <2>1 DEF AddCheckUsers, CallOK, CallType, CreateSteps, StatusSteps, AddSteps,
                            RemoveSteps
  <2> HIDE DEF w
  <2> QED
    BY <1>5, <2>2, <2>3, <2>4, ReadStep DEF AddCheckUsers
<1> QED
  BY <1>2, <1>3, <1>4, <1>5 DEF AddCheckHolder, AddCheckUsers

LEMMA RemoveReadStep ==
    ASSUME CreditInv, NEW p \in Calls, NEW a \in Accounts, NEW cs \in SUBSET Companies,
           DeactivateRead(p, a, cs)
    PROVE  CreditInv'
<1> DEFINE w == [Idle EXCEPT !.step = "remove.holders", !.account = a, !.asked = cs]
<1>1. w \in CallType /\ CallOK(w)
  BY DEF DeactivateRead, Idle, CallType, Steps, Status, None, CallOK, CreateSteps, StatusSteps,
         AddSteps, RemoveSteps
<1>2. call' = [call EXCEPT ![p] = w] /\ UNCHANGED <<account, user>>
  BY DEF DeactivateRead, Begin
<1> HIDE DEF w
<1> QED
  BY <1>1, <1>2, ReadStep

LEMMA RemoveCheckStep ==
    ASSUME CreditInv, NEW p \in Calls, DeactivateCheckHolders(p)
    PROVE  CreditInv'
<1> DEFINE holders == HoldersAsked(p)
           w == [call[p] EXCEPT !.step = "remove.users", !.failed = holders]
<1>1. call[p] \in CallType /\ CallOK(call[p])
  BY DEF CreditInv, CallsOK
<1>2. call' = [call EXCEPT ![p] = w] /\ UNCHANGED <<account, user>>
  BY DEF DeactivateCheckHolders
<1>3. holders \subseteq call[p].asked
  BY DEF HoldersAsked
<1>4. call[p].step = "remove.holders"
  BY DEF DeactivateCheckHolders
<1> HIDE DEF holders
<1>5. w \in CallType
  <2>1. "remove.users" \in Steps
    BY DEF Steps, RemoveSteps
  <2> QED
    BY <1>1, <1>3, <2>1 DEF CallType
<1>6. CallOK(w)
  BY <1>1, <1>3, <1>4 DEF CallOK, CallType, CreateSteps, StatusSteps, AddSteps, RemoveSteps
<1> HIDE DEF w
<1> QED
  BY <1>2, <1>5, <1>6, ReadStep

LEMMA RemoveUsersStep ==
    ASSUME CreditInv, NEW p \in Calls, DeactivateReadUsers(p)
    PROVE  CreditInv'
<1> DEFINE rows == {r \in ActiveRows : /\ user[r].account = call[p].account
                                       /\ user[r].company \in call[p].asked}
           failed == call[p].failed \cup (call[p].asked \ {user[r].company : r \in rows})
           w == [call[p] EXCEPT !.step = "remove.write", !.rows = rows, !.failed = failed]
<1>1. call[p] \in CallType /\ CallOK(call[p])
  BY DEF CreditInv, CallsOK
<1>2. CASE Return(p)
  BY <1>2, ReturnStep DEF DeactivateReadUsers
<1>3. CASE call' = [call EXCEPT ![p] = w]
  <2>1. \A r \in rows : r \in Rows /\ r \in UserRows /\ user[r].account = call[p].account
    BY DEF ActiveRows, UserRows
  <2>2. failed \subseteq call[p].asked
    BY <1>1 DEF CallOK
  <2>3. call[p].step = "remove.users" /\ UNCHANGED <<account, user>>
    BY DEF DeactivateReadUsers
  <2> HIDE DEF rows, failed
  <2>4. w \in CallType
    <3>1. "remove.write" \in Steps
      BY DEF Steps, RemoveSteps
    <3> QED
      BY <1>1, <2>1, <2>2, <3>1 DEF CallType
  <2>5. CallOK(w)
    BY <1>1, <2>1, <2>2, <2>3 DEF CallOK, CallType, CreateSteps, StatusSteps, AddSteps, RemoveSteps
  <2> HIDE DEF w
  <2> QED
    BY <1>3, <2>3, <2>4, <2>5, ReadStep
<1> QED
  BY <1>2, <1>3 DEF DeactivateReadUsers

\* A step that writes, and adds no row.
LEMMA KeptStep ==
    ASSUME CreditInv, NEW p \in Calls, Return(p),
           account' \in [Accounts -> AccountType], user' \in [Rows -> RowType],
           \A a \in Accounts : account'[a].holder = account[a].holder,
           \A r \in Rows : user'[r].account = user[r].account /\ user'[r].company = user[r].company,
           StatusAsRecorded'
    PROVE  CreditInv'
<1>1. Existing' = Existing /\ UserRows' = UserRows
  BY DEF Existing, UserRows
<1>2. \A r \in UserRows : r \in Rows
  BY DEF UserRows
<1>3. TablesOK'
  BY <1>1, <1>2 DEF CreditInv, TablesOK, AccountsFilled, RowsFilled, RowsHaveAccounts
<1>4. Grows
  BY <1>1, <1>2 DEF Grows
<1> QED
  BY <1>3, <1>4, WriteStep

LEMMA VerifyWriteStep ==
    ASSUME CreditInv, NEW p \in Calls, VerifyWrite(p)
    PROVE  CreditInv'
<1> PICK a \in Accounts : a = call[p].account
  <2>1. call[p].account \in Existing
    BY DEF CreditInv, CallsOK, CallOK, VerifyWrite, StatusSteps
  <2> QED
    BY <2>1 DEF Existing
<1>1. account[a] \in AccountType /\ user \in [Rows -> RowType]
  BY DEF CreditInv, TablesOK
<1>2. account' = [account EXCEPT ![a] = [account[a] EXCEPT !.verified = TRUE]]
  BY DEF VerifyWrite
<1>3. /\ account'[a] = [account[a] EXCEPT !.verified = TRUE]
      /\ \A b \in Accounts \ {a} : account'[b] = account[b]
  BY <1>2 DEF CreditInv, TablesOK
<1>4. /\ account'[a] \in AccountType
      /\ account'[a].holder = account[a].holder /\ account'[a].status = account[a].status
      /\ account'[a].last = account[a].last /\ account'[a].setUp = account[a].setUp
  BY <1>1, <1>3 DEF AccountType
<1>5. account' \in [Accounts -> AccountType]
  BY <1>2, <1>3, <1>4 DEF CreditInv, TablesOK
<1>6. \A b \in Accounts :
        /\ account'[b].holder = account[b].holder /\ account'[b].status = account[b].status
        /\ account'[b].last = account[b].last /\ account'[b].setUp = account[b].setUp
  BY <1>3, <1>4
<1>7. StatusAsRecorded'
  BY <1>6 DEF CreditInv, StatusAsRecorded, Existing
<1> QED
  BY <1>1, <1>5, <1>6, <1>7, KeptStep DEF VerifyWrite

\* What the transaction of a status changes.
LEMMA StatusWriteEffect ==
    ASSUME CreditInv, NEW p \in Calls, StatusWrite(p)
    PROVE  /\ call[p].step = "status.write" /\ Return(p)
           /\ call[p].account \in Existing /\ call[p].account \in Accounts
           /\ call[p].to \in StatusValid
           /\ \/ UNCHANGED <<account, user>>
              \/ /\ account' \in [Accounts -> AccountType]
                 /\ account'[call[p].account].status = call[p].to
                 /\ account'[call[p].account].last = ActivityType(call[p].from, call[p].to)
                 /\ ActivityType(call[p].from, call[p].to) # "none"
                 /\ account'[call[p].account].holder = account[call[p].account].holder
                 /\ \A b \in Accounts \ {call[p].account} : account'[b] = account[b]
                 /\ user' = AfterStatus(call[p].account, call[p].to)
<1> DEFINE activity == ActivityType(call[p].from, call[p].to)
<1>1. /\ call[p].step = "status.write" /\ Return(p)
      /\ call[p].account \in Existing /\ call[p].to \in StatusValid
  BY DEF StatusWrite, CreditInv, CallsOK, CallOK, StatusSteps
<1> PICK a \in Accounts : a = call[p].account
  BY <1>1 DEF Existing
<1> PICK to \in StatusValid : to = call[p].to
  BY <1>1
<1>2. CASE activity # "none"
  <2>1. account' = [account EXCEPT ![a] = [account[a] EXCEPT !.status = to, !.last = activity]]
    BY <1>2 DEF StatusWrite
  <2>2. /\ account'[a] = [account[a] EXCEPT !.status = to, !.last = activity]
        /\ \A b \in Accounts \ {a} : account'[b] = account[b]
    <3> HIDE DEF activity
    <3> QED
      BY <2>1 DEF CreditInv, TablesOK
  <2>3. activity \in Activities /\ to \in Status
    BY DEF ActivityType, Activities, Status, StatusValid
  <2>4. account[a] \in AccountType
    BY DEF CreditInv, TablesOK
  <2>5. /\ account'[a] \in AccountType
        /\ account'[a].status = to /\ account'[a].last = activity
        /\ account'[a].holder = account[a].holder
    <3> HIDE DEF activity
    <3> QED
      BY <2>2, <2>3, <2>4 DEF AccountType
  <2>6. account' \in [Accounts -> AccountType]
    BY <2>1, <2>2, <2>5 DEF CreditInv, TablesOK
  <2>7. user' = AfterStatus(a, to)
    BY <1>2 DEF StatusWrite
  <2> QED
    BY <1>1, <1>2, <2>2, <2>5, <2>6, <2>7
<1>3. CASE activity = "none"
  BY <1>1, <1>3 DEF StatusWrite
<1> QED
  BY <1>2, <1>3

\* Closing deactivates the rows of the account, and changes nothing else.
LEMMA AfterStatusEffect ==
    ASSUME TablesOK, NEW a \in Accounts, NEW to \in Status, user' = AfterStatus(a, to)
    PROVE  /\ user' \in [Rows -> RowType]
           /\ \A r \in Rows : /\ user'[r].account = user[r].account
                              /\ user'[r].company = user[r].company
                              /\ user'[r].active => user[r].active
                              /\ to = "CLOSED" /\ user[r].account = a => ~user'[r].active
<1>1. user' = [r \in Rows |-> IF to = "CLOSED" /\ user[r].account = a
                              THEN [user[r] EXCEPT !.active = FALSE] ELSE user[r]]
  BY DEF AfterStatus
<1>2. ASSUME NEW r \in Rows
      PROVE  /\ user'[r] \in RowType
             /\ user'[r].account = user[r].account /\ user'[r].company = user[r].company
             /\ user'[r].active => user[r].active
             /\ to = "CLOSED" /\ user[r].account = a => ~user'[r].active
  <2>1. user[r] \in RowType
    BY DEF TablesOK
  <2>2. user'[r] = IF to = "CLOSED" /\ user[r].account = a
                   THEN [user[r] EXCEPT !.active = FALSE] ELSE user[r]
    BY <1>1
  <2> QED
    BY <2>1, <2>2 DEF RowType
<1> QED
  BY <1>1, <1>2

LEMMA StatusWriteStep ==
    ASSUME CreditInv, NEW p \in Calls, StatusWrite(p)
    PROVE  CreditInv'
<1> PICK a \in Accounts : a = call[p].account
  BY StatusWriteEffect
<1> PICK to \in StatusValid : to = call[p].to
  BY StatusWriteEffect
<1> PICK from : from = call[p].from
  OBVIOUS
<1>1. CASE UNCHANGED <<account, user>>
  BY <1>1, ReturnStep, StatusWriteEffect
<1>2. CASE ~UNCHANGED <<account, user>>
  <2>1. /\ account' \in [Accounts -> AccountType]
        /\ account'[a].status = to
        /\ account'[a].last = ActivityType(from, to)
        /\ ActivityType(from, to) # "none"
        /\ account'[a].holder = account[a].holder
        /\ \A b \in Accounts \ {a} : account'[b] = account[b]
        /\ user' = AfterStatus(a, to)
        /\ Return(p)
    BY <1>2, StatusWriteEffect
  <2>2. /\ user' \in [Rows -> RowType]
        /\ \A r \in Rows : user'[r].account = user[r].account /\ user'[r].company = user[r].company
    <3>1. TablesOK /\ to \in Status
      BY DEF CreditInv, Status, StatusValid
    <3> QED
      BY <2>1, <3>1, AfterStatusEffect
  <2>3. \A b \in Accounts : account'[b].holder = account[b].holder
    BY <2>1
  <2>4. StatusAsRecorded'
    <3> SUFFICES ASSUME NEW b \in Existing
                 PROVE  CASE account'[b].status = "SETUP_FAIL" ->
                               account'[b].last = "none" /\ ~account'[b].setUp
                          [] account'[b].status = "ACTIVE" ->
                               \/ account'[b].last \in {"REOPENED", "HOLDRMVD"}
                               \/ account'[b].setUp /\ account'[b].last \in {"OPENED", "none"}
                          [] OTHER -> account'[b].last = account'[b].status
      <4>1. Existing' = Existing
        BY <2>3 DEF Existing
      <4> QED
        BY <4>1 DEF StatusAsRecorded
    <3>1. CASE b = a
      <4>1. CASE to = "ACTIVE"
        <5>1. account'[b].last \in {"REOPENED", "HOLDRMVD"}
          BY <2>1, <3>1, <4>1 DEF ActivityType
        <5> QED
          BY <2>1, <3>1, <4>1, <5>1
      <4>2. CASE to # "ACTIVE"
        <5>1. account'[b].last = to
          BY <2>1, <3>1, <4>2 DEF ActivityType
        <5> QED
          BY <2>1, <3>1, <4>2, <5>1 DEF StatusValid
      <4> QED
        BY <4>1, <4>2
    <3>2. CASE b # a
      <4>1. account'[b] = account[b]
        BY <2>1, <3>2 DEF Existing
      <4> QED
        BY <4>1 DEF CreditInv, StatusAsRecorded
    <3> QED
      BY <3>1, <3>2
  <2> QED
    BY <2>1, <2>2, <2>3, <2>4, KeptStep
<1> QED
  BY <1>1, <1>2

\* A row is activated, or those of a request are deactivated.
LEMMA UserWriteEffect ==
    ASSUME CreditInv, NEW p \in Calls, AddActivate(p) \/ DeactivateWrite(p)
    PROVE  /\ user' \in [Rows -> RowType]
           /\ \A r \in Rows :
                 /\ user'[r].account = user[r].account /\ user'[r].company = user[r].company
                 /\ user'[r].active => user[r].active \/ (AddActivate(p) /\ r = call[p].row)
           /\ Return(p) /\ account' = account
<1>1. user \in [Rows -> RowType]
  BY DEF CreditInv, TablesOK
<1>2. CASE AddActivate(p)
  <2> PICK r \in Rows : r = call[p].row
    BY <1>2 DEF AddActivate, CreditInv, CallsOK, CallOK, UserRows
  <2>1. user' = [user EXCEPT ![r] = [user[r] EXCEPT !.active = TRUE]]
    BY <1>2 DEF AddActivate
  <2>2. user'[r] = [user[r] EXCEPT !.active = TRUE] /\ \A q \in Rows \ {r} : user'[q] = user[q]
    BY <1>1, <2>1
  <2>3. /\ user'[r] \in RowType
        /\ user'[r].account = user[r].account /\ user'[r].company = user[r].company
    BY <1>1, <2>2 DEF RowType
  <2>4. user' \in [Rows -> RowType]
    BY <1>1, <2>1, <2>2, <2>3
  <2>5. \A q \in Rows :
          /\ user'[q].account = user[q].account /\ user'[q].company = user[q].company
          /\ q # r => user'[q].active = user[q].active
    BY <2>2, <2>3
  <2>6. Return(p) /\ account' = account
    BY <1>2 DEF AddActivate
  <2> QED
    BY Zenon, <1>2, <2>4, <2>5, <2>6
<1>3. CASE DeactivateWrite(p)
  <2>1. user' = [r \in Rows |-> IF r \in call[p].rows
                                THEN [user[r] EXCEPT !.active = FALSE] ELSE user[r]]
    BY <1>3 DEF DeactivateWrite
  <2>2. ASSUME NEW r \in Rows
        PROVE  /\ user'[r] \in RowType
               /\ user'[r].account = user[r].account /\ user'[r].company = user[r].company
               /\ user'[r].active => user[r].active
    <3>1. user[r] \in RowType
      BY <1>1
    <3>2. user'[r] = IF r \in call[p].rows THEN [user[r] EXCEPT !.active = FALSE] ELSE user[r]
      BY <2>1
    <3> QED
      BY <3>1, <3>2 DEF RowType
  <2>3. user' \in [Rows -> RowType]
    BY <2>1, <2>2
  <2>4. Return(p) /\ account' = account
    BY <1>3 DEF DeactivateWrite
  <2> QED
    BY Zenon, <2>2, <2>3, <2>4
<1> QED
  BY <1>2, <1>3

LEMMA UserWriteStep ==
    ASSUME CreditInv, NEW p \in Calls, AddActivate(p) \/ DeactivateWrite(p)
    PROVE  CreditInv'
<1>1. /\ user' \in [Rows -> RowType]
      /\ \A r \in Rows : user'[r].account = user[r].account /\ user'[r].company = user[r].company
      /\ Return(p) /\ account' = account
  BY UserWriteEffect
<1>2. account \in [Accounts -> AccountType] /\ StatusAsRecorded'
  BY <1>1 DEF CreditInv, TablesOK, StatusAsRecorded, Existing
<1> QED
  BY <1>1, <1>2, KeptStep

\* A new account is the next one, of the company of the call.
LEMMA CreateSaveEffect ==
    ASSUME CreditInv, NEW p \in Calls, CreateSave(p)
    PROVE  \E n \in Accounts :
              /\ call[p].step = "create.save" /\ call[p].company \in Companies
              /\ n \notin Existing /\ Existing' = Existing \cup {n}
              /\ account' \in [Accounts -> AccountType]
              /\ account'[n].holder = call[p].company
              /\ \/ account'[n].status = "ACTIVE" /\ account'[n].setUp
                    /\ account'[n].last \in {"OPENED", "none"}
                 \/ account'[n].status = "SETUP_FAIL" /\ ~account'[n].setUp
                    /\ account'[n].last = "none"
              /\ \A a \in Accounts \ {n} : account'[a] = account[a]
              /\ AccountsFilled'
              /\ Return(p) /\ user' = user
<1>1. account \in [Accounts -> AccountType] /\ AccountsFilled
  BY DEF CreditInv, TablesOK
<1>2. call[p].step = "create.save" /\ call[p].company \in Companies /\ call[p].setUp \in BOOLEAN
  BY DEF CreateSave, CreditInv, CallsOK, CallOK, CallType, CreateSteps
<1>3. PICK m \in 0..MaxAccounts :
        /\ Existing = 1..m
        /\ Cardinality(Existing) = m /\ m + 1 \in 0..MaxAccounts
        /\ m + 1 \notin Existing
  BY <1>1, NextAccount DEF CreateSave
<1> PICK n \in Accounts : n = m + 1
  BY <1>3 DEF Accounts
<1>4. PICK last \in IF call[p].setUp THEN {"OPENED", "none"} ELSE {"none"} :
        account' = [account EXCEPT ![n] =
              [holder |-> call[p].company, verified |-> FALSE,
               setUp |-> call[p].setUp, last |-> last,
               status |-> IF call[p].setUp THEN "ACTIVE" ELSE "SETUP_FAIL"]]
  BY <1>3 DEF CreateSave
<1> DEFINE row == [holder |-> call[p].company, verified |-> FALSE,
                   setUp |-> call[p].setUp, last |-> last,
                   status |-> IF call[p].setUp THEN "ACTIVE" ELSE "SETUP_FAIL"]
<1>5. last \in Activities /\ (IF call[p].setUp THEN "ACTIVE" ELSE "SETUP_FAIL") \in Status
  BY <1>4 DEF Activities, Status
<1>6. row \in AccountType
  BY <1>2, <1>5 DEF AccountType
<1>7. /\ row.holder = call[p].company
      /\ \/ row.status = "ACTIVE" /\ row.setUp /\ row.last \in {"OPENED", "none"}
         \/ row.status = "SETUP_FAIL" /\ ~row.setUp /\ row.last = "none"
  <2>1. CASE call[p].setUp
    BY <1>4, <2>1
  <2>2. CASE ~call[p].setUp
    BY <1>4, <2>2
  <2> QED
    BY <2>1, <2>2
<1> HIDE DEF row
<1>8. /\ account' \in [Accounts -> AccountType]
      /\ account'[n] = row /\ \A a \in Accounts \ {n} : account'[a] = account[a]
  BY <1>1, <1>4, <1>6 DEF row
<1>9. Existing' = Existing \cup {n}
  <2>1. row.holder # NoCompany
    BY <1>2, <1>7
  <2> QED
    BY <1>8, <2>1 DEF Existing
<1>10. AccountsFilled'
  <2>1. Existing' = 1..(m + 1)
    BY <1>3, <1>9
  <2> QED
    BY <1>3, <2>1 DEF AccountsFilled
<1> WITNESS n \in Accounts
<1> QED
  BY <1>2, <1>3, <1>7, <1>8, <1>9, <1>10 DEF CreateSave

LEMMA CreateSaveStep ==
    ASSUME CreditInv, NEW p \in Calls, CreateSave(p)
    PROVE  CreditInv'
<1> PICK n \in Accounts :
      /\ n \notin Existing /\ Existing' = Existing \cup {n}
      /\ account' \in [Accounts -> AccountType]
      /\ \/ account'[n].status = "ACTIVE" /\ account'[n].setUp
            /\ account'[n].last \in {"OPENED", "none"}
         \/ account'[n].status = "SETUP_FAIL" /\ ~account'[n].setUp
            /\ account'[n].last = "none"
      /\ \A a \in Accounts \ {n} : account'[a] = account[a]
      /\ AccountsFilled'
      /\ Return(p) /\ user' = user
  BY CreateSaveEffect
<1>1. UserRows' = UserRows
  BY DEF UserRows
<1>2. TablesOK'
  BY <1>1 DEF CreditInv, TablesOK, RowsFilled, RowsHaveAccounts
<1>3. Grows
  BY <1>1 DEF Grows
<1>4. StatusAsRecorded'
  <2>1. \A a \in Existing : a \in Accounts \ {n} /\ account'[a] = account[a]
    BY DEF Existing
  <2> QED
    BY <2>1 DEF CreditInv, StatusAsRecorded
<1> QED
  BY <1>2, <1>3, <1>4, WriteStep

\* A new row is the next one, of the account and the company of the call.
LEMMA AddInsertEffect ==
    ASSUME CreditInv, NEW p \in Calls, AddInsert(p)
    PROVE  \E n \in Rows :
              /\ call[p].step = "add.insert"
              /\ call[p].account \in Existing /\ call[p].company \in Companies
              /\ n \notin UserRows /\ UserRows' = UserRows \cup {n}
              /\ user' \in [Rows -> RowType]
              /\ user'[n].account = call[p].account /\ user'[n].company = call[p].company
              /\ \A r \in Rows \ {n} : user'[r] = user[r]
              /\ RowsFilled'
              /\ Return(p) /\ account' = account
<1>1. user \in [Rows -> RowType] /\ RowsFilled
  BY DEF CreditInv, TablesOK
<1>2. /\ call[p].step = "add.insert" /\ call[p].company \in Companies
      /\ call[p].account \in Existing
  BY DEF AddInsert, CreditInv, CallsOK, CallOK, AddSteps
<1>3. PICK m \in 0..MaxRows :
        /\ UserRows = 1..m
        /\ Cardinality(UserRows) = m /\ m + 1 \in 0..MaxRows
        /\ m + 1 \notin UserRows
  BY <1>1, NextRow DEF AddInsert
<1> PICK n \in Rows : n = m + 1
  BY <1>3 DEF Rows
<1> DEFINE row == [account |-> call[p].account, company |-> call[p].company, active |-> TRUE]
<1>4. row \in RowType /\ row.account = call[p].account /\ row.company = call[p].company
  BY <1>2 DEF RowType, Existing
<1>5. user' = [user EXCEPT ![n] = row]
  BY <1>3 DEF AddInsert
<1> HIDE DEF row
<1>6. /\ user' \in [Rows -> RowType]
      /\ user'[n] = row /\ \A r \in Rows \ {n} : user'[r] = user[r]
  BY <1>1, <1>4, <1>5
<1>7. UserRows' = UserRows \cup {n}
  <2>1. row.account # None
    BY <1>2, <1>4 DEF Existing, Accounts, None
  <2> QED
    BY <1>6, <2>1 DEF UserRows
<1>8. RowsFilled'
  <2>1. UserRows' = 1..(m + 1)
    BY <1>3, <1>7
  <2> QED
    BY <1>3, <2>1 DEF RowsFilled
<1> WITNESS n \in Rows
<1> QED
  BY <1>2, <1>3, <1>4, <1>6, <1>7, <1>8 DEF AddInsert

LEMMA AddInsertStep ==
    ASSUME CreditInv, NEW p \in Calls, AddInsert(p)
    PROVE  CreditInv'
<1> PICK n \in Rows :
      /\ call[p].account \in Existing /\ call[p].company \in Companies
      /\ n \notin UserRows /\ UserRows' = UserRows \cup {n}
      /\ user' \in [Rows -> RowType]
      /\ user'[n].account = call[p].account /\ user'[n].company = call[p].company
      /\ \A r \in Rows \ {n} : user'[r] = user[r]
      /\ RowsFilled'
      /\ Return(p) /\ account' = account
  BY AddInsertEffect
<1>1. Existing' = Existing
  BY DEF Existing
<1>2. \A r \in UserRows : r \in Rows \ {n} /\ user'[r] = user[r]
  BY DEF UserRows
<1>3. TablesOK'
  <2>1. RowsHaveAccounts'
    BY <1>1, <1>2 DEF CreditInv, TablesOK, RowsHaveAccounts
  <2> QED
    BY <1>1, <2>1 DEF CreditInv, TablesOK, AccountsFilled
<1>4. Grows
  BY <1>1, <1>2 DEF Grows
<1>5. StatusAsRecorded'
  BY <1>1 DEF CreditInv, StatusAsRecorded
<1> QED
  BY <1>3, <1>4, <1>5, WriteStep

LEMMA CreditStep ==
    ASSUME CreditInv, [Next]_vars
    PROVE  CreditInv'
<1>1. ASSUME NEW p \in Calls, Request(p)
      PROVE  CreditInv'
  BY <1>1, CreateStep, StatusReadStep, VerifyReadStep, AddReadStep, RemoveReadStep DEF Request
<1>2. ASSUME NEW p \in Calls, Step(p)
      PROVE  CreditInv'
  BY <1>2, CreateStep, CreateSaveStep, StatusWriteStep, VerifyWriteStep, AddCheckStep,
     UserWriteStep, AddInsertStep, RemoveCheckStep, RemoveUsersStep DEF Step
<1>3. ASSUME NEW p \in Calls, Die(p)
      PROVE  CreditInv'
  BY <1>3, ReturnStep DEF Die
<1>4. CASE UNCHANGED vars
  BY <1>4 DEF vars, CreditInv, TablesOK, AccountsFilled, RowsFilled, RowsHaveAccounts, Existing,
              UserRows, CallsOK, CallOK, StatusAsRecorded
<1> QED
  BY <1>1, <1>2, <1>3, <1>4 DEF Next

LEMMA CreditInit == Init => CreditInv
<1> SUFFICES ASSUME Init
             PROVE  CreditInv
  OBVIOUS
<1>1. NoAccount \in AccountType /\ NoRow \in RowType
  BY DEF NoAccount, AccountType, Status, Activities, NoRow, RowType, None
<1>2. account \in [Accounts -> AccountType] /\ user \in [Rows -> RowType]
  BY <1>1 DEF Init
<1>3. Existing = {} /\ UserRows = {}
  BY DEF Init, Existing, NoAccount, UserRows, NoRow
<1>4. TablesOK
  BY <1>2, <1>3 DEF TablesOK, AccountsFilled, RowsFilled, RowsHaveAccounts
<1>5. CallsOK
  BY IdleOK DEF Init, CallsOK
<1> QED
  BY <1>3, <1>4, <1>5 DEF CreditInv, StatusAsRecorded

LEMMA CreditInvCorrect == Spec => []CreditInv
<1>1. CreditInv /\ [Next]_vars => CreditInv'
  BY CreditStep
<1> QED
  BY <1>1, CreditInit, PTL DEF Spec

\* Accounts, their users and what the calls have read stay well typed: a call
\* reports failures among the companies it was asked to remove, and the rows it
\* is about to write are of its account.
THEOREM CreditTypeCorrect == Spec => []TypeOK
<1>1. CreditInv => TypeOK
  BY DEF CreditInv, TablesOK, AccountType, RowType, CallsOK, CallOK, TypeOK
<1> QED
  BY <1>1, CreditInvCorrect, PTL

\* Whatever calls overlap or die, the status of an account is the one that its
\* last status activity tells.
THEOREM StatusIsAsRecorded == Spec => []StatusAsRecorded
<1>1. CreditInv => StatusAsRecorded
  BY DEF CreditInv
<1> QED
  BY <1>1, CreditInvCorrect, PTL

-----------------------------------------------------------------------------
(***************************************************************************)
(* Calls that do not overlap.                                              *)
(***************************************************************************)

\* One call is under way at a time.
OneBusy == \A p, q \in Calls : call[p] # Idle /\ call[q] # Idle => p = q

OneHolder == \A a, b \in Existing : account[a].holder = account[b].holder => a = b

\* What the call has checked is still so.
CallFresh(w) ==
    /\ w.step \in {"create.cfs", "create.save"} => HeldBy(w.company) = {}
    /\ w.step \in AddSteps => account[w.account].status # "CLOSED"
    /\ w.step \in {"add.activate", "add.insert"} => RowsOf(w.company) \cap ActiveRows = {}

CallsFresh == \A p \in Calls : CallFresh(call[p])

TablesSerial == OneHolder /\ OneAccountPerUser /\ ClosedHasNoUsers

SerialInv == TablesSerial /\ CallsFresh

\* Only the call of the step is under way.
LEMMA OthersIdle ==
    ASSUME CallsOK, OneBusy, OneBusy', NEW p \in Calls, NEW w, call' = [call EXCEPT ![p] = w],
           w # Idle \/ call[p] # Idle
    PROVE  call'[p] = w /\ \A q \in Calls \ {p} : call'[q] = Idle
  BY DEF CallsOK, OneBusy

\* A step that only reads.
LEMMA SerialRead ==
    ASSUME CreditInv, SerialInv, OneBusy, OneBusy', NEW p \in Calls, NEW w,
           call' = [call EXCEPT ![p] = w], w # Idle \/ call[p] # Idle, CallFresh(w),
           UNCHANGED <<account, user>>
    PROVE  SerialInv'
<1>1. call'[p] = w /\ \A q \in Calls \ {p} : call'[q] = Idle
  BY OthersIdle DEF CreditInv
<1>2. /\ Existing' = Existing /\ UserRows' = UserRows /\ ActiveRows' = ActiveRows
      /\ \A c : HeldBy(c)' = HeldBy(c) /\ RowsOf(c)' = RowsOf(c)
  BY DEF Existing, UserRows, ActiveRows, HeldBy, RowsOf
<1>3. TablesSerial'
  BY <1>2 DEF SerialInv, TablesSerial, OneHolder, OneAccountPerUser, ClosedHasNoUsers
<1>4. CallsFresh'
  <2>1. CallFresh(call[p])'
    BY <1>1, <1>2 DEF CallFresh, HeldBy, Existing, RowsOf, ActiveRows, UserRows
  <2>2. \A q \in Calls \ {p} : CallFresh(call[q])'
    BY <1>1 DEF CallFresh, Idle, AddSteps
  <2> QED
    BY <2>1, <2>2 DEF CallsFresh
<1> QED
  BY <1>3, <1>4 DEF SerialInv

LEMMA SerialAdvance ==
    ASSUME CreditInv, SerialInv, OneBusy, OneBusy', NEW p \in Calls, NEW from, NEW to,
           Advance(p, from, to), to # "idle", CallFresh([call[p] EXCEPT !.step = to]),
           UNCHANGED <<account, user>>
    PROVE  SerialInv'
<1> DEFINE w == [call[p] EXCEPT !.step = to]
<1>1. call[p] \in CallType
  BY DEF CreditInv, CallsOK
<1>2. call' = [call EXCEPT ![p] = w]
  BY DEF Advance
<1>3. w # Idle
  BY <1>1 DEF CallType, Idle
<1> QED
  BY <1>2, <1>3, SerialRead

\* When the only call that was under way returns, none is.
LEMMA SerialReturn ==
    ASSUME CreditInv, OneBusy, OneBusy', NEW p \in Calls, Return(p), call[p].step # "idle"
    PROVE  CallsFresh'
<1>1. call[p] # Idle
  BY DEF Idle
<1>2. call'[p] = Idle /\ \A q \in Calls \ {p} : call'[q] = Idle
  BY <1>1, OthersIdle DEF Return, CreditInv
<1>3. \A q \in Calls : call'[q] = Idle
  BY <1>2
<1> QED
  BY <1>3 DEF CallsFresh, CallFresh, Idle, AddSteps

\* A step that returns without writing.
LEMMA SerialEnd ==
    ASSUME CreditInv, SerialInv, OneBusy, OneBusy', NEW p \in Calls, Return(p),
           call[p].step # "idle", UNCHANGED <<account, user>>
    PROVE  SerialInv'
<1>1. CallsFresh'
  BY SerialReturn
<1>2. Existing' = Existing /\ UserRows' = UserRows /\ ActiveRows' = ActiveRows
  BY DEF Existing, UserRows, ActiveRows
<1> QED
  BY <1>1, <1>2
  DEF SerialInv, TablesSerial, OneHolder, OneAccountPerUser, ClosedHasNoUsers

LEMMA SerialRequest ==
    ASSUME CreditInv, SerialInv, OneBusy, OneBusy', NEW p \in Calls, Request(p)
    PROVE  SerialInv'
<1>1. ASSUME NEW c \in Companies, CreateCheckUser(p, c)
      PROVE  SerialInv'
  <2> DEFINE w == [Idle EXCEPT !.step = "create.holder", !.company = c]
  <2>1. w # Idle /\ CallFresh(w)
    BY DEF Idle, CallFresh, AddSteps
  <2>2. call' = [call EXCEPT ![p] = w] /\ UNCHANGED <<account, user>>
    BY <1>1 DEF CreateCheckUser, Begin
  <2> HIDE DEF w
  <2> QED
    BY <2>1, <2>2, SerialRead
<1>2. ASSUME NEW a \in Accounts, NEW to \in StatusValid, StatusRead(p, a, to)
      PROVE  SerialInv'
  <2> DEFINE w == [Idle EXCEPT !.step = "status.write", !.account = a,
                               !.from = account[a].status, !.to = to]
  <2>1. w # Idle /\ CallFresh(w)
    BY DEF Idle, CallFresh, AddSteps
  <2>2. call' = [call EXCEPT ![p] = w] /\ UNCHANGED <<account, user>>
    BY <1>2 DEF StatusRead, Begin
  <2> HIDE DEF w
  <2> QED
    BY <2>1, <2>2, SerialRead
<1>3. ASSUME NEW a \in Accounts, VerifyRead(p, a)
      PROVE  SerialInv'
  <2> DEFINE w == [Idle EXCEPT !.step = "verify.write", !.account = a]
  <2>1. w # Idle /\ CallFresh(w)
    BY DEF Idle, CallFresh, AddSteps
  <2>2. call' = [call EXCEPT ![p] = w] /\ UNCHANGED <<account, user>>
    BY <1>3 DEF VerifyRead, Begin
  <2> HIDE DEF w
  <2> QED
    BY <2>1, <2>2, SerialRead
<1>4. ASSUME NEW a \in Accounts, NEW c \in Companies, AddRead(p, a, c)
      PROVE  SerialInv'
  <2> DEFINE w == [Idle EXCEPT !.step = "add.holder", !.account = a, !.company = c]
  <2>1. w # Idle /\ CallFresh(w)
    BY <1>4 DEF AddRead, Idle, CallFresh, AddSteps
  <2>2. call' = [call EXCEPT ![p] = w] /\ UNCHANGED <<account, user>>
    BY <1>4 DEF AddRead, Begin
  <2> HIDE DEF w
  <2> QED
    BY <2>1, <2>2, SerialRead
<1>5. ASSUME NEW a \in Accounts, NEW cs \in SUBSET Companies, DeactivateRead(p, a, cs)
      PROVE  SerialInv'
  <2> DEFINE w == [Idle EXCEPT !.step = "remove.holders", !.account = a, !.asked = cs]
  <2>1. w # Idle /\ CallFresh(w)
    BY DEF Idle, CallFresh, AddSteps
  <2>2. call' = [call EXCEPT ![p] = w] /\ UNCHANGED <<account, user>>
    BY <1>5 DEF DeactivateRead, Begin
  <2> HIDE DEF w
  <2> QED
    BY <2>1, <2>2, SerialRead
<1> QED
  BY <1>1, <1>2, <1>3, <1>4, <1>5 DEF Request

\* A company without an account is found to have none as long as the call runs.
LEMMA SerialCreate ==
    ASSUME CreditInv, SerialInv, OneBusy, OneBusy', NEW p \in Calls,
           CreateCheckHolder(p) \/ CreateInCfs(p)
    PROVE  SerialInv'
<1>1. call[p] \in CallType /\ CallFresh(call[p])
  BY DEF CreditInv, CallsOK, SerialInv, CallsFresh
<1>2. CASE CreateCheckHolder(p) /\ MayOpen(call[p].company)
  <2>1. Advance(p, "create.holder", "create.cfs")
    BY <1>2 DEF CreateCheckHolder
  <2>2. CallFresh([call[p] EXCEPT !.step = "create.cfs"])
    BY <1>1, <1>2 DEF MayOpen, CallFresh, CallType, AddSteps
  <2> QED
    BY <1>2, <2>1, <2>2, SerialAdvance DEF CreateCheckHolder
<1>3. CASE CreateCheckHolder(p) /\ ~MayOpen(call[p].company)
  BY <1>3, SerialEnd DEF CreateCheckHolder
<1>4. CASE CreateInCfs(p)
  <2>1. ASSUME NEW ok \in BOOLEAN,
               call' = [call EXCEPT ![p].step = "create.save", ![p].setUp = ok]
        PROVE  SerialInv'
    <3> DEFINE w == [call[p] EXCEPT !.step = "create.save", !.setUp = ok]
    <3>1. call' = [call EXCEPT ![p] = w]
      BY <2>1
    <3>2. call[p] # Idle /\ CallFresh(w)
      BY <1>1, <1>4 DEF CreateInCfs, CallFresh, CallType, AddSteps, Idle
    <3> HIDE DEF w
    <3> QED
      BY <1>4, <3>1, <3>2, SerialRead DEF CreateInCfs
  <2> QED
    BY <1>4, <2>1, SerialEnd DEF CreateInCfs
<1> QED
  BY <1>2, <1>3, <1>4

\* The new account is the only one of its company.
LEMMA SerialCreateSave ==
    ASSUME CreditInv, SerialInv, OneBusy, OneBusy', NEW p \in Calls, CreateSave(p)
    PROVE  SerialInv'
<1> PICK n \in Accounts :
      /\ call[p].step = "create.save"
      /\ n \notin Existing /\ Existing' = Existing \cup {n}
      /\ account'[n].holder = call[p].company
      /\ \A a \in Accounts \ {n} : account'[a] = account[a]
      /\ Return(p) /\ user' = user
  BY CreateSaveEffect
<1>1. CallsFresh'
  BY SerialReturn
<1>2. \A a \in Existing : account'[a] = account[a] /\ account[a].holder # call[p].company
  <2>1. HeldBy(call[p].company) = {}
    BY DEF SerialInv, CallsFresh, CallFresh
  <2> QED
    BY <2>1 DEF HeldBy, Existing
<1>3. OneHolder'
  BY <1>2 DEF SerialInv, TablesSerial, OneHolder
<1>4. UserRows' = UserRows /\ ActiveRows' = ActiveRows
  BY DEF UserRows, ActiveRows
<1>5. OneAccountPerUser'
  BY <1>4 DEF SerialInv, TablesSerial, OneAccountPerUser
<1>6. ClosedHasNoUsers'
  <2>1. \A r \in ActiveRows : user[r].account \in Existing
    BY DEF ActiveRows, CreditInv, TablesOK, RowsHaveAccounts
  <2> QED
    BY <1>2, <1>4, <2>1 DEF SerialInv, TablesSerial, ClosedHasNoUsers
<1> QED
  BY <1>1, <1>3, <1>5, <1>6 DEF SerialInv, TablesSerial

LEMMA SerialVerify ==
    ASSUME CreditInv, SerialInv, OneBusy, OneBusy', NEW p \in Calls, VerifyWrite(p)
    PROVE  SerialInv'
<1> PICK a \in Accounts : a = call[p].account
  <2>1. call[p].account \in Existing
    BY DEF CreditInv, CallsOK, CallOK, VerifyWrite, StatusSteps
  <2> QED
    BY <2>1 DEF Existing
<1>1. CallsFresh'
  BY SerialReturn DEF VerifyWrite
<1>2. account' = [account EXCEPT ![a] = [account[a] EXCEPT !.verified = TRUE]]
  BY DEF VerifyWrite
<1>3. /\ account'[a] = [account[a] EXCEPT !.verified = TRUE]
      /\ \A b \in Accounts \ {a} : account'[b] = account[b]
  BY <1>2 DEF CreditInv, TablesOK
<1>4. account'[a].holder = account[a].holder /\ account'[a].status = account[a].status
  <2>1. account[a] \in AccountType
    BY DEF CreditInv, TablesOK
  <2> QED
    BY <1>3, <2>1 DEF AccountType
<1>5. \A b \in Accounts : account'[b].holder = account[b].holder
                          /\ account'[b].status = account[b].status
  BY <1>3, <1>4
<1>6. Existing' = Existing /\ UserRows' = UserRows /\ ActiveRows' = ActiveRows /\ user' = user
  BY <1>5 DEF Existing, UserRows, ActiveRows, VerifyWrite
<1>7. \A r \in ActiveRows : user[r].account \in Accounts
  BY DEF ActiveRows, CreditInv, TablesOK, RowsHaveAccounts, Existing
<1>8. TablesSerial'
  BY <1>5, <1>6, <1>7 DEF SerialInv, TablesSerial, OneHolder, OneAccountPerUser,
                          ClosedHasNoUsers, Existing
<1> QED
  BY <1>1, <1>8 DEF SerialInv

\* An account that is closed loses its users in the same transaction.
LEMMA SerialStatus ==
    ASSUME CreditInv, SerialInv, OneBusy, OneBusy', NEW p \in Calls, StatusWrite(p)
    PROVE  SerialInv'
<1> PICK a \in Accounts : a = call[p].account
  BY StatusWriteEffect
<1> PICK to \in StatusValid : to = call[p].to
  BY StatusWriteEffect
<1>1. call[p].step = "status.write" /\ Return(p)
  BY StatusWriteEffect
<1>2. CASE UNCHANGED <<account, user>>
  BY <1>1, <1>2, SerialEnd
<1>3. CASE ~UNCHANGED <<account, user>>
  <2>1. /\ account'[a].status = to
        /\ account'[a].holder = account[a].holder
        /\ \A b \in Accounts \ {a} : account'[b] = account[b]
        /\ user' = AfterStatus(a, to)
    BY <1>3, StatusWriteEffect
  <2>2. \A r \in Rows : /\ user'[r].account = user[r].account
                        /\ user'[r].company = user[r].company
                        /\ user'[r].active => user[r].active
                        /\ to = "CLOSED" /\ user[r].account = a => ~user'[r].active
    <3>1. TablesOK /\ to \in Status
      BY DEF CreditInv, Status, StatusValid
    <3> QED
      BY <2>1, <3>1, AfterStatusEffect
  <2>3. CallsFresh'
    BY <1>1, SerialReturn
  <2>4. Existing' = Existing /\ OneHolder'
    BY <2>1 DEF Existing, SerialInv, TablesSerial, OneHolder
  <2>5. /\ ActiveRows' \subseteq ActiveRows
        /\ \A r \in ActiveRows' : /\ r \in Rows /\ user'[r].account = user[r].account
                                  /\ user'[r].company = user[r].company
                                  /\ to = "CLOSED" => user[r].account # a
    BY <2>2 DEF ActiveRows, UserRows
  <2>6. OneAccountPerUser'
    BY <2>5 DEF SerialInv, TablesSerial, OneAccountPerUser
  <2>7. ClosedHasNoUsers'
    <3> SUFFICES ASSUME NEW r \in ActiveRows'
                 PROVE  account'[user'[r].account].status # "CLOSED"
      BY DEF ClosedHasNoUsers
    <3>1. user'[r].account = user[r].account /\ user[r].account \in Accounts
      BY <2>5 DEF ActiveRows, CreditInv, TablesOK, RowsHaveAccounts, Existing
    <3>2. CASE user[r].account = a
      BY <2>1, <2>5, <3>1, <3>2
    <3>3. CASE user[r].account # a
      BY <2>1, <2>5, <3>1, <3>3 DEF SerialInv, TablesSerial, ClosedHasNoUsers
    <3> QED
      BY <3>2, <3>3
  <2> QED
    BY <2>3, <2>4, <2>6, <2>7 DEF SerialInv, TablesSerial
<1> QED
  BY <1>2, <1>3

\* The account to charge is not closed, and the company charges no other.
LEMMA SerialAddCheck ==
    ASSUME CreditInv, SerialInv, OneBusy, OneBusy', NEW p \in Calls,
           AddCheckHolder(p) \/ AddCheckUsers(p)
    PROVE  SerialInv'
<1>1. call[p] \in CallType /\ CallFresh(call[p])
  BY DEF CreditInv, CallsOK, SerialInv, CallsFresh
<1>2. CASE Return(p)
  <2>1. call[p].step # "idle" /\ UNCHANGED <<account, user>>
    BY DEF AddCheckHolder, AddCheckUsers, Advance
  <2> QED
    BY <1>2, <2>1, SerialEnd
<1>3. CASE AddCheckHolder(p) /\ Advance(p, "add.holder", "add.users")
  <2>1. CallFresh([call[p] EXCEPT !.step = "add.users"])
    BY <1>1, <1>3 DEF Advance, CallFresh, CallType, AddSteps
  <2> QED
    BY <1>3, <2>1, SerialAdvance DEF AddCheckHolder
<1>4. CASE AddCheckUsers(p) /\ InTheWay(p) = {} /\ Advance(p, "add.users", "add.insert")
  <2>1. CallFresh([call[p] EXCEPT !.step = "add.insert"])
    BY <1>1, <1>4 DEF Advance, InTheWay, CallFresh, CallType, AddSteps
  <2> QED
    BY <1>4, <2>1, SerialAdvance DEF AddCheckUsers
<1>5. ASSUME AddCheckUsers(p), InTheWay(p) = {}, NEW r \in Rows,
             call' = [call EXCEPT ![p].step = "add.activate", ![p].row = r]
      PROVE  SerialInv'
  <2> DEFINE w == [call[p] EXCEPT !.step = "add.activate", !.row = r]
  <2>1. call' = [call EXCEPT ![p] = w]
    BY <1>5
  <2>2. call[p] # Idle /\ CallFresh(w)
    BY <1>1, <1>5 DEF AddCheckUsers, InTheWay, CallFresh, CallType, AddSteps, Idle
  <2> HIDE DEF w
  <2> QED
    BY <1>5, <2>1, <2>2, SerialRead DEF AddCheckUsers
<1> QED
  BY <1>2, <1>3, <1>4, <1>5 DEF AddCheckHolder, AddCheckUsers, RowsOf, UserRows

\* One more active row, of an account that is not closed and of a company that
\* had none.
LEMMA SerialActive ==
    ASSUME CreditInv, SerialInv, NEW n \in Rows, NEW a \in Existing, NEW c,
           account' = account,
           \A r \in ActiveRows' : r = n \/ /\ r \in ActiveRows
                                           /\ user'[r].account = user[r].account
                                           /\ user'[r].company = user[r].company,
           user'[n].account = a, user'[n].company = c,
           account[a].status # "CLOSED", RowsOf(c) \cap ActiveRows = {}
    PROVE  TablesSerial'
<1>1. OneHolder'
  BY DEF SerialInv, TablesSerial, OneHolder, Existing
<1>2. \A r \in ActiveRows : user[r].company # c
  BY DEF RowsOf, ActiveRows
<1>3. OneAccountPerUser'
  BY <1>2 DEF SerialInv, TablesSerial, OneAccountPerUser
<1>4. ClosedHasNoUsers'
  BY DEF SerialInv, TablesSerial, ClosedHasNoUsers
<1> QED
  BY <1>1, <1>3, <1>4 DEF TablesSerial

LEMMA SerialAddWrite ==
    ASSUME CreditInv, SerialInv, OneBusy, OneBusy', NEW p \in Calls,
           AddActivate(p) \/ AddInsert(p)
    PROVE  SerialInv'
<1>1. CallOK(call[p]) /\ CallFresh(call[p])
  BY DEF CreditInv, CallsOK, SerialInv, CallsFresh
<1>2. call[p].step \in {"add.activate", "add.insert"} /\ Return(p)
  BY DEF AddActivate, AddInsert
<1>3. /\ call[p].account \in Existing
      /\ account[call[p].account].status # "CLOSED"
      /\ RowsOf(call[p].company) \cap ActiveRows = {}
  BY <1>1, <1>2 DEF CallOK, CallFresh, AddSteps
<1>4. CallsFresh'
  BY <1>2, SerialReturn
<1>5. CASE AddActivate(p)
  <2>1. /\ call[p].row \in UserRows /\ call[p].row \in Rows
        /\ user[call[p].row].account = call[p].account
        /\ user[call[p].row].company = call[p].company
    BY <1>1, <1>5 DEF AddActivate, CallOK, UserRows
  <2> PICK n \in Rows : n = call[p].row
    BY <2>1
  <2>2. /\ \A r \in Rows :
             /\ user'[r].account = user[r].account /\ user'[r].company = user[r].company
             /\ user'[r].active => user[r].active \/ r = n
        /\ account' = account
    BY <1>5, UserWriteEffect
  <2>3. user'[n].account = call[p].account /\ user'[n].company = call[p].company
    BY <2>1, <2>2
  <2>4. \A r \in ActiveRows' : r = n \/ /\ r \in ActiveRows
                                        /\ user'[r].account = user[r].account
                                        /\ user'[r].company = user[r].company
    BY <2>2 DEF ActiveRows, UserRows
  <2>5. TablesSerial'
    BY <1>3, <2>2, <2>3, <2>4, SerialActive
  <2> QED
    BY <1>4, <2>5 DEF SerialInv
<1>6. CASE AddInsert(p)
  <2> PICK n \in Rows :
        /\ n \notin UserRows /\ UserRows' = UserRows \cup {n}
        /\ user'[n].account = call[p].account /\ user'[n].company = call[p].company
        /\ \A r \in Rows \ {n} : user'[r] = user[r]
        /\ account' = account
    BY <1>6, AddInsertEffect
  <2>1. \A r \in ActiveRows' : r = n \/ /\ r \in ActiveRows
                                        /\ user'[r].account = user[r].account
                                        /\ user'[r].company = user[r].company
    BY DEF ActiveRows, UserRows
  <2>2. TablesSerial'
    BY <1>3, <2>1, SerialActive
  <2> QED
    BY <1>4, <2>2 DEF SerialInv
<1> QED
  BY <1>5, <1>6

LEMMA SerialRemove ==
    ASSUME CreditInv, SerialInv, OneBusy, OneBusy', NEW p \in Calls,
           DeactivateCheckHolders(p) \/ DeactivateReadUsers(p) \/ DeactivateWrite(p)
    PROVE  SerialInv'
<1>1. call[p] \in CallType
  BY DEF CreditInv, CallsOK
<1>2. CASE Return(p) /\ UNCHANGED <<account, user>>
  <2>1. call[p].step # "idle"
    BY DEF DeactivateCheckHolders, DeactivateReadUsers, DeactivateWrite
  <2> QED
    BY <1>2, <2>1, SerialEnd
<1>3. ASSUME NEW step \in {"remove.users", "remove.write"}, NEW failed, NEW rows,
             call[p].step # "idle",
             \/ call' = [call EXCEPT ![p] = [call[p] EXCEPT !.step = step, !.failed = failed]]
             \/ call' = [call EXCEPT ![p] = [call[p] EXCEPT !.step = step, !.rows = rows,
                                                            !.failed = failed]],
             UNCHANGED <<account, user>>
      PROVE  SerialInv'
  <2>1. call[p] # Idle
    BY <1>3 DEF Idle
  <2>2. ASSUME NEW w, w.step = step, call' = [call EXCEPT ![p] = w]
        PROVE  SerialInv'
    <3>1. CallFresh(w)
      BY <2>2 DEF CallFresh, AddSteps
    <3> QED
      BY <1>3, <2>1, <2>2, <3>1, SerialRead
  <2>3. /\ [call[p] EXCEPT !.step = step, !.failed = failed].step = step
        /\ [call[p] EXCEPT !.step = step, !.rows = rows, !.failed = failed].step = step
    BY <1>1 DEF CallType
  <2> QED
    BY <1>3, <2>2, <2>3
<1>4. CASE DeactivateCheckHolders(p)
  <2> DEFINE failed == HoldersAsked(p)
  <2>1. call' = [call EXCEPT ![p] = [call[p] EXCEPT !.step = "remove.users", !.failed = failed]]
    BY <1>4 DEF DeactivateCheckHolders
  <2>2. call[p].step # "idle" /\ UNCHANGED <<account, user>>
    BY <1>4 DEF DeactivateCheckHolders
  <2> HIDE DEF failed
  <2> QED
    BY <1>3, <2>1, <2>2
<1>5. CASE DeactivateReadUsers(p) /\ ~Return(p)
  <2> DEFINE rows == {r \in ActiveRows : /\ user[r].account = call[p].account
                                         /\ user[r].company \in call[p].asked}
             failed == call[p].failed \cup (call[p].asked \ {user[r].company : r \in rows})
  <2>1. call' = [call EXCEPT ![p] = [call[p] EXCEPT !.step = "remove.write", !.rows = rows,
                                                    !.failed = failed]]
    BY <1>5 DEF DeactivateReadUsers
  <2>2. call[p].step # "idle" /\ UNCHANGED <<account, user>>
    BY <1>5 DEF DeactivateReadUsers
  <2> HIDE DEF failed, rows
  <2> QED
    BY <1>3, <2>1, <2>2
<1>6. CASE DeactivateWrite(p)
  <2>1. call[p].step = "remove.write" /\ ~AddActivate(p)
    BY <1>6 DEF DeactivateWrite, AddActivate
  <2>2. /\ \A r \in Rows :
             /\ user'[r].account = user[r].account /\ user'[r].company = user[r].company
             /\ user'[r].active => user[r].active
        /\ Return(p) /\ account' = account
    BY <1>6, <2>1, UserWriteEffect
  <2>3. /\ ActiveRows' \subseteq ActiveRows
        /\ \A r \in ActiveRows' : /\ user'[r].account = user[r].account
                                  /\ user'[r].company = user[r].company
    BY <2>2 DEF ActiveRows, UserRows
  <2>4. TablesSerial'
    BY <2>2, <2>3 DEF SerialInv, TablesSerial, OneHolder, Existing, OneAccountPerUser,
                      ClosedHasNoUsers
  <2>5. CallsFresh'
    BY <2>1, <2>2, SerialReturn
  <2> QED
    BY <2>4, <2>5 DEF SerialInv
<1> QED
  BY <1>2, <1>4, <1>5, <1>6 DEF DeactivateReadUsers

LEMMA SerialStep ==
    ASSUME CreditInv, SerialInv, OneBusy, OneBusy', [Next]_vars
    PROVE  SerialInv'
<1>1. ASSUME NEW p \in Calls, Request(p) \/ Step(p)
      PROVE  SerialInv'
  BY <1>1, SerialRequest, SerialCreate, SerialCreateSave, SerialStatus, SerialVerify,
     SerialAddCheck, SerialAddWrite, SerialRemove DEF Step
<1>2. ASSUME NEW p \in Calls, Die(p)
      PROVE  SerialInv'
  BY <1>2, SerialEnd DEF Die
<1>3. CASE UNCHANGED vars
  BY <1>3 DEF vars, SerialInv, TablesSerial, OneHolder, OneAccountPerUser, ClosedHasNoUsers,
              CallsFresh, CallFresh, Existing, ActiveRows, UserRows, RowsOf, HeldBy
<1> QED
  BY <1>1, <1>2, <1>3 DEF Next

LEMMA SerialInit ==
    ASSUME Init
    PROVE  SerialInv /\ OneBusy
<1>1. Existing = {} /\ UserRows = {}
  BY DEF Init, Existing, NoAccount, UserRows, NoRow
<1>2. TablesSerial
  BY <1>1 DEF TablesSerial, OneHolder, OneAccountPerUser, ClosedHasNoUsers, ActiveRows
<1>3. CallsFresh /\ OneBusy
  BY DEF Init, CallsFresh, CallFresh, OneBusy, Idle, AddSteps
<1> QED
  BY <1>2, <1>3 DEF SerialInv

\* A company that holds one account at most.
LEMMA OneHolderIsOneAccount == OneHolder => OneAccountPerHolder
<1> SUFFICES ASSUME OneHolder, NEW c \in Companies
             PROVE  Cardinality(HeldBy(c)) <= 1
  BY DEF OneAccountPerHolder
<1>1. CASE HeldBy(c) = {}
  BY <1>1, FS_EmptySet
<1>2. ASSUME NEW a \in HeldBy(c)
      PROVE  Cardinality(HeldBy(c)) <= 1
  <2>1. HeldBy(c) = {a}
    BY DEF HeldBy, OneHolder
  <2> QED
    BY <2>1, FS_Singleton
<1> QED
  BY <1>1, <1>2

LEMMA AtMostOneIsOneBusy ==
    ASSUME IsFiniteSet(Calls)
    PROVE  AtMostOne => OneBusy
<1> SUFFICES ASSUME AtMostOne, NEW p \in Calls, NEW q \in Calls,
                    call[p] # Idle, call[q] # Idle, p # q
             PROVE  FALSE
  BY DEF OneBusy
<1> DEFINE busy == {r \in Calls : call[r] # Idle}
           one == {p}
           two == one \cup {q}
<1>1. IsFiniteSet(busy)
  BY FS_Subset
<1>2. IsFiniteSet(one) /\ Cardinality(one) = 1 /\ q \notin one
  BY FS_Singleton
<1>3. two \subseteq busy
  OBVIOUS
<1>4. IsFiniteSet(two) /\ Cardinality(two) = 2
  <2> HIDE DEF one
  <2>1. IsFiniteSet(two) /\ Cardinality(two) = Cardinality(one) + 1
    BY <1>2, FS_AddElement
  <2> QED
    BY <1>2, <2>1
<1> HIDE DEF two
<1>5. Cardinality(two) <= Cardinality(busy) /\ Cardinality(busy) \in Nat
  BY <1>1, <1>3, FS_Subset, FS_CardinalityType
<1> QED
  BY <1>4, <1>5 DEF AtMostOne

\* What holds of the runs that the initial state has chosen to be serial.
ChosenInv ==
    /\ CreditInv
    /\ serial => SerialInv /\ OneBusy

LEMMA ChosenInvCorrect ==
    ASSUME IsFiniteSet(Calls)
    PROVE  ChosenSpec => []ChosenInv
<1>1. ChosenInit => ChosenInv
  BY CreditInit, SerialInit DEF ChosenInit, ChosenInv
<1>2. AtMostOne => OneBusy
  BY AtMostOneIsOneBusy
<1>3. AtMostOne' => OneBusy'
  BY <1>2, PTL
<1>4. ChosenInv /\ [ChosenNext]_chosenVars => ChosenInv'
  <2> SUFFICES ASSUME ChosenInv, [ChosenNext]_chosenVars
               PROVE  ChosenInv'
    OBVIOUS
  <2>1. CreditInv /\ [Next]_vars /\ serial' = serial
    BY DEF ChosenInv, ChosenNext, chosenVars
  <2>2. CreditInv'
    BY <2>1, CreditStep
  <2>3. ASSUME serial
        PROVE  SerialInv' /\ OneBusy'
    <3>1. OneBusy'
      <4>1. CASE ChosenNext
        BY <1>3, <2>3, <4>1 DEF ChosenNext
      <4>2. CASE UNCHANGED chosenVars
        BY <2>3, <4>2 DEF chosenVars, vars, ChosenInv, OneBusy
      <4> QED
        BY <4>1, <4>2
    <3> QED
      BY <2>1, <2>3, <3>1, SerialStep DEF ChosenInv
  <2> QED
    BY <2>1, <2>2, <2>3 DEF ChosenInv
<1> QED
  BY <1>1, <1>4, PTL DEF ChosenSpec

\* As long as calls do not overlap, a company never gets a second account, and
\* none may charge two accounts as their user: for any number of companies,
\* accounts and rows.
THEOREM OneAccountEach ==
    ASSUME IsFiniteSet(Calls)
    PROVE  ChosenSpec => []SerialOneAccount
<1>1. ChosenInv => SerialOneAccount
  BY OneHolderIsOneAccount DEF ChosenInv, SerialInv, TablesSerial, SerialOneAccount
<1> QED
  BY <1>1, ChosenInvCorrect, PTL

\* As long as calls do not overlap, a closed account has no active users.
THEOREM ClosedAccountsHaveNoUsers ==
    ASSUME IsFiniteSet(Calls)
    PROVE  ChosenSpec => []SerialClosedHasNoUsers
<1>1. ChosenInv => SerialClosedHasNoUsers
  BY DEF ChosenInv, SerialInv, TablesSerial, SerialClosedHasNoUsers
<1> QED
  BY <1>1, ChosenInvCorrect, PTL

=============================================================================
