---------------------------- MODULE CompanyUsers ----------------------------
(***************************************************************************)
(* Who belongs to which company: invitations (pending users), accepted     *)
(* ones (company users) and the first user, who claims a company nobody    *)
(* belongs to yet.  A call reads what it checks before the transaction or  *)
(* the save that relies on it.                                             *)
(***************************************************************************)
EXTENDS Integers, FiniteSets

CONSTANTS
    Calls,     \* how many API calls may be under way at once
    Companies, \* the companies
    People     \* the people who may be invited, by user name

Roles == {"ADMIN", "APPLICANT"}
NoRole == "no role"
NoCompany == "no company"

VARIABLES
    member,  \* each person's row of ORBC_COMPANY_USER
    pending, \* pending[c][u]: the role u is invited to c with, or NoRole
    call     \* what each call is doing

vars == <<member, pending, call>>

\* USER_GUID may not be null and the user's rows are saved with the user: what
\* would give a person a row in a second company is rolled back, so that there
\* is one row for a person at most.
NoRow == [company |-> NoCompany, role |-> NoRole, active |-> FALSE]
Idle == [step |-> "idle", company |-> NoCompany, person |-> {},
         role |-> NoRole, left |-> [u \in People |-> NoRole]]

\* Companies staff created or that were migrated: nobody belongs to them.
Init ==
    /\ member = [u \in People |-> NoRow]
    /\ pending = [c \in Companies |-> [u \in People |-> NoRole]]
    /\ call = [p \in Calls |-> Idle]

RowsOf(c) == {u \in People : member[u].company = c}
ActiveIn(c) == {u \in RowsOf(c) : member[u].active}
Admins(c) == {u \in ActiveIn(c) : member[u].role = "ADMIN"}
Row(c, role) == [company |-> c, role |-> role, active |-> TRUE]

Begin(p, step, c, us, role, left) ==
    /\ call[p].step = "idle"
    /\ call' = [call EXCEPT ![p] = [step |-> step, company |-> c,
                    person |-> us, role |-> role, left |-> left]]
Return(p) == call' = [call EXCEPT ![p] = Idle]
Person(p) == CHOOSE u \in call[p].person : TRUE

-----------------------------------------------------------------------------
(* PendingUsersService                                                     *)

\* The first user of a company must be an administrator, nobody is invited
\* twice, and nobody who is an active user of any company.
InviteRead(p, c, u, role) ==
    /\ ~(RowsOf(c) = {} /\ role = "APPLICANT")
    /\ \A d \in Companies : pending[d][u] = NoRole
    /\ ~member[u].active
    /\ Begin(p, "invite", c, {u}, role, Idle.left)
    /\ UNCHANGED <<member, pending>>

\* Company and user name are a key of the table.
InviteWrite(p) ==
    LET c == call[p].company
        u == Person(p)
    IN
    /\ call[p].step = "invite"
    /\ pending' = IF pending[c][u] = NoRole
                  THEN [pending EXCEPT ![c][u] = call[p].role] ELSE pending
    /\ Return(p)
    /\ UNCHANGED member

\* update and removeAll check nothing.
ChangeInvitation(c, u, role) ==
    /\ pending[c][u] # NoRole
    /\ pending' = [pending EXCEPT ![c][u] = role]
    /\ UNCHANGED <<member, call>>

Withdraw(c, u) ==
    /\ pending[c][u] # NoRole
    /\ pending' = [pending EXCEPT ![c][u] = NoRole]
    /\ UNCHANGED <<member, call>>

-----------------------------------------------------------------------------
(* UsersService.create: an invitation is accepted                          *)

Invited(c, u) == pending[c][u] # NoRole

AcceptRead(p, c, u) ==
    /\ Invited(c, u)
    /\ Begin(p, "accept", c, {u}, pending[c][u], Idle.left)
    /\ UNCHANGED <<member, pending>>

\* The row in this company of a user who is known already is looked up in a way
\* that throws if there is none; of a new user, a new row is made.
AcceptWrite(p) ==
    LET c == call[p].company
        u == Person(p)
    IN
    /\ call[p].step = "accept"
    /\ IF member[u].company \in {NoCompany, c}
       THEN /\ member' = [member EXCEPT ![u] = Row(c, call[p].role)]
            /\ pending' = [pending EXCEPT ![c][u] = NoRole]
       ELSE UNCHANGED <<member, pending>>
    /\ Return(p)

-----------------------------------------------------------------------------
(* CompanyService.create, of a company there already is                    *)

ClaimRead(p, c, u) ==
    /\ RowsOf(c) = {}
    /\ Begin(p, "claim", c, {u}, "ADMIN", Idle.left)
    /\ UNCHANGED <<member, pending>>

\* The invitation by name stays; a user with a row elsewhere is rolled back.
ClaimWrite(p) ==
    /\ call[p].step = "claim"
    /\ member' = IF member[Person(p)] = NoRow
                 THEN [member EXCEPT ![Person(p)] = Row(call[p].company, "ADMIN")]
                 ELSE member
    /\ Return(p)
    /\ UNCHANGED pending

-----------------------------------------------------------------------------
(* UsersService.update and removeAll                                       *)

\* Mutant: any administrator is enough, the one who is demoted included.
OtherAdminsAll(c, us) == Admins(c)

\* The active administrators of the company who are not among us.
OtherAdmins(c, us) == Admins(c) \ us

UpdateRead(p, c, u, role) ==
    /\ u \in ActiveIn(c)
    /\ (u \in Admins(c) /\ role # "ADMIN") => OtherAdmins(c, {u}) # {}
    /\ role # member[u].role
    /\ Begin(p, "update", c, {u}, role, Idle.left)
    /\ UNCHANGED <<member, pending>>

UpdateWrite(p) ==
    /\ call[p].step = "update"
    /\ member' = [member EXCEPT ![Person(p)].role = call[p].role]
    /\ Return(p)
    /\ UNCHANGED pending

\* The rows are kept as they were read, role included.
RemoveRead(p, c, us) ==
    LET found == us \cap ActiveIn(c) IN
    /\ OtherAdmins(c, us) # {}
    /\ found # {}
    /\ Begin(p, "remove", c, found, NoRole,
             [u \in People |-> IF u \in found THEN member[u].role ELSE NoRole])
    /\ UNCHANGED <<member, pending>>

\* Saved one by one, whole rows; the call may end between two of them.
RemoveWrite(p, u) ==
    /\ call[p].step = "remove"
    /\ u \in call[p].person
    /\ member' = [member EXCEPT ![u].active = FALSE, ![u].role = call[p].left[u]]
    /\ IF call[p].person = {u} THEN Return(p)
       ELSE call' = [call EXCEPT ![p].person = @ \ {u}]
    /\ UNCHANGED pending

\* A call ends here if the API stops or the database refuses.
Fail(p) ==
    /\ call[p].step # "idle"
    /\ Return(p)
    /\ UNCHANGED <<member, pending>>

Next ==
    \/ \E p \in Calls, c \in Companies, u \in People :
          \/ \E role \in Roles : InviteRead(p, c, u, role) \/ UpdateRead(p, c, u, role)
          \/ AcceptRead(p, c, u)
          \/ ClaimRead(p, c, u)
    \/ \E c \in Companies, u \in People :
          \/ \E role \in Roles : ChangeInvitation(c, u, role)
          \/ Withdraw(c, u)
    \/ \E p \in Calls, c \in Companies, us \in SUBSET People : RemoveRead(p, c, us)
    \/ \E p \in Calls :
          \/ InviteWrite(p) \/ AcceptWrite(p) \/ ClaimWrite(p) \/ UpdateWrite(p)
          \/ \E u \in People : RemoveWrite(p, u)
          \/ Fail(p)

Spec == Init /\ [][Next]_vars

-----------------------------------------------------------------------------
(* Properties                                                              *)

\* The rows, the invitations and the calls are what the code makes of them: in
\* particular nobody is a user without a role and a call has somebody to act on.
TypeOK ==
    /\ \A u \in People :
          \/ member[u] = NoRow
          \/ member[u] \in [company : Companies, role : Roles, active : BOOLEAN]
    /\ pending \in [Companies -> [People -> Roles \cup {NoRole}]]
    /\ \A p \in Calls : call[p].step # "idle" => call[p].person # {}

\* Demoting and removing users, in any order, takes no company's last active
\* administrator away: update and removeAll both refuse that.
ManagingKeepsAdmin ==
    [][\A c \in Companies :
          (Admins(c) # {} /\ \E p \in Calls : call[p].step \in {"update", "remove"})
          => Admins(c)' # {}]_vars

=============================================================================
