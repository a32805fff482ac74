--------------------------------- MODULE Loa ---------------------------------
(***************************************************************************)
(* The letters of authorization of a company (LoaService): an LOA is       *)
(* created in two statements, revised by adding a row and making the old   *)
(* one inactive, and deleted by making it inactive; its document can be    *)
(* taken away.  An application for a permit holds a snapshot of an LOA,    *)
(* and is checked against the snapshot and against the LOA in the          *)
(* database when it is paid for (PolicyService.validateLoas).              *)
(*                                                                         *)
(* The vehicles, permit types and dates of an LOA are its terms, of which  *)
(* some allow the application.  The document is kept in DOPS: a row holds  *)
(* one or none.                                                            *)
(***************************************************************************)
EXTENDS Integers, FiniteSets

CONSTANTS
    Ids,      \* the LOA_IDs of the table, in the order they are given out
    NoId,
    Terms,    \* what an LOA may allow
    Allowing, \* the terms that allow the application
    Slots,    \* requests in flight at a time
    Listed,   \* requests are made for LOAs the user saw in the list
    Crashes   \* create() may end between its two statements

LoaAssumption ==
    /\ Ids \subseteq Nat /\ NoId \notin Ids
    /\ Terms # {} /\ Allowing \subseteq Terms
    /\ Listed \in BOOLEAN /\ Crashes \in BOOLEAN

\* LOA numbers come from a sequence: the number of an LOA is told apart by the
\* row it was given to first.
Row == [exists : BOOLEAN, active : BOOLEAN, number : Ids \cup {NoId},
        original : Ids \cup {NoId}, previous : Ids \cup {NoId},
        terms : Terms, document : BOOLEAN]

NoRow == [exists |-> FALSE, active |-> FALSE, number |-> NoId, original |-> NoId,
          previous |-> NoId, terms |-> CHOOSE t \in Terms : TRUE,
          document |-> FALSE]

Request == [op : {"idle", "create", "update"}, id : Ids \cup {NoId}, row : Row]
Idle == [op |-> "idle", id |-> NoId, row |-> NoRow]

\* The application: the LOA it was made with, as it was then.
Application == [status : {"none", "open", "paid"}, number : Ids \cup {NoId},
                terms : Terms]

VARIABLES loa, req, app
vars == <<loa, req, app>>

-----------------------------------------------------------------------------
Exists(i) == loa[i].exists
IsNext(i) == ~Exists(i) /\ \A j \in Ids : j < i => Exists(j)

\* LoaService.get, findLoaByLoaNumber: the active rows.
Active == {i \in Ids : Exists(i) /\ loa[i].active}
ActiveOf(n) == {i \in Active : loa[i].number = n}

\* What a user can name: a row of the list, or any id that was ever one.
Named(i) == Exists(i) /\ (Listed => loa[i].active)

Init == /\ loa = [i \in Ids |-> NoRow]
        /\ req = [s \in Slots |-> Idle]
        /\ app = [status |-> "none", number |-> NoId, terms |-> NoRow.terms]

\* create(): the row is saved, its originalLoaId by a second statement.
Create(s, i, t) ==
    /\ req[s] = Idle
    /\ IsNext(i)
    /\ loa' = [loa EXCEPT ![i] = [NoRow EXCEPT !.exists = TRUE, !.active = TRUE,
                                               !.number = i, !.terms = t,
                                               !.document = TRUE]]
    /\ req' = [req EXCEPT ![s] = [Idle EXCEPT !.op = "create", !.id = i]]
    /\ UNCHANGED app

SetOriginal(s) ==
    /\ req[s].op = "create"
    /\ loa' = [loa EXCEPT ![req[s].id].original = req[s].id]
    /\ req' = [req EXCEPT ![s] = Idle]
    /\ UNCHANGED app

Crash(s) ==
    /\ Crashes
    /\ req[s].op # "idle"
    /\ req' = [req EXCEPT ![s] = Idle]
    /\ UNCHANGED <<loa, app>>

\* updateLoa(): the row is read by findOne, whether it is active or not; its
\* document is uploaded or fetched in between.
ReadForUpdate(s, i) ==
    /\ req[s] = Idle
    /\ Named(i)
    /\ req' = [req EXCEPT ![s] = [op |-> "update", id |-> i, row |-> loa[i]]]
    /\ UNCHANGED <<loa, app>>

\* Mutant: the revision that is replaced stays active.
AfterRevisionKept(i, j, old, t, doc) ==
    [loa EXCEPT ![j] = [old EXCEPT !.active = TRUE, !.previous = i,
                                   !.terms = t, !.document = doc]]

\* One transaction: the row that was read is made inactive, and a new one with
\* its number and its original is added, active.
AfterRevision(i, j, old, t, doc) ==
    [loa EXCEPT ![i].active = FALSE,
                ![j] = [old EXCEPT !.active = TRUE, !.previous = i,
                                   !.terms = t, !.document = doc]]

\* A file that comes with the update is the new document; without one the
\* document of the row that was read is kept.
WriteUpdate(s) ==
    /\ req[s].op = "update"
    /\ \E j \in Ids, t \in Terms, file \in BOOLEAN :
        /\ IsNext(j)
        /\ loa' = AfterRevision(req[s].id, j, req[s].row, t,
                                file \/ req[s].row.document)
    /\ req' = [req EXCEPT ![s] = Idle]
    /\ UNCHANGED app

\* delete(): one UPDATE by id.
Delete(i) ==
    /\ Named(i)
    /\ loa' = [loa EXCEPT ![i].active = FALSE]
    /\ UNCHANGED <<req, app>>

\* deleteLoaDocument()
DeleteDocument(i) ==
    /\ Named(i)
    /\ loa' = [loa EXCEPT ![i].document = FALSE]
    /\ UNCHANGED <<req, app>>

\* The applicant picks an LOA of the list; the application keeps a copy of it.
Apply(i) ==
    /\ i \in Active
    /\ app.status # "paid"
    /\ app' = [status |-> "open", number |-> loa[i].number, terms |-> loa[i].terms]
    /\ UNCHANGED <<loa, req>>

\* validateLoas: no active LOA of the number, nor the copy, forbids the permit.
LoasAllow(a) == /\ \A i \in ActiveOf(a.number) : loa[i].terms \in Allowing
                /\ a.terms \in Allowing

\* createTransactions of a client: violations refuse the payment.
Pay ==
    /\ app.status = "open"
    /\ LoasAllow(app)
    /\ app' = [app EXCEPT !.status = "paid"]
    /\ UNCHANGED <<loa, req>>

Next ==
    \/ \E s \in Slots : \/ \E i \in Ids : \/ \E t \in Terms : Create(s, i, t)
                                          \/ ReadForUpdate(s, i)
                        \/ SetOriginal(s) \/ Crash(s) \/ WriteUpdate(s)
    \/ \E i \in Ids : Delete(i) \/ DeleteDocument(i) \/ Apply(i)
    \/ Pay

Spec == Init /\ [][Next]_vars

-----------------------------------------------------------------------------
(* What the code keeps                                                     *)

\* Every row and every request is of its type, and a row refers to rows before
\* it only.
TypeOK == /\ loa \in [Ids -> Row]
          /\ \A i \in Ids : loa[i].previous # NoId => loa[i].previous < i
          /\ req \in [Slots -> Request]
          /\ app \in Application

\* Revisions one at a time, of LOAs of the list, with deletions in between: a
\* number has one active revision at most, so that a permit is checked against
\* one set of terms.
OneActivePerNumber ==
    \A i, j \in Active : loa[i].number = loa[j].number => i = j

\* The revisions of an LOA form one chain: a row is revised once, its
\* revision has its number and its original, and the original, unless a crash
\* left it open, is the first row of the chain.
OneChain ==
    \A i \in Ids : Exists(i) /\ loa[i].previous # NoId =>
        LET p == loa[loa[i].previous] IN
        /\ p.number = loa[i].number
        /\ p.original = loa[i].original
        /\ loa[i].original \in {loa[i].number, NoId}
        /\ \A j \in Ids \ {i} : Exists(j) => loa[j].previous # loa[i].previous

=============================================================================
