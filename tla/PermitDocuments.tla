--------------------------- MODULE PermitDocuments ---------------------------
(***************************************************************************)
(* The PDFs of permits and receipts.  They are generated right after a     *)
(* permit is issued or voided, and by a scheduled job for those that are   *)
(* still without one.  A call works on its permits and receipts at the     *)
(* same time: for each, DOPS stores a PDF, and then the row gets its id if *)
(* it has none.  Other calls run in between, calls fail and die.           *)
(***************************************************************************)
EXTENDS Integers, FiniteSets, FiniteSetsExt

CONSTANTS
    Permits,
    Receipts,
    ReceiptOf,   \* the receipt each permit was paid with
    Users,       \* callers that issue and void permits
    Schedulers,  \* replicas of the scheduler
    DocGenLimit, \* DOC_GEN_LIMIT
    Broken,      \* permits and receipts DOPS cannot make a PDF of
    Faults       \* what may fail in this instance

ASSUME PermitsAssumption ==
    /\ ReceiptOf \in [Permits -> Receipts]
    /\ Permits \cap Receipts = {}
ASSUME LimitAssumption == DocGenLimit \in Nat \ {0}
ASSUME FaultsAssumption ==
    /\ Broken \subseteq Permits \cup Receipts
    /\ Faults \subseteq {"document", "issue", "crash"}

Callers == Users \cup Schedulers
Documented == Permits \cup Receipts

\* A PDF: the call that had it made, and the permits with a number on it.
Pdfs == [by : Callers, lists : SUBSET Permits]
NoDocument == [by |-> "nobody", lists |-> {}]

VARIABLES
    status,     \* the status of each permit
    document,   \* the document of each permit and receipt
    generating, \* what each call has DOPS make a PDF of, with the permits it read
    updating,   \* what each call is about to enter the document id of
    issuing,    \* runningIssuePermit of each scheduler
    docGen      \* runningDocGen of each scheduler

vars == <<status, document, generating, updating, issuing, docGen>>

Init ==
    /\ status = [p \in Permits |-> "PAYMENT_COMPLETE"]
    /\ document = [d \in Documented |-> NoDocument]
    /\ generating = [c \in Callers |-> {}]
    /\ updating = [c \in Callers |-> {}]
    /\ issuing = [s \in Schedulers |-> FALSE]
    /\ docGen = [s \in Schedulers |-> FALSE]

NumberedPermits == {p \in Permits : status[p] # "PAYMENT_COMPLETE"}

PaidWith(r) == {p \in Permits : ReceiptOf[p] = r}

-----------------------------------------------------------------------------
(* What a call works on, given some permits and those that have a number   *)

\* generatePermitDocuments: the permits without a document.
PermitsToDo(P) == {<<p, {p}>> : p \in {q \in P : document[q] = NoDocument}}

ReceiptsOf(P) == {r \in {ReceiptOf[p] : p \in P} : document[r] = NoDocument}

\* Mutant: a receipt is not held back for its permits that are unissued yet.
ReceiptsToDoEarly(P, numbered) ==
    {<<r, PaidWith(r) \cap numbered>> : r \in ReceiptsOf(P)}

\* generateReceiptDocuments: the receipts whose permits all have a number.
ReceiptsToDo(P, numbered) ==
    {<<r, PaidWith(r) \cap numbered>> :
        r \in {q \in ReceiptsOf(P) : PaidWith(q) \subseteq numbered}}

Working(c) == generating[c] \cup updating[c] # {}

-----------------------------------------------------------------------------
(* The calls of users                                                      *)

\* issue, then both generations, not awaited
IssueAndGenerate(c, P) ==
    /\ ~Working(c)
    /\ \A p \in P : status[p] = "PAYMENT_COMPLETE"
    /\ status' = [p \in Permits |-> IF p \in P THEN "ISSUED" ELSE status[p]]
    /\ generating' = [generating EXCEPT ![c] =
                        PermitsToDo(P) \cup ReceiptsToDo(P, NumberedPermits \cup P)]
    /\ UNCHANGED <<document, updating, issuing, docGen>>

\* voidpermit inserts the void with its number, and awaits both generations
VoidAndGenerate(c, p) ==
    /\ ~Working(c)
    /\ status[p] = "PAYMENT_COMPLETE"
    /\ PaidWith(ReceiptOf[p]) = {p}
    /\ status' = [status EXCEPT ![p] = "VOIDED"]
    /\ generating' = [generating EXCEPT ![c] =
                        PermitsToDo({p}) \cup ReceiptsToDo({p}, NumberedPermits \cup {p})]
    /\ UNCHANGED <<document, updating, issuing, docGen>>

\* A later revision is issued or voided.
Supersede(p) ==
    /\ status[p] = "ISSUED"
    /\ status' = [status EXCEPT ![p] = "SUPERSEDED"]
    /\ UNCHANGED <<document, generating, updating, issuing, docGen>>

-----------------------------------------------------------------------------
(* Every call, for each of its permits and receipts                        *)

Generate(c, d) ==
    /\ d \notin Broken
    /\ \E g \in generating[c] :
        /\ g[1] = d
        /\ generating' = [generating EXCEPT ![c] = @ \ {g}]
        /\ updating' = [updating EXCEPT ![c] = @ \cup {g}]
    /\ UNCHANGED <<status, document, issuing, docGen>>

\* An error is logged and the others go on (allSettled).
FailToGenerate(c, d) ==
    /\ d \in Broken \/ "document" \in Faults
    /\ \E g \in generating[c] :
        /\ g[1] = d
        /\ generating' = [generating EXCEPT ![c] = @ \ {g}]
    /\ UNCHANGED <<status, document, updating, issuing, docGen>>

\* Mutant: the update does not ask for the row to be without a document.
EnteredAlways(c, u) == [document EXCEPT ![u[1]] = [by |-> c, lists |-> u[2]]]

\* The conditional update; when another call was faster it fails.
Entered(c, u) ==
    [document EXCEPT ![u[1]] = IF @ = NoDocument THEN [by |-> c, lists |-> u[2]] ELSE @]

UpdateDocument(c) ==
    /\ \E u \in updating[c] :
        /\ document' = Entered(c, u)
        /\ updating' = [updating EXCEPT ![c] = @ \ {u}]
    /\ UNCHANGED <<status, generating, issuing, docGen>>

\* The vehicles API dies with all of its calls.
Crash ==
    /\ "crash" \in Faults
    /\ \E c \in Callers : Working(c)
    /\ generating' = [c \in Callers |-> {}]
    /\ updating' = [c \in Callers |-> {}]
    /\ UNCHANGED <<status, document, issuing, docGen>>

-----------------------------------------------------------------------------
(* runJobs, a tick of the scheduler                                        *)

\* generateDocument and generateReceipt each take the first rows, in no order.
Batches(S) == IF Cardinality(S) <= DocGenLimit THEN {S} ELSE kSubset(DocGenLimit, S)

WithoutDocument == {p \in Permits : status[p] = "ISSUED" /\ document[p] = NoDocument}

WithoutReceipt ==
    {p \in Permits : status[p] = "ISSUED" /\ document[ReceiptOf[p]] = NoDocument}

\* The second half of the tick, unless it is running already.
StartDocGen(s) ==
    IF docGen[s] THEN UNCHANGED <<generating, docGen>>
    ELSE \E P \in Batches(WithoutDocument), Q \in Batches(WithoutReceipt) :
            /\ generating' = [generating EXCEPT ![s] = PermitsToDo(P) \cup ReceiptsToDo(Q, NumberedPermits)]
            /\ docGen' = [docGen EXCEPT ![s] = TRUE]

TickIssue(s) ==
    /\ ~issuing[s]
    /\ issuing' = [issuing EXCEPT ![s] = TRUE]
    /\ UNCHANGED <<status, document, generating, updating, docGen>>

\* Rows were issued by the call, which does not generate anything; then the
\* tick goes on.
FinishIssue(s) ==
    /\ issuing[s]
    /\ \E P \in SUBSET {p \in Permits : status[p] = "PAYMENT_COMPLETE"} :
        status' = [p \in Permits |-> IF p \in P THEN "ISSUED" ELSE status[p]]
    /\ issuing' = [issuing EXCEPT ![s] = FALSE]
    /\ StartDocGen(s)
    /\ UNCHANGED <<document, updating>>

\* The error leaves runJobs: the tick ends without its second half.
FailIssue(s) ==
    /\ "issue" \in Faults
    /\ issuing[s]
    /\ issuing' = [issuing EXCEPT ![s] = FALSE]
    /\ UNCHANGED <<status, document, generating, updating, docGen>>

\* A tick that finds the issuance running.
TickDocGen(s) ==
    /\ issuing[s]
    /\ ~docGen[s]
    /\ StartDocGen(s)
    /\ UNCHANGED <<status, document, updating, issuing>>

\* Mutant: the flag stays.
AfterDocGenSet(s) == [docGen EXCEPT ![s] = TRUE]

AfterDocGen(s) == [docGen EXCEPT ![s] = FALSE]

FinishDocGen(s) ==
    /\ docGen[s]
    /\ ~Working(s)
    /\ docGen' = AfterDocGen(s)
    /\ UNCHANGED <<status, document, generating, updating, issuing>>

Next ==
    \/ \E c \in Users, P \in (SUBSET Permits) \ {{}} : IssueAndGenerate(c, P)
    \/ \E c \in Users, p \in Permits : VoidAndGenerate(c, p)
    \/ \E p \in Permits : Supersede(p)
    \/ \E c \in Callers, d \in Documented : Generate(c, d) \/ FailToGenerate(c, d)
    \/ \E c \in Callers : UpdateDocument(c)
    \/ \E s \in Schedulers : TickIssue(s) \/ FinishIssue(s) \/ FailIssue(s)
                             \/ TickDocGen(s) \/ FinishDocGen(s)
    \/ Crash

Spec == Init /\ [][Next]_vars

(* Ticks are fired for ever and calls end.  The issuance, a PDF and an     *)
(* update that are tried again and again succeed at last.                  *)
Fairness ==
    /\ \A s \in Schedulers :
        /\ WF_vars(TickIssue(s)) /\ SF_vars(FinishIssue(s)) /\ WF_vars(FinishDocGen(s))
        /\ \A d \in Documented : SF_vars(Generate(s, d)) /\ WF_vars(FailToGenerate(s, d))
        /\ SF_vars(UpdateDocument(s))

FairSpec == Spec /\ Fairness

-----------------------------------------------------------------------------
(* Properties                                                              *)

\* The type invariant.
TypeOK ==
    /\ status \in [Permits -> {"PAYMENT_COMPLETE", "ISSUED", "VOIDED", "SUPERSEDED"}]
    /\ \A d \in Documented : document[d] \in Pdfs \/ document[d] = NoDocument
    /\ generating \in [Callers -> SUBSET (Documented \X SUBSET Permits)]
    /\ updating \in [Callers -> SUBSET (Documented \X SUBSET Permits)]
    /\ issuing \in [Schedulers -> BOOLEAN]
    /\ docGen \in [Schedulers -> BOOLEAN]

\* However calls overlap, the document of a permit or receipt is never
\* replaced: the PDF that was sent by mail stays the one on record.
DocumentsStay ==
    [][\A d \in Documented :
        document[d] # NoDocument => document'[d] = document[d]]_vars

\* The document of a receipt shows all of its permits with their numbers.
ReceiptsComplete ==
    \A r \in Receipts :
        document[r] # NoDocument => document[r].lists = PaidWith(r)

\* A permit that was issued gets its document, unless a later revision comes
\* first: calls fail and die, and a permit that always fails does not hold
\* up the others as long as there are fewer of them than DOC_GEN_LIMIT.
Done(d) == document[d] # NoDocument

EveryPermitDocumented ==
    \A p \in Permits \ Broken :
        status[p] = "ISSUED" ~> Done(p) \/ status[p] # "ISSUED"

\* So does a receipt that shows an issued permit, once all its permits have a
\* number.
EveryReceiptDocumented ==
    \A r \in Receipts \ Broken :
        LET Issued == \E p \in PaidWith(r) : status[p] = "ISSUED"
        IN  PaidWith(r) \subseteq NumberedPermits /\ Issued ~> Done(r) \/ ~Issued

=============================================================================
