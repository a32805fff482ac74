---------------------------- MODULE TpsMigration ----------------------------
(***************************************************************************)
(* The three scheduled jobs that move the PDFs of TPS permits from the     *)
(* staging table (filled by an ETL process) to S3: the upload of pending   *)
(* rows, the retry of failed ones, and the monitoring of stuck ones.  Each *)
(* runner (a tick of a job in one of the scheduler's replicas) works       *)
(* through the rows it read; the rows and permits it looks at may be       *)
(* changed by another one in between, and it may die at any step.          *)
(***************************************************************************)
EXTENDS Integers, FiniteSets

CONSTANTS
    Runners,        \* how many ticks may run at once
    Numbers,        \* TPS permit numbers
    MaxGeneration,  \* bound on PERMIT_GENERATION
    MaxRows,        \* bound on the rows of the staging table
    MaxDocuments,   \* the documents of one permit are counted up to this
    PollLimit,      \* TPS_POLL_LIMIT
    Jobs,           \* the jobs of this instance
    Faults          \* what may fail in this instance

ASSUME SizesAssumption ==
    /\ MaxGeneration \in Nat \ {0}
    /\ MaxRows \in Nat
    /\ MaxDocuments \in Nat
    /\ PollLimit \in Nat \ {0}

ASSUME JobsAssumption ==
    /\ Jobs \subseteq {"pending", "error", "monitor"}
    /\ Faults \subseteq {"upload", "document", "link", "crash"}

Rows == 1..MaxRows
NoRow == 0
Generations == 1..MaxGeneration
Revisions == 0..MaxGeneration
MaxRetries == 3

Keys == Numbers \X Generations

VARIABLES
    row,        \* the staging table, PDFs included
    permit,     \* the permit of each number and revision: its document
    documents,  \* how many document rows were created for it
    run         \* what each runner is doing

vars == <<row, permit, documents, run>>

\* Mutant: RETRY_COUNT has no default (-1 is null).
NoStagedNoDefault == [state |-> "unused", key |-> <<>>, retry |-> -1, old |-> FALSE]

NoStaged == [state |-> "unused", key |-> <<>>, retry |-> 0, old |-> FALSE]

Idle == [job |-> "idle", step |-> "next", ids |-> {}, cur |-> NoRow, retry |-> 0]

Init ==
    /\ row = [i \in Rows |-> NoStaged]
    /\ permit = [k \in Numbers \X Revisions |-> "absent"]
    /\ documents = [k \in Numbers \X Revisions |-> 0]
    /\ run = [r \in Runners |-> Idle]

Staged(i) == row[i].state \in {"PENDING", "PROCESSING", "ERROR"}

\* The permit of a staged row: "The revision number in the permit table is
\* one less than the revision number in the tpsPermit table."
PermitOf(key) == <<key[1], key[2] - 1>>

-----------------------------------------------------------------------------
(* The ETL process (external): it stages PDFs, some of them twice, and its *)
(* triggers create the permits, before or after the PDF arrives.           *)
Stage ==
    /\ \E i \in Rows, key \in Keys :
        /\ row[i].state = "unused"
        /\ \A j \in Rows : j < i => row[j].state # "unused"
        /\ row' = [row EXCEPT ![i] = [NoStaged EXCEPT !.state = "PENDING", !.key = key]]
    /\ UNCHANGED <<permit, documents, run>>

CreatePermit ==
    /\ \E key \in Keys :
        /\ permit[PermitOf(key)] = "absent"
        /\ permit' = [permit EXCEPT ![PermitOf(key)] = "no document"]
    /\ UNCHANGED <<row, documents, run>>

-----------------------------------------------------------------------------
(* The ticks: each reads its rows.                                         *)

\* Mutant: the monitor looks for rows that were never taken.
EligibleNotStuck(job) ==
    CASE job = "pending" -> {i \in Rows : row[i].state = "PENDING"}
      [] job = "error"   -> {i \in Rows : row[i].state = "ERROR" /\ row[i].retry < MaxRetries}
      [] job = "monitor" -> {i \in Rows : row[i].state = "PENDING" /\ row[i].old}

Eligible(job) ==
    CASE job = "pending" -> {i \in Rows : row[i].state = "PENDING"}
      [] job = "error"   -> {i \in Rows : row[i].state = "ERROR" /\ row[i].retry < MaxRetries}
      [] job = "monitor" -> {i \in Rows : row[i].state = "PROCESSING" /\ row[i].old}

\* The monitor reads all of its rows, the others at most PollLimit of them.
Batches(job) ==
    LET E == Eligible(job) IN
    IF job = "monitor" \/ Cardinality(E) <= PollLimit THEN {E}
    ELSE {S \in SUBSET E : Cardinality(S) = PollLimit}

Tick(r, job) ==
    /\ run[r] = Idle
    /\ job \in Jobs
    /\ Eligible(job) # {}
    /\ \E S \in Batches(job) :
        run' = [run EXCEPT ![r] = [Idle EXCEPT !.job = job, !.ids = S,
                                   !.step = IF job = "monitor" THEN "next" ELSE "mark"]]
    /\ UNCHANGED <<row, permit, documents>>

\* One UPDATE by id, whatever the state of the rows has become.
MarkProcessing(r) ==
    /\ run[r].step = "mark"
    /\ row' = [i \in Rows |-> IF i \in run[r].ids /\ Staged(i)
                              THEN [row[i] EXCEPT !.state = "PROCESSING", !.old = FALSE]
                              ELSE row[i]]
    /\ run' = [run EXCEPT ![r].step = "next"]
    /\ UNCHANGED <<permit, documents>>

-----------------------------------------------------------------------------
(* uploadToS3, for one row after the other                                 *)

Goto(r, step) == run' = [run EXCEPT ![r].step = step]

\* On to the next row, or the end of the tick.
NextRow(r) ==
    run' = [run EXCEPT ![r] = IF run[r].ids = {} THEN Idle
                              ELSE [run[r] EXCEPT !.step = "next", !.cur = NoRow,
                                                  !.retry = 0]]

\* Mutant: a permit with a document is not looked for.
AfterLoadAlways(i) ==
    IF permit[PermitOf(row[i].key)] = "absent" THEN "fail" ELSE "upload"

\* Mutant: any permit counts as migrated.
AfterLoadExists(i) ==
    IF permit[PermitOf(row[i].key)] = "absent" THEN "fail" ELSE "delete"

\* What is done with a row: it failed, its document is there, or it is uploaded.
AfterLoad(i) ==
    CASE permit[PermitOf(row[i].key)] = "absent"   -> "fail"
      [] permit[PermitOf(row[i].key)] = "document" -> "delete"
      [] OTHER                                     -> "upload"

\* A row that another runner has deleted is null: the TypeError is not caught
\* and ends the tick.
Load(r) ==
    /\ run[r].step = "next"
    /\ \E i \in run[r].ids :
        /\ run[r].job # "monitor"
        /\ run' = [run EXCEPT ![r] =
                    IF Staged(i) THEN [run[r] EXCEPT !.ids = @ \ {i}, !.cur = i,
                                                     !.retry = row[i].retry,
                                                     !.step = AfterLoad(i)]
                    ELSE Idle]
    /\ UNCHANGED <<row, permit, documents>>

\* processTpsStuckRecords: checkDocumentIdInPermitTable takes one from the
\* generation, and permitExists takes one more.
HasDocument(key) ==
    /\ key[2] - 2 \in Revisions
    /\ permit[<<key[1], key[2] - 2>>] = "document"

LoadStuck(r) ==
    /\ run[r].step = "next"
    /\ run[r].job = "monitor"
    /\ \E i \in run[r].ids :
        run' = [run EXCEPT ![r] =
                  IF HasDocument(row[i].key)
                  THEN [run[r] EXCEPT !.ids = @ \ {i}, !.cur = i, !.step = "delete"]
                  ELSE IF Staged(i)
                  THEN [run[r] EXCEPT !.ids = @ \ {i}, !.cur = i,
                                      !.retry = row[i].retry, !.step = AfterLoad(i)]
                  ELSE Idle]
    /\ UNCHANGED <<row, permit, documents>>

\* handlePermitNotExist, and uploadToS3AndHandleErrors when the upload fails
Failed(r) ==
    /\ \/ run[r].step = "fail"
       \/ run[r].step = "upload" /\ "upload" \in Faults
    /\ row' = [row EXCEPT ![run[r].cur] =
                 IF Staged(run[r].cur)
                 THEN [@ EXCEPT !.state = "ERROR", !.retry = run[r].retry + 1, !.old = FALSE]
                 ELSE @]
    /\ NextRow(r)
    /\ UNCHANGED <<permit, documents>>

Upload(r) ==
    /\ run[r].step = "upload"
    /\ Goto(r, "document")
    /\ UNCHANGED <<row, permit, documents>>

CreateDocument(r) ==
    LET p == PermitOf(row[run[r].cur].key) IN
    /\ run[r].step = "document"
    /\ documents' = [documents EXCEPT ![p] = IF @ < MaxDocuments THEN @ + 1 ELSE @]
    /\ Goto(r, "link")
    /\ UNCHANGED <<row, permit>>

\* updatePermitWithDocumentId
Link(r) ==
    LET p == PermitOf(row[run[r].cur].key) IN
    /\ run[r].step = "link"
    /\ permit' = [permit EXCEPT ![p] = IF @ = "absent" THEN @ ELSE "document"]
    /\ Goto(r, "delete")
    /\ UNCHANGED <<row, documents>>

\* createDocument or the update of the permit fails: it is logged, the row
\* stays in PROCESSING.
LeaveStuck(r) ==
    /\ \/ run[r].step = "document" /\ "document" \in Faults
       \/ run[r].step = "link" /\ "link" \in Faults
    /\ NextRow(r)
    /\ UNCHANGED <<row, permit, documents>>

\* deleteTpsPermit
Delete(r) ==
    /\ run[r].step = "delete"
    /\ row' = [row EXCEPT ![run[r].cur].state = "deleted"]
    /\ NextRow(r)
    /\ UNCHANGED <<permit, documents>>

-----------------------------------------------------------------------------
\* A day passes for a row that no tick is working on (a tick takes less).
GrowOld ==
    /\ \E i \in Rows :
        /\ row[i].state = "PROCESSING"
        /\ ~row[i].old
        /\ \A r \in Runners : i \notin run[r].ids \cup {run[r].cur}
        /\ row' = [row EXCEPT ![i].old = TRUE]
    /\ UNCHANGED <<permit, documents, run>>

Crash(r) ==
    /\ "crash" \in Faults
    /\ run[r] # Idle
    /\ run' = [run EXCEPT ![r] = Idle]
    /\ UNCHANGED <<row, permit, documents>>

Work(r) ==
    \/ MarkProcessing(r) \/ Load(r) \/ LoadStuck(r) \/ Failed(r) \/ Upload(r)
    \/ CreateDocument(r) \/ Link(r) \/ LeaveStuck(r) \/ Delete(r)

Next ==
    \/ Stage \/ CreatePermit \/ GrowOld
    \/ \E r \in Runners : Work(r) \/ Crash(r) \/ \E job \in Jobs : Tick(r, job)

Spec == Init /\ [][Next]_vars

(* Nest fires the ticks for ever, and a step that is reached again and     *)
(* again is not cut short by a failure or a crash every time.              *)
Fairness ==
    /\ WF_vars(GrowOld)
    /\ \A r \in Runners :
        /\ WF_vars(Work(r))
        /\ \A job \in Jobs : SF_vars(Tick(r, job))
        /\ SF_vars(MarkProcessing(r)) /\ SF_vars(Load(r)) /\ SF_vars(LoadStuck(r))
        /\ SF_vars(Failed(r)) /\ SF_vars(Upload(r))
        /\ SF_vars(CreateDocument(r)) /\ SF_vars(Link(r)) /\ SF_vars(Delete(r))

FairSpec == Spec /\ Fairness

-----------------------------------------------------------------------------
(* Properties                                                              *)

Runs == [job : {"idle", "pending", "error", "monitor"},
         step : {"next", "mark", "fail", "upload", "document", "link", "delete"},
         ids : SUBSET Rows, cur : Rows \cup {NoRow}, retry : Nat]

StagedRows == [state : {"unused", "PENDING", "PROCESSING", "ERROR", "deleted"},
               key : Keys \cup {<<>>}, retry : Nat, old : BOOLEAN]

\* The type invariant.
TypeOK ==
    /\ row \in [Rows -> StagedRows]
    /\ permit \in [Numbers \X Revisions -> {"absent", "no document", "document"}]
    /\ documents \in [Numbers \X Revisions -> Nat]
    /\ run \in [Runners -> Runs]

\* A PDF leaves the staging table only when its permit has its document: of the
\* upload and the retry job (the monitoring job is StuckIsNotDropped) no
\* overlap, failure or crash loses a PDF.
NoPdfLost ==
    \A i \in Rows :
        row[i].state = "deleted" => permit[PermitOf(row[i].key)] = "document"

\* With one tick at a time, a row is tried again MaxRetries times at most.
RetriesBounded == \A i \in Rows : row[i].retry <= MaxRetries

\* With one tick at a time and no failure after the upload, a permit gets one
\* document, although its PDF may be staged twice.
OneDocument == \A k \in Numbers \X Revisions : documents[k] <= 1

\* Every staged row ends: its PDF is moved, or its retries are used up.
Settled(i) ==
    \/ row[i].state = "deleted"
    \/ row[i].state = "ERROR" /\ row[i].retry >= MaxRetries

EveryRowSettles == \A i \in Rows : Staged(i) ~> Settled(i)

-----------------------------------------------------------------------------
(* What the repository says of the program and the program does not do     *)

\* processTpsStuckRecords: "verifies if their corresponding documents have
\* been uploaded ... Otherwise, it attempts to upload the permit document
\* again".  A stuck row whose document is missing is not dropped.
StuckIsNotDropped ==
    [][\A i \in Rows :
        /\ row[i].state = "PROCESSING"
        /\ permit[PermitOf(row[i].key)] # "document"
        => row'[i].state # "deleted"]_vars

=============================================================================
