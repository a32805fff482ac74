--------------------------- MODULE SchedulerProofs ---------------------------
(***************************************************************************)
(* Proofs about the scheduler's jobs, for every number of replicas, rows,  *)
(* permits, generations and receipts, and for every set of faults.  First, *)
(* of TpsMigration with ticks that overlap: its types, and that the upload *)
(* and the retry job lose no PDF.  Then, of the two jobs as MCScheduler    *)
(* runs them: with one tick at a time, the monitoring job included, no PDF *)
(* is lost, a permit gets one document, and a row is tried MaxRetries      *)
(* times at most; however calls overlap, documents stay and receipts are   *)
(* complete.                                                               *)
(***************************************************************************)
EXTENDS MCScheduler, FiniteSetTheorems, TLAPS

USE SizesAssumption, JobsAssumption, DocumentsAssumption

(***************************************************************************)
(* The inductive invariant.                                                *)
(***************************************************************************)

\* A row that was staged has the number and the generation of its permit.
StagedHaveKeys == \A i \in Rows : row[i].state # "unused" => row[i].key \in Keys

Busy == {"fail", "upload", "document", "link", "delete"}

\* A tick of the upload or the retry job in the middle of a row has a row that
\* was staged once (it may be deleted by now), and what it is about to do with
\* it is still right when it does it.
Sound(r) ==
    LET p == PermitOf(row[run[r].cur].key) IN
    /\ run[r].job # "monitor"
    /\ run[r].step \in Busy => /\ run[r].cur \in Rows
                               /\ row[run[r].cur].state # "unused"
    /\ run[r].step \in {"upload", "document", "link"} => permit[p] # "absent"
    /\ run[r].step = "delete" => permit[p] = "document"

MigrationInv ==
    /\ TypeOK
    /\ StagedHaveKeys
    /\ \A r \in Runners : Sound(r)
    /\ NoPdfLost

-----------------------------------------------------------------------------
(* Keys and rows                                                           *)

\* The permit of a staged row is a row of the permit table.
LEMMA PermitOfKey ==
    ASSUME NEW key \in Keys
    PROVE  PermitOf(key) \in Numbers \X Revisions
BY DEF PermitOf, Keys, Generations, Revisions

LEMMA RowIsNotNoRow == NoRow \notin Rows
BY DEF NoRow, Rows

\* What AfterLoad and the ticks may choose.
LEMMA AfterLoadType ==
    ASSUME NEW i
    PROVE  AfterLoad(i) \in {"fail", "delete", "upload"}
BY DEF AfterLoad

LEMMA EligibleType ==
    ASSUME NEW job \in Jobs, NEW S \in Batches(job)
    PROVE  S \subseteq Rows
<1>1. Eligible(job) \subseteq Rows
  BY DEF Eligible
<1> QED
  BY <1>1 DEF Batches

LEMMA IdleType == Idle \in Runs
BY DEF Idle, Runs

\* What a step changes in a tick and in a row.
LEMMA RunUpdates ==
    ASSUME NEW t \in Runs
    PROVE  /\ \A step \in {"next", "document", "link", "delete"} :
                [t EXCEPT !.step = step] \in Runs
           /\ [t EXCEPT !.step = "next", !.cur = NoRow, !.retry = 0] \in Runs
BY DEF Runs

LEMMA RunLoads ==
    ASSUME NEW t \in Runs, NEW i \in Rows, NEW n \in Nat,
           NEW step \in {"fail", "delete", "upload"}
    PROVE  /\ [t EXCEPT !.ids = @ \ {i}, !.cur = i, !.retry = n, !.step = step] \in Runs
           /\ [t EXCEPT !.ids = @ \ {i}, !.cur = i, !.step = step] \in Runs
BY DEF Runs

LEMMA RowUpdates ==
    ASSUME NEW s \in StagedRows
    PROVE  /\ [s EXCEPT !.state = "PROCESSING", !.old = FALSE] \in StagedRows
           /\ [s EXCEPT !.state = "deleted"] \in StagedRows
           /\ [s EXCEPT !.old = TRUE] \in StagedRows
           /\ \A n \in Nat :
                [s EXCEPT !.state = "ERROR", !.retry = n, !.old = FALSE] \in StagedRows
BY DEF StagedRows

-----------------------------------------------------------------------------
(* The type invariant                                                      *)

LEMMA InitType == Init => TypeOK
<1> SUFFICES ASSUME Init PROVE TypeOK
  OBVIOUS
<1>1. NoStaged \in StagedRows
  BY DEF NoStaged, StagedRows
<1> QED
  BY <1>1, IdleType DEF Init, TypeOK

\* The next row, or the end of the tick.
LEMMA NextRowType ==
    ASSUME TypeOK, NEW r \in Runners, NextRow(r)
    PROVE  run' \in [Runners -> Runs]
<1>1. run[r] \in Runs
  BY DEF TypeOK
<1>2. [run[r] EXCEPT !.step = "next", !.cur = NoRow, !.retry = 0] \in Runs
  BY <1>1, RunUpdates
<1> QED
  BY <1>2, IdleType DEF TypeOK, NextRow

LEMMA GotoType ==
    ASSUME TypeOK, NEW r \in Runners,
           NEW step \in {"document", "link", "delete"}, Goto(r, step)
    PROVE  run' \in [Runners -> Runs]
<1>1. [run[r] EXCEPT !.step = step] \in Runs
  BY RunUpdates DEF TypeOK
<1> QED
  BY <1>1 DEF TypeOK, Goto

LEMMA StageType == TypeOK /\ Stage => TypeOK'
<1> SUFFICES ASSUME TypeOK, NEW i \in Rows, NEW key \in Keys,
                    row' = [row EXCEPT ![i] = [NoStaged EXCEPT !.state = "PENDING",
                                                               !.key = key]],
                    UNCHANGED <<permit, documents, run>>
             PROVE  TypeOK'
  BY DEF Stage
<1>1. [NoStaged EXCEPT !.state = "PENDING", !.key = key] \in StagedRows
  BY DEF NoStaged, StagedRows
<1> QED
  BY <1>1 DEF TypeOK

LEMMA CreatePermitType == TypeOK /\ CreatePermit => TypeOK'
BY DEF TypeOK, CreatePermit

LEMMA GrowOldType == TypeOK /\ GrowOld => TypeOK'
<1> SUFFICES ASSUME TypeOK, NEW i \in Rows, row' = [row EXCEPT ![i].old = TRUE],
                    UNCHANGED <<permit, documents, run>>
             PROVE  TypeOK'
  BY DEF GrowOld
<1>1. [row[i] EXCEPT !.old = TRUE] \in StagedRows
  BY RowUpdates DEF TypeOK
<1> QED
  BY <1>1 DEF TypeOK

LEMMA TickType ==
    ASSUME TypeOK, NEW r \in Runners, NEW job \in Jobs, Tick(r, job)
    PROVE  TypeOK'
<1>1. PICK S \in Batches(job) :
        run' = [run EXCEPT ![r] = [Idle EXCEPT !.job = job, !.ids = S,
                                   !.step = IF job = "monitor" THEN "next" ELSE "mark"]]
  BY DEF Tick
<1>2. S \subseteq Rows
  BY EligibleType
<1>3. [Idle EXCEPT !.job = job, !.ids = S,
                   !.step = IF job = "monitor" THEN "next" ELSE "mark"] \in Runs
  BY <1>2 DEF Idle, Runs
<1> QED
  BY <1>1, <1>3 DEF TypeOK, Tick

LEMMA CrashType ==
    ASSUME TypeOK, NEW r \in Runners, Crash(r)
    PROVE  TypeOK'
BY IdleType DEF TypeOK, Crash

LEMMA MarkProcessingType ==
    ASSUME TypeOK, NEW r \in Runners, MarkProcessing(r)
    PROVE  TypeOK'
<1>1. [run[r] EXCEPT !.step = "next"] \in Runs
  BY RunUpdates DEF TypeOK
<1>2. \A i \in Rows : [row[i] EXCEPT !.state = "PROCESSING", !.old = FALSE] \in StagedRows
  BY RowUpdates DEF TypeOK
<1> QED
  BY <1>1, <1>2 DEF TypeOK, MarkProcessing

LEMMA LoadType ==
    ASSUME TypeOK, NEW r \in Runners, Load(r)
    PROVE  TypeOK'
<1>1. PICK i \in run[r].ids :
        run' = [run EXCEPT ![r] =
                    IF Staged(i) THEN [run[r] EXCEPT !.ids = @ \ {i}, !.cur = i,
                                                     !.retry = row[i].retry,
                                                     !.step = AfterLoad(i)]
                    ELSE Idle]
  BY DEF Load
<1>2. i \in Rows /\ row[i].retry \in Nat
  BY DEF TypeOK, Runs, StagedRows
<1>3. [run[r] EXCEPT !.ids = @ \ {i}, !.cur = i, !.retry = row[i].retry,
                     !.step = AfterLoad(i)] \in Runs
  BY <1>2, AfterLoadType, RunLoads DEF TypeOK
<1> QED
  BY <1>1, <1>3, IdleType DEF TypeOK, Load

LEMMA LoadStuckType ==
    ASSUME TypeOK, NEW r \in Runners, LoadStuck(r)
    PROVE  TypeOK'
<1>1. PICK i \in run[r].ids :
        run' = [run EXCEPT ![r] =
                  IF HasDocument(row[i].key)
                  THEN [run[r] EXCEPT !.ids = @ \ {i}, !.cur = i, !.step = "delete"]
                  ELSE IF Staged(i)
                  THEN [run[r] EXCEPT !.ids = @ \ {i}, !.cur = i,
                                      !.retry = row[i].retry, !.step = AfterLoad(i)]
                  ELSE Idle]
  BY DEF LoadStuck
<1>2. i \in Rows /\ row[i].retry \in Nat
  BY DEF TypeOK, Runs, StagedRows
<1>3. [run[r] EXCEPT !.ids = @ \ {i}, !.cur = i, !.retry = row[i].retry,
                     !.step = AfterLoad(i)] \in Runs
  BY <1>2, AfterLoadType, RunLoads DEF TypeOK
<1>4. [run[r] EXCEPT !.ids = @ \ {i}, !.cur = i, !.step = "delete"] \in Runs
  BY <1>2, RunLoads DEF TypeOK
<1> QED
  BY <1>1, <1>3, <1>4, IdleType DEF TypeOK, LoadStuck

LEMMA FailedType ==
    ASSUME TypeOK, NEW r \in Runners, Failed(r)
    PROVE  TypeOK'
<1>1. run' \in [Runners -> Runs]
  BY NextRowType DEF Failed
<1>2. run[r].retry + 1 \in Nat
  <2>1. run[r] \in Runs
    BY DEF TypeOK
  <2> QED
    BY <2>1 DEF Runs
<1>3. \A i \in Rows : [row[i] EXCEPT !.state = "ERROR", !.retry = run[r].retry + 1,
                                     !.old = FALSE] \in StagedRows
  BY <1>2, RowUpdates DEF TypeOK
<1> QED
  BY <1>1, <1>3 DEF TypeOK, Failed

LEMMA UploadType ==
    ASSUME TypeOK, NEW r \in Runners, Upload(r)
    PROVE  TypeOK'
BY GotoType DEF TypeOK, Upload

LEMMA CreateDocumentType ==
    ASSUME TypeOK, NEW r \in Runners, CreateDocument(r)
    PROVE  TypeOK'
<1>1. run' \in [Runners -> Runs]
  BY GotoType DEF CreateDocument
<1>3. documents' \in [Numbers \X Revisions -> Nat]
  <2> DEFINE Revised == Numbers \X Revisions
             p == PermitOf(row[run[r].cur].key)
  <2>1. documents \in [Revised -> Nat]
    BY DEF TypeOK
  <2>2. documents' = [documents EXCEPT ![p] = IF @ < MaxDocuments THEN @ + 1 ELSE @]
    BY DEF CreateDocument
  <2> HIDE DEF p, Revised
  <2>3. \A k \in Revised :
          documents'[k] = IF k # p THEN documents[k]
                          ELSE IF documents[k] < MaxDocuments THEN documents[k] + 1
                          ELSE documents[k]
    BY <2>1, <2>2
  <2>4. \A k \in Revised : documents'[k] \in Nat
    BY <2>1, <2>3
  <2>5. documents' = [k \in Revised |-> documents'[k]]
    BY <2>1, <2>2
  <2> QED
    BY <2>4, <2>5 DEF Revised
<1> QED
  BY <1>1, <1>3 DEF TypeOK, CreateDocument

LEMMA LinkType ==
    ASSUME TypeOK, NEW r \in Runners, Link(r)
    PROVE  TypeOK'
<1>1. run' \in [Runners -> Runs]
  BY GotoType DEF Link
<1>2. permit' \in [Numbers \X Revisions -> {"absent", "no document", "document"}]
  BY DEF TypeOK, Link
<1> QED
  BY <1>1, <1>2 DEF TypeOK, Link

LEMMA LeaveStuckType ==
    ASSUME TypeOK, NEW r \in Runners, LeaveStuck(r)
    PROVE  TypeOK'
BY NextRowType DEF TypeOK, LeaveStuck

LEMMA DeleteType ==
    ASSUME TypeOK, NEW r \in Runners, Delete(r)
    PROVE  TypeOK'
<1>1. run' \in [Runners -> Runs]
  BY NextRowType DEF Delete
<1>2. \A i \in Rows : [row[i] EXCEPT !.state = "deleted"] \in StagedRows
  BY RowUpdates DEF TypeOK
<1> QED
  BY <1>1, <1>2 DEF TypeOK, Delete

LEMMA NextType == TypeOK /\ [Next]_vars => TypeOK'
<1> SUFFICES ASSUME TypeOK, [Next]_vars PROVE TypeOK'
  OBVIOUS
<1>1. CASE Stage \/ CreatePermit \/ GrowOld
  BY <1>1, StageType, CreatePermitType, GrowOldType
<1>2. CASE \E r \in Runners : Work(r)
  BY <1>2, MarkProcessingType, LoadType, LoadStuckType, FailedType, UploadType,
     CreateDocumentType, LinkType, LeaveStuckType, DeleteType DEF Work
<1>3. CASE \E r \in Runners : Crash(r)
  BY <1>3, CrashType
<1>4. CASE \E r \in Runners : \E job \in Jobs : Tick(r, job)
  BY <1>4, TickType
<1>5. CASE UNCHANGED vars
  BY <1>5 DEF vars, TypeOK
<1> QED
  BY <1>1, <1>2, <1>3, <1>4, <1>5 DEF Next

\* The staging table, the permits and what each tick holds stay well typed,
\* for every fault and every job, the monitoring job included.
THEOREM MigrationTypeCorrect == Spec => []TypeOK
<1> QED
  BY InitType, NextType, PTL DEF Spec

-----------------------------------------------------------------------------
(* What every step of the upload and the retry job does to rows and permits *)

\* A row keeps its key, is staged as PENDING, and is deleted only when its
\* permit has its document.
RowsGoOn ==
    \A i \in Rows :
        /\ row[i].state # "unused" => /\ row'[i].state # "unused"
                                     /\ row'[i].key = row[i].key
        /\ row[i].state = "unused" /\ row'[i].state # "unused" =>
              row'[i].key \in Keys /\ row'[i].state = "PENDING"
        /\ row[i].state # "deleted" /\ row'[i].state = "deleted" =>
              permit[PermitOf(row[i].key)] = "document"

\* A permit stays, and so does its document.
PermitsStay ==
    \A p \in Numbers \X Revisions :
        /\ permit[p] # "absent" => permit'[p] # "absent"
        /\ permit[p] = "document" => permit'[p] = "document"

\* The other ticks stay sound.
LEMMA SoundStays ==
    ASSUME TypeOK, StagedHaveKeys, RowsGoOn, PermitsStay,
           NEW q \in Runners, Sound(q), run'[q] = run[q]
    PROVE  Sound(q)'
<1>1. CASE run[q].step \notin Busy
  BY <1>1 DEF Sound, Busy
<1>2. CASE run[q].step \in Busy
  <2> DEFINE i == run[q].cur
  <2>1. /\ i \in Rows /\ row[i].state # "unused" /\ row[i].key \in Keys
        /\ row'[i].state # "unused" /\ row'[i].key = row[i].key
    BY <1>2 DEF Sound, StagedHaveKeys, RowsGoOn
  <2>2. PermitOf(row[i].key) \in Numbers \X Revisions
    BY <2>1, PermitOfKey
  <2> QED
    BY <2>1, <2>2 DEF Sound, PermitsStay, Busy
<1> QED
  BY <1>1, <1>2

LEMMA KeysStay ==
    ASSUME StagedHaveKeys, RowsGoOn
    PROVE  StagedHaveKeys'
BY DEF StagedHaveKeys, RowsGoOn

LEMMA PdfsStay ==
    ASSUME StagedHaveKeys, NoPdfLost, RowsGoOn, PermitsStay
    PROVE  NoPdfLost'
<1> SUFFICES ASSUME NEW i \in Rows, row'[i].state = "deleted"
             PROVE  permit'[PermitOf(row'[i].key)] = "document"
  BY DEF NoPdfLost
<1>1. /\ row[i].key \in Keys /\ row'[i].key = row[i].key
      /\ permit[PermitOf(row[i].key)] = "document"
  BY DEF StagedHaveKeys, NoPdfLost, RowsGoOn
<1>2. PermitOf(row[i].key) \in Numbers \X Revisions
  BY <1>1, PermitOfKey
<1> QED
  BY <1>1, <1>2 DEF PermitsStay

-----------------------------------------------------------------------------
(* The steps                                                               *)

\* On to the next row, or idle: nothing has to hold of the tick.
LEMMA NextRowSound ==
    ASSUME TypeOK, NEW r \in Runners, run[r].job # "monitor", NextRow(r)
    PROVE  Sound(r)'
<1>1. run'[r] = IF run[r].ids = {} THEN Idle
                ELSE [run[r] EXCEPT !.step = "next", !.cur = NoRow, !.retry = 0]
  BY DEF TypeOK, NextRow
<1>2. run[r] \in Runs
  BY DEF TypeOK
<1>3. run'[r].step = "next" /\ run'[r].job # "monitor"
  BY <1>1, <1>2 DEF Idle, Runs
<1> QED
  BY <1>3 DEF Sound, Busy

LEMMA RowsUnchanged == UNCHANGED row => RowsGoOn
BY DEF RowsGoOn

LEMMA PermitsUnchanged == UNCHANGED permit => PermitsStay
BY DEF PermitsStay

LEMMA StageStep ==
    ASSUME MigrationInv, Stage
    PROVE  RowsGoOn /\ PermitsStay /\ run' = run
<1>1. PICK i \in Rows, key \in Keys :
        /\ row[i].state = "unused"
        /\ row' = [row EXCEPT ![i] = [NoStaged EXCEPT !.state = "PENDING", !.key = key]]
  BY DEF Stage
<1>2. row'[i].state = "PENDING" /\ row'[i].key = key
  BY <1>1 DEF MigrationInv, TypeOK, NoStaged
<1>3. \A j \in Rows \ {i} : row'[j] = row[j]
  BY <1>1 DEF MigrationInv, TypeOK
<1>4. RowsGoOn
  BY <1>1, <1>2, <1>3 DEF RowsGoOn
<1> QED
  BY <1>4, PermitsUnchanged DEF Stage

LEMMA CreatePermitStep ==
    ASSUME MigrationInv, CreatePermit
    PROVE  RowsGoOn /\ PermitsStay /\ run' = run
<1>1. PICK key \in Keys :
        /\ permit[PermitOf(key)] = "absent"
        /\ permit' = [permit EXCEPT ![PermitOf(key)] = "no document"]
  BY DEF CreatePermit
<1>2. PermitsStay
  <2> DEFINE q == PermitOf(key)
  <2> HIDE DEF q
  <2>1. permit[q] = "absent" /\ permit' = [permit EXCEPT ![q] = "no document"]
    BY <1>1 DEF q
  <2>2. permit \in [Numbers \X Revisions -> {"absent", "no document", "document"}]
    BY DEF MigrationInv, TypeOK
  <2> QED
    BY <2>1, <2>2 DEF PermitsStay
<1> QED
  BY <1>2, RowsUnchanged DEF CreatePermit

LEMMA GrowOldStep ==
    ASSUME MigrationInv, GrowOld
    PROVE  RowsGoOn /\ PermitsStay /\ run' = run
<1>1. PICK i \in Rows : row' = [row EXCEPT ![i].old = TRUE]
  BY DEF GrowOld
<1>2. \A j \in Rows : row'[j].state = row[j].state /\ row'[j].key = row[j].key
  BY <1>1 DEF MigrationInv, TypeOK, StagedRows
<1>3. RowsGoOn
  BY <1>2 DEF RowsGoOn
<1> QED
  BY <1>3, PermitsUnchanged DEF GrowOld

LEMMA TickStep ==
    ASSUME MigrationInv, NEW r \in Runners, NEW job \in Jobs, job # "monitor",
           Tick(r, job)
    PROVE  /\ RowsGoOn /\ PermitsStay /\ Sound(r)'
           /\ \A q \in Runners \ {r} : run'[q] = run[q]
<1>1. PICK S \in Batches(job) :
        run' = [run EXCEPT ![r] = [Idle EXCEPT !.job = job, !.ids = S, !.step = "mark"]]
  BY DEF Tick
<1>2. run'[r].step = "mark" /\ run'[r].job = job
  BY <1>1 DEF MigrationInv, TypeOK, Idle
<1>3. Sound(r)'
  BY <1>2 DEF Sound, Busy
<1> QED
  BY <1>1, <1>3, RowsUnchanged, PermitsUnchanged DEF MigrationInv, TypeOK, Tick

LEMMA CrashStep ==
    ASSUME MigrationInv, NEW r \in Runners, Crash(r)
    PROVE  /\ RowsGoOn /\ PermitsStay /\ Sound(r)'
           /\ \A q \in Runners \ {r} : run'[q] = run[q]
<1>1. run'[r] = Idle
  BY DEF MigrationInv, TypeOK, Crash
<1>2. Sound(r)'
  BY <1>1 DEF Sound, Idle, Busy
<1> QED
  BY <1>2, RowsUnchanged, PermitsUnchanged DEF MigrationInv, TypeOK, Crash

LEMMA MarkProcessingStep ==
    ASSUME MigrationInv, NEW r \in Runners, MarkProcessing(r)
    PROVE  /\ RowsGoOn /\ PermitsStay /\ Sound(r)'
           /\ \A q \in Runners \ {r} : run'[q] = run[q]
<1>1. \A i \in Rows : row[i] \in StagedRows
  BY DEF MigrationInv, TypeOK
<1>2. \A i \in Rows :
        /\ row'[i].key = row[i].key
        /\ \/ row'[i].state = row[i].state
           \/ Staged(i) /\ row'[i].state = "PROCESSING"
  BY <1>1 DEF MarkProcessing, StagedRows
<1>3. RowsGoOn
  BY <1>2 DEF RowsGoOn, Staged
<1>4. run[r] \in Runs /\ run'[r] = [run[r] EXCEPT !.step = "next"]
  BY DEF MigrationInv, TypeOK, MarkProcessing
<1>5. run'[r].step = "next" /\ run'[r].job = run[r].job
  BY <1>4 DEF Runs
<1>6. Sound(r)'
  BY <1>5 DEF MigrationInv, Sound, Busy
<1> QED
  BY <1>3, <1>6, PermitsUnchanged DEF MigrationInv, TypeOK, MarkProcessing

LEMMA LoadStep ==
    ASSUME MigrationInv, NEW r \in Runners, Load(r)
    PROVE  /\ RowsGoOn /\ PermitsStay /\ Sound(r)'
           /\ \A q \in Runners \ {r} : run'[q] = run[q]
<1>1. PICK i \in run[r].ids :
        run' = [run EXCEPT ![r] =
                    IF Staged(i) THEN [run[r] EXCEPT !.ids = @ \ {i}, !.cur = i,
                                                     !.retry = row[i].retry,
                                                     !.step = AfterLoad(i)]
                    ELSE Idle]
  BY DEF Load
<1>2. run[r] \in Runs /\ i \in Rows
  BY DEF MigrationInv, TypeOK, Runs
<1>3. ASSUME Staged(i) PROVE Sound(r)'
  <2>1. run'[r] = [run[r] EXCEPT !.ids = @ \ {i}, !.cur = i,
                                 !.retry = row[i].retry, !.step = AfterLoad(i)]
    BY <1>1, <1>3 DEF MigrationInv, TypeOK
  <2>2. /\ run'[r].job = run[r].job /\ run'[r].cur = i
        /\ run'[r].step = AfterLoad(i)
    BY <1>2, <2>1 DEF Runs
  <2>3. row[i].state # "unused" /\ UNCHANGED <<row, permit>>
    BY <1>3 DEF Staged, Load
  <2>4. run'[r].job # "monitor"
    BY <2>2 DEF MigrationInv, Sound
  <2>5. /\ AfterLoad(i) = "delete" => permit[PermitOf(row[i].key)] = "document"
        /\ AfterLoad(i) \in {"upload", "document", "link"} =>
              permit[PermitOf(row[i].key)] # "absent"
    BY DEF AfterLoad
  <2> QED
    BY <1>2, <2>2, <2>3, <2>4, <2>5 DEF Sound
<1>4. ASSUME ~Staged(i) PROVE Sound(r)'
  <2>1. run'[r] = Idle
    BY <1>1, <1>4 DEF MigrationInv, TypeOK
  <2> QED
    BY <2>1 DEF Sound, Idle, Busy
<1>5. \A q \in Runners \ {r} : run'[q] = run[q]
  BY <1>1 DEF MigrationInv, TypeOK
<1> QED
  BY <1>3, <1>4, <1>5, RowsUnchanged, PermitsUnchanged DEF Load

\* The monitoring job is another theorem's business.
LEMMA LoadStuckStep ==
    ASSUME MigrationInv, NEW r \in Runners
    PROVE  ~LoadStuck(r)
BY DEF MigrationInv, Sound, LoadStuck

LEMMA FailedStep ==
    ASSUME MigrationInv, NEW r \in Runners, Failed(r)
    PROVE  /\ RowsGoOn /\ PermitsStay /\ Sound(r)'
           /\ \A q \in Runners \ {r} : run'[q] = run[q]
<1>1. \A i \in Rows : row[i] \in StagedRows
  BY DEF MigrationInv, TypeOK
<1>2. \A i \in Rows :
        row'[i] = IF i = run[r].cur /\ Staged(i)
                  THEN [row[i] EXCEPT !.state = "ERROR", !.retry = run[r].retry + 1,
                                      !.old = FALSE]
                  ELSE row[i]
  BY DEF MigrationInv, TypeOK, Failed
<1>3. ASSUME NEW i \in Rows
      PROVE  /\ row'[i].key = row[i].key
             /\ \/ row'[i].state = row[i].state
                \/ Staged(i) /\ row'[i].state = "ERROR"
  <2> DEFINE n == run[r].retry + 1
  <2>1. row[i] \in StagedRows
    BY <1>1
  <2>2. CASE i = run[r].cur /\ Staged(i)
    <3>1. row'[i] = [row[i] EXCEPT !.state = "ERROR", !.retry = n, !.old = FALSE]
      BY <1>2, <2>2
    <3> HIDE DEF n
    <3>2. row'[i].key = row[i].key /\ row'[i].state = "ERROR"
      BY <2>1, <3>1 DEF StagedRows
    <3> QED
      BY <2>2, <3>2
  <2>3. CASE ~(i = run[r].cur /\ Staged(i))
    BY <1>2, <2>3
  <2> QED
    BY <2>2, <2>3
<1>4. RowsGoOn
  BY <1>3 DEF RowsGoOn, Staged
<1>5. Sound(r)'
  BY NextRowSound DEF MigrationInv, Sound, Failed
<1> QED
  BY <1>4, <1>5, PermitsUnchanged DEF MigrationInv, TypeOK, Failed, NextRow

LEMMA UploadStep ==
    ASSUME MigrationInv, NEW r \in Runners, Upload(r)
    PROVE  /\ RowsGoOn /\ PermitsStay /\ Sound(r)'
           /\ \A q \in Runners \ {r} : run'[q] = run[q]
<1>1. run[r] \in Runs /\ run'[r] = [run[r] EXCEPT !.step = "document"]
  BY DEF MigrationInv, TypeOK, Upload, Goto
<1>2. /\ run'[r].step = "document" /\ run'[r].job = run[r].job
      /\ run'[r].cur = run[r].cur
  BY <1>1 DEF Runs
<1>3. Sound(r) /\ run[r].step = "upload" /\ UNCHANGED <<row, permit>>
  BY DEF MigrationInv, Upload
<1>4. Sound(r)'
  BY <1>2, <1>3 DEF Sound, Busy
<1> QED
  BY <1>4, RowsUnchanged, PermitsUnchanged DEF MigrationInv, TypeOK, Upload, Goto

LEMMA CreateDocumentStep ==
    ASSUME MigrationInv, NEW r \in Runners, CreateDocument(r)
    PROVE  /\ RowsGoOn /\ PermitsStay /\ Sound(r)'
           /\ \A q \in Runners \ {r} : run'[q] = run[q]
<1>1. run[r] \in Runs /\ run'[r] = [run[r] EXCEPT !.step = "link"]
  BY DEF MigrationInv, TypeOK, CreateDocument, Goto
<1>2. /\ run'[r].step = "link" /\ run'[r].job = run[r].job
      /\ run'[r].cur = run[r].cur
  BY <1>1 DEF Runs
<1>3. Sound(r) /\ run[r].step = "document" /\ UNCHANGED <<row, permit>>
  BY DEF MigrationInv, CreateDocument
<1>4. Sound(r)'
  BY <1>2, <1>3 DEF Sound, Busy
<1> QED
  BY <1>4, RowsUnchanged, PermitsUnchanged
     DEF MigrationInv, TypeOK, CreateDocument, Goto

LEMMA LinkStep ==
    ASSUME MigrationInv, NEW r \in Runners, Link(r)
    PROVE  /\ RowsGoOn /\ PermitsStay /\ Sound(r)'
           /\ \A q \in Runners \ {r} : run'[q] = run[q]
<1> DEFINE p == PermitOf(row[run[r].cur].key)
<1>1. run[r] \in Runs /\ run'[r] = [run[r] EXCEPT !.step = "delete"]
  BY DEF MigrationInv, TypeOK, Link, Goto
<1>2. /\ run'[r].step = "delete" /\ run'[r].job = run[r].job
      /\ run'[r].cur = run[r].cur
  BY <1>1 DEF Runs
<1>3. /\ Sound(r) /\ run[r].step = "link" /\ row' = row
      /\ permit' = [permit EXCEPT ![p] = IF @ = "absent" THEN @ ELSE "document"]
  BY DEF MigrationInv, Link
<1>4. run[r].cur \in Rows /\ row[run[r].cur].key \in Keys
  BY <1>3 DEF MigrationInv, StagedHaveKeys, Sound, Busy
<1>5. p \in Numbers \X Revisions /\ permit[p] # "absent"
  BY <1>3, <1>4, PermitOfKey DEF Sound
<1>6. permit \in [Numbers \X Revisions -> {"absent", "no document", "document"}]
  BY DEF MigrationInv, TypeOK
<1>7. permit'[p] = "document" /\ PermitsStay
  <2> HIDE DEF p
  <2> QED
    BY <1>3, <1>5, <1>6 DEF PermitsStay
<1>8. Sound(r)'
  BY <1>2, <1>3, <1>7 DEF Sound, Busy
<1> QED
  BY <1>7, <1>8, RowsUnchanged DEF MigrationInv, TypeOK, Link, Goto

LEMMA LeaveStuckStep ==
    ASSUME MigrationInv, NEW r \in Runners, LeaveStuck(r)
    PROVE  /\ RowsGoOn /\ PermitsStay /\ Sound(r)'
           /\ \A q \in Runners \ {r} : run'[q] = run[q]
<1>1. Sound(r)'
  BY NextRowSound DEF MigrationInv, Sound, LeaveStuck
<1> QED
  BY <1>1, RowsUnchanged, PermitsUnchanged
     DEF MigrationInv, TypeOK, LeaveStuck, NextRow

LEMMA DeleteStep ==
    ASSUME MigrationInv, NEW r \in Runners, Delete(r)
    PROVE  /\ RowsGoOn /\ PermitsStay /\ Sound(r)'
           /\ \A q \in Runners \ {r} : run'[q] = run[q]
<1>1. /\ run[r].cur \in Rows /\ row[run[r].cur].state # "unused"
      /\ permit[PermitOf(row[run[r].cur].key)] = "document"
  BY DEF MigrationInv, Sound, Busy, Delete
<1>2. \A i \in Rows : row[i] \in StagedRows
  BY DEF MigrationInv, TypeOK
<1>3. \A i \in Rows : row'[i] = IF i = run[r].cur
                                THEN [row[i] EXCEPT !.state = "deleted"] ELSE row[i]
  BY DEF MigrationInv, TypeOK, Delete
<1>4. \A i \in Rows :
        /\ row'[i].key = row[i].key
        /\ row'[i].state = IF i = run[r].cur THEN "deleted" ELSE row[i].state
  <2>1. ASSUME NEW old \in StagedRows
        PROVE  /\ [old EXCEPT !.state = "deleted"].key = old.key
               /\ [old EXCEPT !.state = "deleted"].state = "deleted"
    BY DEF StagedRows
  <2> SUFFICES ASSUME NEW i \in Rows
               PROVE  /\ row'[i].key = row[i].key
                      /\ row'[i].state = IF i = run[r].cur THEN "deleted"
                                         ELSE row[i].state
    OBVIOUS
  <2>2. row[i] \in StagedRows
    BY <1>2
  <2>3. CASE i = run[r].cur
    <3>1. row'[i] = [row[i] EXCEPT !.state = "deleted"]
      BY <1>3, <2>3
    <3> QED
      BY <2>1, <2>2, <2>3, <3>1
  <2>4. CASE i # run[r].cur
    <3>1. row'[i] = row[i]
      BY <1>3, <2>4
    <3> QED
      BY <2>4, <3>1
  <2> QED
    BY <2>3, <2>4
<1>5. RowsGoOn
  BY <1>1, <1>4 DEF RowsGoOn
<1>6. Sound(r)'
  BY NextRowSound DEF MigrationInv, Sound, Delete
<1>7. PermitsStay
  BY PermitsUnchanged DEF MigrationInv, TypeOK, Delete
<1>8. \A q \in Runners \ {r} : run'[q] = run[q]
  BY DEF MigrationInv, TypeOK, Delete, NextRow
<1> QED
  BY <1>5, <1>6, <1>7, <1>8

-----------------------------------------------------------------------------
(* The theorem                                                             *)

LEMMA InitMigration == Init => MigrationInv
<1> SUFFICES ASSUME Init PROVE MigrationInv
  OBVIOUS
<1>1. \A i \in Rows : row[i].state = "unused"
  BY DEF Init, NoStaged
<1>2. \A r \in Runners : Sound(r)
  BY DEF Init, Sound, Idle, Busy
<1> QED
  BY <1>1, <1>2, InitType DEF MigrationInv, StagedHaveKeys, NoPdfLost

\* A step without a tick of the monitoring job.
UploadNext ==
    \/ Stage \/ CreatePermit \/ GrowOld
    \/ \E r \in Runners :
        Work(r) \/ Crash(r) \/ \E job \in Jobs \ {"monitor"} : Tick(r, job)

LEMMA NextMigration ==
    ASSUME MigrationInv, [UploadNext]_vars
    PROVE  MigrationInv'
<1>1. TypeOK'
  <2>1. [Next]_vars
    BY DEF UploadNext, Next
  <2> QED
    BY <2>1, NextType DEF MigrationInv
<1>2. /\ RowsGoOn /\ PermitsStay
      /\ \A q \in Runners : Sound(q)' \/ run'[q] = run[q]
  <2>1. CASE Stage \/ CreatePermit \/ GrowOld
    BY <2>1, StageStep, CreatePermitStep, GrowOldStep
  <2>2. CASE \E r \in Runners : Work(r)
    <3>1. PICK r \in Runners : Work(r)
      BY <2>2
    <3>2. /\ RowsGoOn /\ PermitsStay /\ Sound(r)'
          /\ \A q \in Runners \ {r} : run'[q] = run[q]
      BY <3>1, MarkProcessingStep, LoadStep, LoadStuckStep, FailedStep, UploadStep,
         CreateDocumentStep, LinkStep, LeaveStuckStep, DeleteStep DEF Work
    <3> QED
      BY <3>2
  <2>3. CASE \E r \in Runners : Crash(r)
    BY <2>3, CrashStep
  <2>4. CASE \E r \in Runners : \E job \in Jobs \ {"monitor"} : Tick(r, job)
    BY <2>4, TickStep
  <2>5. CASE UNCHANGED vars
    BY <2>5, RowsUnchanged, PermitsUnchanged DEF vars
  <2> QED
    BY <2>1, <2>2, <2>3, <2>4, <2>5 DEF UploadNext
<1>3. \A q \in Runners : Sound(q)'
  BY <1>2, SoundStays DEF MigrationInv
<1>4. StagedHaveKeys' /\ NoPdfLost'
  BY <1>2, KeysStay, PdfsStay DEF MigrationInv
<1> QED
  BY <1>1, <1>3, <1>4 DEF MigrationInv

\* Without the monitoring job, a PDF leaves the staging table only when its
\* permit has its document: whatever ticks overlap, fail and die.
THEOREM UploadLosesNoPdf ==
    ASSUME "monitor" \notin Jobs
    PROVE  Spec => []NoPdfLost
<1>1. MigrationInv => NoPdfLost
  BY DEF MigrationInv
<1>2. MigrationInv /\ [Next]_vars => MigrationInv'
  <2>1. Next => UploadNext
    BY DEF Next, UploadNext
  <2> QED
    BY <2>1, NextMigration
<1> QED
  BY <1>1, <1>2, InitMigration, PTL DEF Spec

-----------------------------------------------------------------------------
(***************************************************************************)
(* One tick at a time, and no failure after the upload: the inductive      *)
(* invariant.                                                              *)
(***************************************************************************)

\* The rows that a tick has still to work on.
Held(r) == run[r].ids \cup (IF run[r].step \in Busy THEN {run[r].cur} ELSE {})

\* A row waits for its first attempt or was tried MaxRetries times at most, and
\* no tick leaves it in PROCESSING long enough to grow old.
RowsInTime ==
    \A i \in Rows :
        /\ row[i].retry <= MaxRetries
        /\ row[i].state \in {"unused", "PENDING"} => row[i].retry = 0
        /\ ~row[i].old

\* A row in PROCESSING is held by a tick that has marked it.
ProcessingIsHeld ==
    \A i \in Rows :
        row[i].state = "PROCESSING" =>
            \E r \in Runners : run[r].step # "mark" /\ i \in Held(r)

\* What a tick read of a row is still so when it uses it.
Steady(r) ==
    /\ run[r].job # "monitor"
    /\ \A i \in run[r].ids : row[i].retry < MaxRetries
    /\ run[r].step = "mark" =>
         \A i \in run[r].ids : row[i].state \in {"PENDING", "ERROR"}
    /\ run[r].step # "mark" => \A i \in Held(r) : row[i].state = "PROCESSING"
    /\ run[r].step \in Busy =>
         /\ run[r].cur \in Rows \ run[r].ids
         /\ row[run[r].cur].retry < MaxRetries
         /\ run[r].step # "delete" => run[r].retry = row[run[r].cur].retry
    /\ run[r].step \in {"upload", "document", "link"} =>
         permit[PermitOf(row[run[r].cur].key)] = "no document"

\* A document is in its permit, or a tick is about to enter it there.
DocumentsAreLinked ==
    \A k \in Numbers \X Revisions :
        /\ documents[k] <= 1
        /\ documents[k] > 0 =>
             \/ permit[k] = "document"
             \/ \E r \in Runners : /\ run[r].step = "link"
                                   /\ PermitOf(row[run[r].cur].key) = k

OneBusy == \A q, r \in Runners : run[q] # Idle /\ run[r] # Idle => q = r

AloneInv ==
    /\ RowsInTime
    /\ ProcessingIsHeld
    /\ \A r \in Runners : Steady(r)
    /\ DocumentsAreLinked
    /\ OneBusy

-----------------------------------------------------------------------------
(* The steps of the calm part, and of the upload and the retry job         *)

\* A step in which only uploads fail.
CalmNext ==
    \/ Stage \/ CreatePermit \/ GrowOld
    \/ \E r \in Runners :
        \/ MarkProcessing(r) \/ Load(r) \/ LoadStuck(r) \/ Failed(r) \/ Upload(r)
        \/ CreateDocument(r) \/ Link(r) \/ Delete(r)
        \/ \E job \in Jobs : Tick(r, job)

LEMMA CalmSteps == Calm!Next => CalmNext
<1> SUFFICES ASSUME Calm!Next PROVE CalmNext
  OBVIOUS
<1>1. CASE Calm!Stage \/ Calm!CreatePermit \/ Calm!GrowOld
  BY <1>1 DEF CalmNext, Calm!Stage, Calm!CreatePermit, Calm!GrowOld, Stage, CreatePermit,
     GrowOld, Calm!Rows, Rows, Calm!Keys, Keys, Calm!Generations, Generations,
     Calm!NoStaged, NoStaged, Calm!PermitOf, PermitOf
<1>2. ASSUME NEW r \in Runners, NEW job \in Jobs, Calm!Tick(r, job)
      PROVE  Tick(r, job)
  <2>1. Calm!Eligible(job) = Eligible(job)
    BY DEF Calm!Eligible, Eligible, Calm!Rows, Rows, Calm!MaxRetries, MaxRetries
  <2>2. Calm!Batches(job) = Batches(job)
    <3>1. \A S : Calm!Cardinality(S) = Cardinality(S)
      BY DEF Calm!Cardinality, Cardinality
    <3> QED
      BY <2>1, <3>1 DEF Calm!Batches, Batches
  <2>3. Calm!Idle = Idle
    BY DEF Calm!Idle, Idle, Calm!NoRow, NoRow
  <2> QED
    BY <1>2, <2>1, <2>2, <2>3 DEF Calm!Tick, Tick
<1>3. ASSUME NEW r \in Runners, Calm!MarkProcessing(r)
      PROVE  MarkProcessing(r)
  BY <1>3 DEF Calm!MarkProcessing, MarkProcessing, Calm!Staged, Staged, Calm!Rows, Rows
<1>4. ASSUME NEW r \in Runners, Calm!Load(r)
      PROVE  Load(r)
  BY <1>4 DEF Calm!Load, Load, Calm!Staged, Staged, Calm!Idle, Idle, Calm!NoRow, NoRow,
     Calm!AfterLoad, AfterLoad, Calm!PermitOf, PermitOf
<1>5. ASSUME NEW r \in Runners, Calm!LoadStuck(r)
      PROVE  LoadStuck(r)
  BY <1>5 DEF Calm!LoadStuck, LoadStuck, Calm!Staged, Staged, Calm!Idle, Idle, Calm!NoRow,
     NoRow, Calm!AfterLoad, AfterLoad, Calm!PermitOf, PermitOf, Calm!HasDocument,
     HasDocument, Calm!Revisions, Revisions
<1>6. ASSUME NEW r \in Runners, Calm!Failed(r)
      PROVE  Failed(r)
  BY <1>6 DEF Calm!Failed, Failed, Calm!Staged, Staged, Calm!NextRow, NextRow, Calm!Idle,
     Idle, Calm!NoRow, NoRow
<1>7. ASSUME NEW r \in Runners,
             Calm!Upload(r) \/ Calm!CreateDocument(r) \/ Calm!Link(r) \/ Calm!Delete(r)
      PROVE  Upload(r) \/ CreateDocument(r) \/ Link(r) \/ Delete(r)
  BY <1>7 DEF Calm!Upload, Upload, Calm!CreateDocument, CreateDocument, Calm!Link, Link,
     Calm!Delete, Delete, Calm!Goto, Goto, Calm!PermitOf, PermitOf, Calm!NextRow, NextRow,
     Calm!Idle, Idle, Calm!NoRow, NoRow
<1>8. ASSUME NEW r \in Runners, Calm!LeaveStuck(r) \/ Calm!Crash(r)
      PROVE  FALSE
  BY <1>8 DEF Calm!LeaveStuck, Calm!Crash
<1>9. CASE \E r \in Runners :
             Calm!Work(r) \/ Calm!Crash(r) \/ \E job \in Jobs : Calm!Tick(r, job)
  BY <1>2, <1>3, <1>4, <1>5, <1>6, <1>7, <1>8, <1>9 DEF Calm!Work, CalmNext
<1> QED
  BY <1>1, <1>9 DEF Calm!Next

\* The steps of the upload and the retry job, with every fault.
LEMMA UploadSteps == Uploads!Next => UploadNext
<1> SUFFICES ASSUME Uploads!Next PROVE UploadNext
  OBVIOUS
<1>1. CASE Uploads!Stage \/ Uploads!CreatePermit \/ Uploads!GrowOld
  BY <1>1 DEF UploadNext, Uploads!Stage, Uploads!CreatePermit, Uploads!GrowOld, Stage,
     CreatePermit, GrowOld, Uploads!Rows, Rows, Uploads!Keys, Keys, Uploads!Generations,
     Generations, Uploads!NoStaged, NoStaged, Uploads!PermitOf, PermitOf
<1>2. ASSUME NEW r \in Runners, NEW job \in Jobs \ {"monitor"}, Uploads!Tick(r, job)
      PROVE  Tick(r, job)
  <2>1. Uploads!Eligible(job) = Eligible(job)
    BY DEF Uploads!Eligible, Eligible, Uploads!Rows, Rows, Uploads!MaxRetries, MaxRetries
  <2>2. Uploads!Batches(job) = Batches(job)
    <3>1. \A S : Uploads!Cardinality(S) = Cardinality(S)
      BY DEF Uploads!Cardinality, Cardinality
    <3> QED
      BY <2>1, <3>1 DEF Uploads!Batches, Batches
  <2>3. Uploads!Idle = Idle
    BY DEF Uploads!Idle, Idle, Uploads!NoRow, NoRow
  <2> QED
    BY <1>2, <2>1, <2>2, <2>3 DEF Uploads!Tick, Tick
<1>3. ASSUME NEW r \in Runners, Uploads!MarkProcessing(r)
      PROVE  MarkProcessing(r)
  BY <1>3 DEF Uploads!MarkProcessing, MarkProcessing, Uploads!Staged, Staged,
     Uploads!Rows, Rows
<1>4. ASSUME NEW r \in Runners, Uploads!Load(r)
      PROVE  Load(r)
  BY <1>4 DEF Uploads!Load, Load, Uploads!Staged, Staged, Uploads!Idle, Idle,
     Uploads!NoRow, NoRow, Uploads!AfterLoad, AfterLoad, Uploads!PermitOf, PermitOf
<1>5. ASSUME NEW r \in Runners, Uploads!LoadStuck(r)
      PROVE  LoadStuck(r)
  BY <1>5 DEF Uploads!LoadStuck, LoadStuck, Uploads!Staged, Staged, Uploads!Idle, Idle,
     Uploads!NoRow, NoRow, Uploads!AfterLoad, AfterLoad, Uploads!PermitOf, PermitOf,
     Uploads!HasDocument, HasDocument, Uploads!Revisions, Revisions
<1>6. ASSUME NEW r \in Runners, Uploads!Failed(r) \/ Uploads!LeaveStuck(r)
      PROVE  Failed(r) \/ LeaveStuck(r)
  BY <1>6 DEF Uploads!Failed, Failed, Uploads!Staged, Staged, Uploads!NextRow, NextRow,
     Uploads!Idle, Idle, Uploads!NoRow, NoRow, Uploads!LeaveStuck, LeaveStuck
<1>7. ASSUME NEW r \in Runners,
             \/ Uploads!Upload(r) \/ Uploads!CreateDocument(r) \/ Uploads!Link(r)
             \/ Uploads!Delete(r)
      PROVE  Upload(r) \/ CreateDocument(r) \/ Link(r) \/ Delete(r)
  BY <1>7 DEF Uploads!Upload, Upload, Uploads!CreateDocument, CreateDocument, Uploads!Link,
     Link, Uploads!Delete, Delete, Uploads!Goto, Goto, Uploads!PermitOf, PermitOf,
     Uploads!NextRow, NextRow, Uploads!Idle, Idle, Uploads!NoRow, NoRow
<1>8. ASSUME NEW r \in Runners, Uploads!Crash(r)
      PROVE  Crash(r)
  BY <1>8 DEF Uploads!Crash, Crash, Uploads!Idle, Idle, Uploads!NoRow, NoRow
<1>9. CASE \E r \in Runners :
             \/ Uploads!Work(r) \/ Uploads!Crash(r)
             \/ \E job \in Jobs \ {"monitor"} : Uploads!Tick(r, job)
  <2>1. ASSUME NEW r \in Runners, Uploads!Work(r)
        PROVE  Work(r)
    BY <1>3, <1>4, <1>5, <1>6, <1>7, <2>1 DEF Uploads!Work, Work
  <2> QED
    BY <1>2, <1>8, <1>9, <2>1 DEF UploadNext
<1> QED
  BY <1>1, <1>9 DEF Uploads!Next

-----------------------------------------------------------------------------
(* One tick at a time                                                      *)

LEMMA AtMostOneIsOneBusy ==
    ASSUME IsFiniteSet(Runners)
    PROVE  AtMostOneBusy => OneBusy
<1> SUFFICES ASSUME AtMostOneBusy, NEW p \in Runners, NEW q \in Runners,
                    run[p] # Idle, run[q] # Idle, p # q
             PROVE  FALSE
  BY DEF OneBusy
<1> DEFINE busy == {r \in Runners : run[r] # Idle}
           one == {p}
           two == one \cup {q}
<1>1. IsFiniteSet(busy)
  BY FS_Subset
<1>2. IsFiniteSet(one) /\ Cardinality(one) = 1 /\ q \notin one
  BY FS_Singleton
<1>3. two \subseteq busy
  OBVIOUS
<1>4. IsFiniteSet(two) /\ Cardinality(two) = 2
  <2> HIDE DEF one
  <2>1. IsFiniteSet(two) /\ Cardinality(two) = Cardinality(one) + 1
    BY <1>2, FS_AddElement
  <2> QED
    BY <1>2, <2>1
<1> HIDE DEF two
<1>5. Cardinality(two) <= Cardinality(busy) /\ Cardinality(busy) \in Nat
  BY <1>1, <1>3, FS_Subset, FS_CardinalityType
<1> QED
  BY <1>4, <1>5 DEF AtMostOneBusy

\* Next to the tick that works, the others rest and hold nothing.
LEMMA OthersRest ==
    ASSUME AloneInv, NEW r \in Runners, run[r] # Idle
    PROVE  /\ \A q \in Runners \ {r} : run[q] = Idle
           /\ \A i \in Rows :
                row[i].state = "PROCESSING" => run[r].step # "mark" /\ i \in Held(r)
<1>1. \A q \in Runners \ {r} : run[q] = Idle
  BY DEF AloneInv, OneBusy
<1>2. \A q \in Runners \ {r} : Held(q) = {}
  BY <1>1 DEF Held, Idle, Busy
<1> QED
  BY <1>1, <1>2 DEF AloneInv, ProcessingIsHeld

\* A step of the tick that works.
LEMMA WorkStep ==
    ASSUME NEW r \in Runners, \A q \in Runners \ {r} : run'[q] = Idle,
           RowsInTime', Steady(r)', DocumentsAreLinked', OneBusy',
           \A i \in Rows : row'[i].state = "PROCESSING" =>
                run'[r].step # "mark" /\ i \in Held(r)'
    PROVE  AloneInv'
<1>1. ASSUME NEW q \in Runners \ {r}
      PROVE  Steady(q)'
  <2>1. /\ run'[q].job = "idle" /\ run'[q].step = "next" /\ run'[q].ids = {}
        /\ run'[q].step \notin Busy
    BY DEF Idle, Busy
  <2>2. Held(q)' = {}
    BY <2>1 DEF Held
  <2> QED
    BY <2>1, <2>2 DEF Steady
<1>2. \A q \in Runners : Steady(q)'
  BY <1>1
<1>3. ProcessingIsHeld'
  BY DEF ProcessingIsHeld
<1> QED
  BY <1>2, <1>3 DEF AloneInv

-----------------------------------------------------------------------------
(* The steps that no tick takes                                            *)

\* Rows and permits change, but not those that a tick holds.
LEMMA EnvironmentStep ==
    ASSUME TypeOK, AloneInv, UNCHANGED <<documents, run>>, RowsInTime',
           \A i \in Rows :
                \/ row'[i] = row[i]
                \/ row[i].state = "unused" /\ row'[i].state = "PENDING",
           \A k \in Numbers \X Revisions :
                permit[k] # "absent" => permit'[k] = permit[k],
           \A i \in Rows : row[i].state # "unused" => row[i].key \in Keys
    PROVE  AloneInv'
<1>1. ASSUME NEW r \in Runners
      PROVE  /\ \A i \in Held(r) : i \in Rows /\ row'[i] = row[i] /\ row[i].key \in Keys
             /\ Steady(r)'
  <2>1. run[r] \in Runs /\ Steady(r)
    BY DEF TypeOK, AloneInv
  <2>2. \A i \in Held(r) : i \in Rows /\ row[i].state # "unused"
    <3>1. run[r].ids \subseteq Rows
      BY <2>1 DEF Runs
    <3>2. CASE run[r].step = "mark"
      BY <2>1, <3>1, <3>2 DEF Steady, Held, Busy
    <3>3. CASE run[r].step # "mark"
      <4>1. Held(r) \subseteq Rows
        BY <2>1, <3>1 DEF Steady, Held
      <4> QED
        BY <2>1, <3>3, <4>1 DEF Steady
    <3> QED
      BY <3>2, <3>3
  <2>3. \A i \in Held(r) : i \in Rows /\ row'[i] = row[i] /\ row[i].key \in Keys
    BY <2>2
  <2>4. run'[r] = run[r] /\ Held(r)' = Held(r)
    BY DEF Held
  <2>5. run[r].ids \subseteq Held(r) /\ (run[r].step \in Busy => run[r].cur \in Held(r))
    BY DEF Held
  <2>6. ASSUME run[r].step \in {"upload", "document", "link"}
        PROVE  permit'[PermitOf(row[run[r].cur].key)] = "no document"
    <3>1. run[r].cur \in Held(r)
      BY <2>5, <2>6 DEF Busy
    <3>2. PermitOf(row[run[r].cur].key) \in Numbers \X Revisions
      BY <2>3, <3>1, PermitOfKey
    <3> QED
      BY <2>1, <2>6, <3>2 DEF Steady
  <2>7. Steady(r)'
    <3>1. run'[r].job # "monitor"
      BY <2>1, <2>4 DEF Steady
    <3>2. \A i \in run'[r].ids : row'[i].retry < MaxRetries
      BY <2>1, <2>3, <2>4, <2>5 DEF Steady
    <3>3. run'[r].step = "mark" => \A i \in run'[r].ids : row'[i].state \in {"PENDING", "ERROR"}
      BY <2>1, <2>3, <2>4, <2>5 DEF Steady
    <3>4. run'[r].step # "mark" => \A i \in Held(r)' : row'[i].state = "PROCESSING"
      <4>1. ASSUME run[r].step # "mark", NEW i \in Held(r)
            PROVE  row'[i].state = "PROCESSING"
        <5>1. row[i].state = "PROCESSING"
          BY <2>1, <4>1 DEF Steady
        <5>2. row'[i] = row[i]
          BY <2>3, <4>1
        <5> QED
          BY <5>1, <5>2
      <4> QED
        BY <2>4, <4>1
    <3>5. run'[r].step \in Busy =>
            /\ run'[r].cur \in Rows \ run'[r].ids
            /\ row'[run'[r].cur].retry < MaxRetries
            /\ run'[r].step # "delete" => run'[r].retry = row'[run'[r].cur].retry
      BY <2>1, <2>3, <2>4, <2>5 DEF Steady
    <3>6. run'[r].step \in {"upload", "document", "link"} =>
            permit'[PermitOf(row'[run'[r].cur].key)] = "no document"
      BY <2>3, <2>4, <2>5, <2>6 DEF Busy
    <3> QED
      BY <3>1, <3>2, <3>3, <3>4, <3>5, <3>6 DEF Steady
  <2> QED
    BY <2>3, <2>7
<1>2. ProcessingIsHeld'
  <2>1. \A r \in Runners : Held(r)' = Held(r)
    BY DEF Held
  <2> QED
    BY <2>1 DEF AloneInv, ProcessingIsHeld
<1>3. DocumentsAreLinked'
  <2> SUFFICES ASSUME NEW k \in Numbers \X Revisions
               PROVE  /\ documents[k] <= 1
                      /\ documents[k] > 0 =>
                           \/ permit'[k] = "document"
                           \/ \E r \in Runners :
                                run'[r].step = "link" /\ PermitOf(row'[run'[r].cur].key) = k
    BY DEF DocumentsAreLinked
  <2>1. documents[k] <= 1
    BY DEF AloneInv, DocumentsAreLinked
  <2>2. ASSUME NEW r \in Runners, run[r].step = "link"
        PROVE  run'[r].cur = run[r].cur /\ row'[run[r].cur] = row[run[r].cur]
    BY <1>1, <2>2 DEF Held, Busy
  <2> QED
    BY <2>1, <2>2 DEF AloneInv, DocumentsAreLinked
<1>4. OneBusy'
  BY DEF AloneInv, OneBusy
<1> QED
  BY <1>1, <1>2, <1>3, <1>4 DEF AloneInv

LEMMA StageAlone ==
    ASSUME MigrationInv, AloneInv, Stage
    PROVE  AloneInv'
<1>1. PICK i \in Rows, key \in Keys :
        /\ row[i].state = "unused"
        /\ row' = [row EXCEPT ![i] = [NoStaged EXCEPT !.state = "PENDING", !.key = key]]
  BY DEF Stage
<1>2. /\ row'[i].state = "PENDING" /\ row'[i].retry = 0 /\ row'[i].old = FALSE
      /\ \A j \in Rows \ {i} : row'[j] = row[j]
  BY <1>1 DEF MigrationInv, TypeOK, NoStaged
<1>3. RowsInTime'
  BY <1>2 DEF AloneInv, RowsInTime, MaxRetries
<1> QED
  BY <1>1, <1>2, <1>3, EnvironmentStep DEF MigrationInv, StagedHaveKeys, Stage

LEMMA CreatePermitAlone ==
    ASSUME MigrationInv, AloneInv, CreatePermit
    PROVE  AloneInv'
<1>1. PICK key \in Keys :
        /\ permit[PermitOf(key)] = "absent"
        /\ permit' = [permit EXCEPT ![PermitOf(key)] = "no document"]
  BY DEF CreatePermit
<1>2. \A k \in Numbers \X Revisions : permit[k] # "absent" => permit'[k] = permit[k]
  BY <1>1 DEF MigrationInv, TypeOK
<1>3. RowsInTime'
  BY DEF AloneInv, RowsInTime, CreatePermit
<1> QED
  BY <1>2, <1>3, EnvironmentStep DEF MigrationInv, StagedHaveKeys, CreatePermit

\* Nothing grows old.
LEMMA GrowOldAlone ==
    ASSUME TypeOK, AloneInv
    PROVE  ~GrowOld
<1>1. \A r \in Runners : Held(r) \subseteq run[r].ids \cup {run[r].cur}
  BY DEF Held
<1> QED
  BY <1>1 DEF AloneInv, ProcessingIsHeld, GrowOld

-----------------------------------------------------------------------------
(* The steps of the tick that works                                        *)

LEMMA IdleStep == Idle.step = "next"
BY DEF Idle

\* Every document is in its permit, unless the tick is about to enter it.
LEMMA LinkedStay ==
    ASSUME AloneInv, NEW r \in Runners, run[r].step # "link",
           \A q \in Runners \ {r} : run[q] = Idle,
           UNCHANGED documents, PermitsStay
    PROVE  DocumentsAreLinked'
<1>1. \A q \in Runners : run[q].step # "link"
  BY DEF Idle
<1> QED
  BY <1>1 DEF AloneInv, DocumentsAreLinked, PermitsStay

\* What a tick that works holds.
LEMMA WorkHolds ==
    ASSUME TypeOK, AloneInv, NEW r \in Runners, run[r].step # "mark"
    PROVE  /\ run[r].ids \subseteq Rows
           /\ \A i \in run[r].ids : row[i].state = "PROCESSING" /\ row[i].retry < MaxRetries
           /\ run[r].step \in Busy =>
                /\ run[r].cur \in Rows /\ run[r].cur \notin run[r].ids
                /\ row[run[r].cur].state = "PROCESSING"
                /\ row[run[r].cur].retry < MaxRetries
<1>1. Steady(r) /\ run[r] \in Runs
  BY DEF AloneInv, TypeOK
<1>2. run[r].ids \subseteq Held(r) /\ (run[r].step \in Busy => run[r].cur \in Held(r))
  BY DEF Held
<1> QED
  BY <1>1, <1>2 DEF Steady, Runs

LEMMA TickAlone ==
    ASSUME MigrationInv, AloneInv, OneBusy',
           NEW r \in Runners, NEW job \in Jobs, Tick(r, job)
    PROVE  job # "monitor" /\ AloneInv'
<1>1. job # "monitor"
  <2>1. Eligible("monitor") = {}
    BY DEF AloneInv, RowsInTime, Eligible
  <2> QED
    BY <2>1 DEF Tick
<1>2. PICK S \in Batches(job) :
        run' = [run EXCEPT ![r] = [Idle EXCEPT !.job = job, !.ids = S, !.step = "mark"]]
  BY <1>1 DEF Tick
<1>3. S \subseteq Eligible(job)
  BY DEF Batches
<1>4. job \in {"pending", "error"}
  BY <1>1, JobsAssumption
<1>5. \A i \in S : /\ i \in Rows /\ row[i].state \in {"PENDING", "ERROR"}
                   /\ row[i].retry < MaxRetries
  BY <1>3, <1>4 DEF Eligible, AloneInv, RowsInTime, MaxRetries
<1>6. /\ run'[r].job = job /\ run'[r].ids = S /\ run'[r].step = "mark"
      /\ \A q \in Runners \ {r} : run'[q] = run[q]
  BY <1>2 DEF MigrationInv, TypeOK, Idle
<1>7. \A q \in Runners \ {r} : run'[q] = Idle /\ run[q] = Idle
  <2>1. run'[r] # Idle
    BY <1>6 DEF Idle
  <2> QED
    BY <1>6, <2>1 DEF OneBusy
<1>8. Steady(r)'
  BY <1>1, <1>5, <1>6 DEF Steady, Busy, Tick
<1>9. \A i \in Rows : row'[i].state # "PROCESSING"
  <2>1. run[r] = Idle /\ row' = row
    BY DEF Tick
  <2>2. \A q \in Runners : run[q] = Idle
    BY <1>7, <2>1
  <2>3. \A q \in Runners : Held(q) = {}
    BY <2>2 DEF Held, Idle, Busy
  <2> QED
    BY <2>1, <2>3 DEF AloneInv, ProcessingIsHeld
<1>10. RowsInTime'
  BY DEF AloneInv, RowsInTime, Tick
<1>11. DocumentsAreLinked'
  <2>1. run[r].step # "link"
    BY DEF Tick, Idle
  <2> QED
    BY <1>7, <2>1, LinkedStay, PermitsUnchanged DEF Tick
<1> QED
  BY <1>1, <1>7, <1>8, <1>9, <1>10, <1>11, WorkStep

LEMMA MarkProcessingAlone ==
    ASSUME MigrationInv, AloneInv, OneBusy', NEW r \in Runners, MarkProcessing(r)
    PROVE  AloneInv'
<1>1. run[r] # Idle /\ run[r].step = "mark"
  BY IdleStep DEF MarkProcessing
<1>2. /\ \A q \in Runners \ {r} : run[q] = Idle
      /\ \A i \in Rows : row[i].state # "PROCESSING"
  BY <1>1, OthersRest
<1>3. run[r] \in Runs /\ run' = [run EXCEPT ![r] = [run[r] EXCEPT !.step = "next"]]
  BY DEF MigrationInv, TypeOK, MarkProcessing
<1>4. /\ run'[r].job = run[r].job /\ run'[r].ids = run[r].ids /\ run'[r].step = "next"
      /\ \A q \in Runners \ {r} : run'[q] = Idle
  BY <1>2, <1>3 DEF MigrationInv, TypeOK, Runs
<1>5. Held(r)' = run[r].ids
  BY <1>4 DEF Held, Busy
<1>6. Steady(r) /\ run[r].ids \subseteq Rows
  BY <1>3 DEF AloneInv, Runs
<1>7. ASSUME NEW i \in Rows
      PROVE  /\ row'[i].retry = row[i].retry
             /\ ~row'[i].old
             /\ i \in run[r].ids => row'[i].state = "PROCESSING"
             /\ i \notin run[r].ids => row'[i].state = row[i].state
  <2>1. row[i] \in StagedRows /\ ~row[i].old
    BY DEF MigrationInv, TypeOK, AloneInv, RowsInTime
  <2>2. i \in run[r].ids => Staged(i)
    BY <1>1, <1>6 DEF Steady, Staged
  <2>3. CASE i \in run[r].ids
    <3>1. row'[i] = [row[i] EXCEPT !.state = "PROCESSING", !.old = FALSE]
      BY <2>2, <2>3 DEF MarkProcessing
    <3> QED
      BY <2>1, <2>3, <3>1 DEF StagedRows
  <2>4. CASE i \notin run[r].ids
    BY <2>1, <2>4 DEF MarkProcessing
  <2> QED
    BY <2>3, <2>4
<1>8. RowsInTime'
  BY <1>7 DEF AloneInv, RowsInTime
<1>9. Steady(r)'
  BY <1>4, <1>5, <1>6, <1>7 DEF Steady, Busy
<1>10. \A i \in Rows : row'[i].state = "PROCESSING" => i \in Held(r)'
  BY <1>2, <1>5, <1>7
<1>11. DocumentsAreLinked'
  BY <1>1, <1>2, LinkedStay, PermitsUnchanged DEF MarkProcessing
<1> QED
  BY <1>4, <1>8, <1>9, <1>10, <1>11, WorkStep

LEMMA LoadAlone ==
    ASSUME MigrationInv, AloneInv, OneBusy', NEW r \in Runners, Load(r)
    PROVE  AloneInv'
<1>1. PICK i \in run[r].ids :
        run' = [run EXCEPT ![r] =
                    IF Staged(i) THEN [run[r] EXCEPT !.ids = @ \ {i}, !.cur = i,
                                                     !.retry = row[i].retry,
                                                     !.step = AfterLoad(i)]
                    ELSE Idle]
  BY DEF Load
<1>2. run[r] # Idle /\ run[r].step = "next" /\ UNCHANGED <<row, permit, documents>>
  BY DEF Load, Idle
<1>3. /\ \A q \in Runners \ {r} : run[q] = Idle
      /\ \A j \in Rows : row[j].state = "PROCESSING" => j \in Held(r)
  BY <1>2, OthersRest
<1>4. /\ run[r].ids \subseteq Rows
      /\ \A j \in run[r].ids : row[j].state = "PROCESSING" /\ row[j].retry < MaxRetries
  BY <1>2, WorkHolds DEF MigrationInv
<1>5. run' = [run EXCEPT ![r] = [run[r] EXCEPT !.ids = @ \ {i}, !.cur = i,
                                 !.retry = row[i].retry, !.step = AfterLoad(i)]]
  BY <1>1, <1>4 DEF Staged
<1>6. run[r] \in Runs
  BY DEF MigrationInv, TypeOK
<1>7. /\ run'[r].job = run[r].job /\ run'[r].ids = run[r].ids \ {i}
      /\ run'[r].cur = i /\ run'[r].retry = row[i].retry
      /\ run'[r].step = AfterLoad(i)
      /\ \A q \in Runners \ {r} : run'[q] = Idle
  BY <1>3, <1>5, <1>6 DEF MigrationInv, TypeOK, Runs
<1>8. AfterLoad(i) \in {"fail", "delete", "upload"}
  BY AfterLoadType
<1>9. Held(r)' = run[r].ids
  BY <1>7, <1>8 DEF Held, Busy
<1>10. AfterLoad(i) = "upload" => permit[PermitOf(row[i].key)] = "no document"
  <2>1. row[i].key \in Keys
    BY <1>4 DEF MigrationInv, StagedHaveKeys
  <2>2. permit[PermitOf(row[i].key)] \in {"absent", "no document", "document"}
    BY <2>1, PermitOfKey DEF MigrationInv, TypeOK
  <2> QED
    BY <2>2 DEF AfterLoad
<1>11. Steady(r)'
  <2>1. run[r].job # "monitor"
    BY DEF AloneInv, Steady
  <2> QED
    BY <1>2, <1>4, <1>7, <1>8, <1>9, <1>10, <2>1 DEF Steady
<1>12. \A j \in Rows : row'[j].state = "PROCESSING" => j \in Held(r)'
  BY <1>2, <1>3, <1>9 DEF Held, Busy
<1>13. RowsInTime' /\ DocumentsAreLinked'
  <2>1. DocumentsAreLinked'
    BY <1>2, <1>3, LinkedStay, PermitsUnchanged
  <2> QED
    BY <1>2, <2>1 DEF AloneInv, RowsInTime
<1> QED
  BY <1>7, <1>8, <1>11, <1>12, <1>13, WorkStep

\* The job of a tick is never the monitoring of stuck rows: there are none.
LEMMA LoadStuckAlone ==
    ASSUME AloneInv, NEW r \in Runners
    PROVE  ~LoadStuck(r)
BY DEF AloneInv, Steady, LoadStuck

\* On to the next row: the one the tick worked on is out of PROCESSING.
LEMMA NextRowAlone ==
    ASSUME MigrationInv, AloneInv, OneBusy', NEW r \in Runners, run[r].step \in Busy,
           run[r].step # "link", NextRow(r), UNCHANGED <<permit, documents>>,
           \A i \in Rows \ {run[r].cur} : row'[i] = row[i],
           row'[run[r].cur].state \in {"ERROR", "deleted"},
           row'[run[r].cur].retry <= MaxRetries, ~row'[run[r].cur].old
    PROVE  AloneInv'
<1>1. run[r] # Idle /\ run[r].step # "mark"
  BY DEF Idle, Busy
<1>2. /\ \A q \in Runners \ {r} : run[q] = Idle
      /\ \A j \in Rows : row[j].state = "PROCESSING" => j \in Held(r)
  BY <1>1, OthersRest
<1>3. /\ run[r].ids \subseteq Rows
      /\ \A j \in run[r].ids : row[j].state = "PROCESSING" /\ row[j].retry < MaxRetries
      /\ run[r].cur \in Rows /\ run[r].cur \notin run[r].ids
  BY <1>1, WorkHolds DEF MigrationInv
<1>4. run[r] \in Runs /\ run[r].job # "monitor"
  BY DEF MigrationInv, TypeOK, AloneInv, Steady
<1>5. run' = [run EXCEPT ![r] = IF run[r].ids = {} THEN Idle
                                ELSE [run[r] EXCEPT !.step = "next", !.cur = NoRow,
                                                    !.retry = 0]]
  BY DEF NextRow
<1>6. /\ run'[r].job # "monitor" /\ run'[r].ids = run[r].ids /\ run'[r].step = "next"
      /\ \A q \in Runners \ {r} : run'[q] = Idle
  BY <1>2, <1>4, <1>5 DEF MigrationInv, TypeOK, Runs, Idle
<1>7. Held(r)' = run[r].ids
  BY <1>6 DEF Held, Busy
<1>8. \A j \in run[r].ids : row'[j] = row[j]
  BY <1>3
<1>9. Steady(r)'
  BY <1>3, <1>6, <1>7, <1>8 DEF Steady, Busy
<1>10. \A j \in Rows : row'[j].state = "PROCESSING" => j \in Held(r)'
  BY <1>2, <1>7 DEF Held
<1>11. RowsInTime'
  BY DEF AloneInv, RowsInTime
<1>12. DocumentsAreLinked'
  BY <1>2, LinkedStay, PermitsUnchanged
<1> QED
  BY <1>6, <1>9, <1>10, <1>11, <1>12, WorkStep

LEMMA FailedAlone ==
    ASSUME MigrationInv, AloneInv, OneBusy', NEW r \in Runners, Failed(r)
    PROVE  AloneInv'
<1> DEFINE c == run[r].cur
           n == run[r].retry + 1
<1>1. run[r].step \in {"fail", "upload"}
  BY DEF Failed
<1>2. /\ c \in Rows /\ row[c].state = "PROCESSING" /\ row[c].retry < MaxRetries
      /\ run[r].retry = row[c].retry
  <2>1. Steady(r)
    BY DEF AloneInv
  <2> QED
    BY <1>1, <2>1, WorkHolds DEF MigrationInv, Steady, Busy
<1>3. row[c] \in StagedRows /\ row \in [Rows -> StagedRows]
  BY <1>2 DEF MigrationInv, TypeOK
<1>4. row' = [row EXCEPT ![c] = [row[c] EXCEPT !.state = "ERROR", !.retry = n,
                                               !.old = FALSE]]
  BY <1>2 DEF Failed, Staged
<1>5. n <= MaxRetries
  BY <1>2, <1>3 DEF StagedRows, MaxRetries
<1> HIDE DEF c, n
<1>6. /\ \A i \in Rows \ {c} : row'[i] = row[i]
      /\ row'[c].state = "ERROR" /\ row'[c].retry = n /\ row'[c].old = FALSE
  BY <1>2, <1>3, <1>4 DEF StagedRows
<1> USE DEF c
<1>7. /\ row'[run[r].cur].state \in {"ERROR", "deleted"}
      /\ row'[run[r].cur].retry <= MaxRetries /\ ~row'[run[r].cur].old
  BY <1>5, <1>6
<1> QED
  BY <1>1, <1>6, <1>7, NextRowAlone DEF Failed, Busy

LEMMA DeleteAlone ==
    ASSUME MigrationInv, AloneInv, OneBusy', NEW r \in Runners, Delete(r)
    PROVE  AloneInv'
<1> DEFINE c == run[r].cur
<1>1. run[r].step = "delete"
  BY DEF Delete
<1>2. c \in Rows /\ row[c].retry < MaxRetries
  BY <1>1, WorkHolds DEF MigrationInv, Busy
<1>3. row[c] \in StagedRows /\ row \in [Rows -> StagedRows] /\ ~row[c].old
  BY <1>2 DEF MigrationInv, TypeOK, AloneInv, RowsInTime
<1>4. row' = [row EXCEPT ![c] = [row[c] EXCEPT !.state = "deleted"]]
  BY DEF Delete
<1> HIDE DEF c
<1>5. /\ \A i \in Rows \ {c} : row'[i] = row[i]
      /\ row'[c].state = "deleted" /\ row'[c].retry = row[c].retry
      /\ row'[c].old = row[c].old
  BY <1>2, <1>3, <1>4 DEF StagedRows
<1> USE DEF c
<1>6. /\ row'[run[r].cur].state \in {"ERROR", "deleted"}
      /\ row'[run[r].cur].retry <= MaxRetries /\ ~row'[run[r].cur].old
  <2>1. row[c].retry <= MaxRetries
    BY <1>2 DEF AloneInv, RowsInTime
  <2> QED
    BY <1>3, <1>5, <2>1
<1> QED
  BY <1>1, <1>5, <1>6, NextRowAlone DEF Delete, Busy

\* From the upload to the document, to the permit, to the end of the row.
LEMMA GotoAlone ==
    ASSUME MigrationInv, AloneInv, OneBusy', NEW r \in Runners,
           NEW step \in {"document", "link", "delete"},
           run[r].step \in {"upload", "document", "link"}, Goto(r, step), UNCHANGED row,
           step # "delete" => permit'[PermitOf(row[run[r].cur].key)] = "no document",
           DocumentsAreLinked'
    PROVE  AloneInv'
<1>1. run[r] # Idle /\ run[r].step # "mark" /\ run[r].step \in Busy
  BY IdleStep DEF Busy
<1>2. /\ \A q \in Runners \ {r} : run[q] = Idle
      /\ \A j \in Rows : row[j].state = "PROCESSING" => j \in Held(r)
  BY <1>1, OthersRest
<1>3. run[r] \in Runs /\ run' = [run EXCEPT ![r] = [run[r] EXCEPT !.step = step]]
  BY DEF MigrationInv, TypeOK, Goto
<1>4. /\ run'[r].job = run[r].job /\ run'[r].ids = run[r].ids
      /\ run'[r].cur = run[r].cur /\ run'[r].retry = run[r].retry
      /\ run'[r].step = step
      /\ \A q \in Runners \ {r} : run'[q] = Idle
  BY <1>2, <1>3 DEF MigrationInv, TypeOK, Runs
<1>5. Held(r)' = Held(r)
  BY <1>1, <1>4 DEF Held, Busy
<1>6. Steady(r)
  BY DEF AloneInv
<1>7. \A i \in Held(r) : row[i].state = "PROCESSING"
  BY <1>1, <1>6 DEF Steady
<1>8. Steady(r)'
  <2>1. /\ run[r].job # "monitor" /\ \A i \in run[r].ids : row[i].retry < MaxRetries
        /\ run[r].cur \in Rows \ run[r].ids /\ row[run[r].cur].retry < MaxRetries
        /\ run[r].retry = row[run[r].cur].retry
    BY <1>1, <1>6 DEF Steady
  <2>2. \A i \in Held(r)' : row'[i].state = "PROCESSING"
    BY <1>5, <1>7
  <2> QED
    BY <1>4, <2>1, <2>2 DEF Steady
<1>9. \A j \in Rows : row'[j].state = "PROCESSING" => j \in Held(r)'
  BY <1>2, <1>5
<1>10. RowsInTime'
  BY DEF AloneInv, RowsInTime
<1> QED
  BY <1>4, <1>8, <1>9, <1>10, WorkStep

LEMMA UploadAlone ==
    ASSUME MigrationInv, AloneInv, OneBusy', NEW r \in Runners, Upload(r)
    PROVE  AloneInv'
<1>1. run[r].step = "upload" /\ run[r] # Idle
  BY DEF Upload, Idle
<1>2. DocumentsAreLinked'
  BY <1>1, OthersRest, LinkedStay, PermitsUnchanged DEF Upload
<1>3. permit[PermitOf(row[run[r].cur].key)] = "no document"
  BY <1>1 DEF AloneInv, Steady
<1> QED
  BY <1>1, <1>2, <1>3, GotoAlone DEF Upload

LEMMA CreateDocumentAlone ==
    ASSUME MigrationInv, AloneInv, OneBusy', NEW r \in Runners, CreateDocument(r)
    PROVE  AloneInv'
<1> DEFINE p == PermitOf(row[run[r].cur].key)
<1>1. run[r].step = "document" /\ run[r] # Idle
  BY DEF CreateDocument, Idle
<1>2. permit[p] = "no document"
  BY <1>1 DEF AloneInv, Steady
<1>3. p \in Numbers \X Revisions
  <2>1. run[r].cur \in Rows /\ row[run[r].cur].key \in Keys
    BY <1>1, WorkHolds DEF MigrationInv, StagedHaveKeys, Busy
  <2> QED
    BY <2>1, PermitOfKey
<1> DEFINE All == Numbers \X Revisions
<1>4. \A k \in All : documents[k] <= 1 /\ (documents[k] > 0 => permit[k] = "document")
  <2>1. \A q \in Runners \ {r} : run[q] = Idle
    BY <1>1, OthersRest
  <2>2. \A q \in Runners : run[q].step # "link"
    BY <1>1, <2>1 DEF Idle
  <2> QED
    BY <2>2 DEF AloneInv, DocumentsAreLinked
<1>5. run[r] \in Runs /\ run' = [run EXCEPT ![r] = [run[r] EXCEPT !.step = "link"]]
  BY DEF MigrationInv, TypeOK, CreateDocument, Goto
<1>6. run'[r].step = "link" /\ run'[r].cur = run[r].cur
  BY <1>5 DEF MigrationInv, TypeOK, Runs
<1>7. documents \in [Numbers \X Revisions -> Nat]
  BY DEF MigrationInv, TypeOK
<1>8. /\ documents' = [documents EXCEPT ![p] = IF @ < MaxDocuments THEN @ + 1 ELSE @]
      /\ UNCHANGED <<row, permit>>
  BY DEF CreateDocument
<1>9. \E q \in Runners : run'[q].step = "link" /\ PermitOf(row'[run'[q].cur].key) = p
  BY <1>6, <1>8
<1>10. DocumentsAreLinked'
  <2> HIDE DEF p, All
  <2>1. p \in All /\ documents \in [All -> Nat]
    BY <1>3, <1>7 DEF All
  <2>2. documents[p] = 0
    <3>1. documents[p] \in Nat
      BY <2>1
    <3>2. ~(documents[p] > 0)
      BY <1>2, <1>4, <2>1
    <3> QED
      BY <3>1, <3>2
  <2>3. /\ \A k \in All \ {p} : documents'[k] = documents[k]
        /\ documents'[p] <= 1
    BY <1>8, <2>1, <2>2
  <2>4. \A k \in All :
          /\ documents'[k] <= 1
          /\ documents'[k] > 0 =>
               \/ permit'[k] = "document"
               \/ \E q \in Runners : /\ run'[q].step = "link"
                                     /\ PermitOf(row'[run'[q].cur].key) = k
    BY <1>4, <1>8, <1>9, <2>3
  <2> QED
    BY <2>4 DEF DocumentsAreLinked, All
<1> QED
  BY <1>1, <1>2, <1>8, <1>10, GotoAlone DEF CreateDocument

LEMMA LinkAlone ==
    ASSUME MigrationInv, AloneInv, OneBusy', NEW r \in Runners, Link(r)
    PROVE  AloneInv'
<1> DEFINE p == PermitOf(row[run[r].cur].key)
<1>1. run[r].step = "link" /\ run[r] # Idle
  BY DEF Link, Idle
<1>2. permit[p] = "no document"
  BY <1>1 DEF AloneInv, Steady
<1>3. \A k \in Numbers \X Revisions :
        /\ documents[k] <= 1
        /\ documents[k] > 0 => permit[k] = "document" \/ k = p
  <2>1. \A q \in Runners \ {r} : run[q].step # "link"
    BY <1>1, OthersRest DEF Idle
  <2> QED
    BY <2>1 DEF AloneInv, DocumentsAreLinked
<1>4. permit' = [permit EXCEPT ![p] = IF @ = "absent" THEN @ ELSE "document"]
  BY DEF Link
<1>5. permit \in [Numbers \X Revisions -> {"absent", "no document", "document"}]
  BY DEF MigrationInv, TypeOK
<1>6. DocumentsAreLinked'
  <2> DEFINE All == Numbers \X Revisions
  <2>1. \A k \in All : permit[k] = "document" \/ k = p => permit'[k] = "document"
    <3> HIDE DEF p, All
    <3>1. permit \in [All -> {"absent", "no document", "document"}]
      BY <1>5 DEF All
    <3> QED
      BY <1>2, <1>4, <3>1
  <2> QED
    BY <1>3, <2>1 DEF DocumentsAreLinked, Link
<1> QED
  BY <1>1, <1>6, GotoAlone DEF Link

LEMMA CalmStep ==
    ASSUME MigrationInv, AloneInv, CalmNext, OneBusy'
    PROVE  AloneInv' /\ UploadNext
<1>1. CASE Stage \/ CreatePermit \/ GrowOld
  BY <1>1, StageAlone, CreatePermitAlone, GrowOldAlone DEF MigrationInv, UploadNext
<1>2. ASSUME NEW r \in Runners,
             \/ MarkProcessing(r) \/ Load(r) \/ LoadStuck(r) \/ Failed(r) \/ Upload(r)
             \/ CreateDocument(r) \/ Link(r) \/ Delete(r)
      PROVE  AloneInv' /\ UploadNext
  <2>1. UploadNext
    BY <1>2 DEF UploadNext, Work
  <2> QED
    BY <1>2, <2>1, MarkProcessingAlone, LoadAlone, LoadStuckAlone, FailedAlone, UploadAlone,
       CreateDocumentAlone, LinkAlone, DeleteAlone
<1>3. ASSUME NEW r \in Runners, NEW job \in Jobs, Tick(r, job)
      PROVE  AloneInv' /\ UploadNext
  BY <1>3, TickAlone DEF UploadNext
<1> QED
  BY <1>1, <1>2, <1>3 DEF CalmNext

-----------------------------------------------------------------------------
(* The documents of permits and receipts: the inductive invariant.         *)

\* What a call works on: a receipt with all of its permits.
CompleteToDo ==
    {g \in Documents!Documented \X SUBSET Permits :
        g[1] \in Receipts => g[2] = Documents!PaidWith(g[1])}

DocumentsInv ==
    /\ status \in [Permits -> {"PAYMENT_COMPLETE", "ISSUED", "VOIDED", "SUPERSEDED"}]
    /\ document \in [Documents!Documented -> Documents!Pdfs \cup {Documents!NoDocument}]
    /\ generating \in [Documents!Callers -> SUBSET CompleteToDo]
    /\ updating \in [Documents!Callers -> SUBSET CompleteToDo]
    /\ issuing \in [Runners -> BOOLEAN]
    /\ docGen \in [Runners -> BOOLEAN]
    /\ Documents!ReceiptsComplete

LEMMA DocumentsType == DocumentsInv => Documents!TypeOK
BY DEF DocumentsInv, Documents!TypeOK, CompleteToDo

\* Permits are no receipts, and a receipt is only printed with all its permits.
LEMMA ToDoIsComplete ==
    ASSUME NEW P \in SUBSET Permits, NEW Q \in SUBSET Permits,
           NEW numbered \in SUBSET Permits
    PROVE  Documents!PermitsToDo(P) \cup Documents!ReceiptsToDo(Q, numbered)
              \in SUBSET CompleteToDo
<1> USE DEF Documents!PermitsAssumption
<1>1. \A p \in P : <<p, {p}>> \in CompleteToDo
  BY DEF CompleteToDo, Documents!Documented
<1>2. ASSUME NEW r \in Documents!ReceiptsOf(Q), Documents!PaidWith(r) \subseteq numbered
      PROVE  <<r, Documents!PaidWith(r) \cap numbered>> \in CompleteToDo
  <2>1. r \in Receipts
    BY DEF Documents!ReceiptsOf
  <2>2. Documents!PaidWith(r) \in SUBSET Permits
    BY DEF Documents!PaidWith
  <2>3. Documents!PaidWith(r) \cap numbered = Documents!PaidWith(r)
    BY <1>2
  <2> QED
    BY <2>1, <2>2, <2>3 DEF CompleteToDo, Documents!Documented
<1> QED
  BY <1>1, <1>2 DEF Documents!PermitsToDo, Documents!ReceiptsToDo

LEMMA BatchesType ==
    ASSUME NEW S, NEW P \in Documents!Batches(S)
    PROVE  P \subseteq S
BY DEF Documents!Batches, Documents!kSubset

\* A step that changes no document.
LEMMA DocumentsKept ==
    ASSUME DocumentsInv, UNCHANGED document,
           status' \in [Permits -> {"PAYMENT_COMPLETE", "ISSUED", "VOIDED", "SUPERSEDED"}],
           generating' \in [Documents!Callers -> SUBSET CompleteToDo],
           updating' \in [Documents!Callers -> SUBSET CompleteToDo],
           issuing' \in [Runners -> BOOLEAN],
           docGen' \in [Runners -> BOOLEAN]
    PROVE  DocumentsInv'
BY DEF DocumentsInv, Documents!ReceiptsComplete

\* No document is replaced.
NoneReplaced ==
    \A d \in Documents!Documented :
        document[d] # Documents!NoDocument => document'[d] = document[d]

LEMMA KeptIsNotReplaced == UNCHANGED document => NoneReplaced
BY DEF NoneReplaced

-----------------------------------------------------------------------------
(* The steps of the documents                                              *)

LEMMA IssueStep ==
    ASSUME DocumentsInv, NEW c \in Users, NEW P \in (SUBSET Permits) \ {{}},
           Documents!IssueAndGenerate(c, P)
    PROVE  DocumentsInv'
<1>1. Documents!NumberedPermits \cup P \in SUBSET Permits
  BY DEF Documents!NumberedPermits
<1>2. Documents!PermitsToDo(P)
        \cup Documents!ReceiptsToDo(P, Documents!NumberedPermits \cup P)
          \in SUBSET CompleteToDo
  BY <1>1, ToDoIsComplete
<1> QED
  BY <1>2, DocumentsKept DEF DocumentsInv, Documents!IssueAndGenerate

LEMMA VoidStep ==
    ASSUME DocumentsInv, NEW c \in Users, NEW p \in Permits,
           Documents!VoidAndGenerate(c, p)
    PROVE  DocumentsInv'
<1>1. Documents!NumberedPermits \cup {p} \in SUBSET Permits
  BY DEF Documents!NumberedPermits
<1>2. Documents!PermitsToDo({p})
        \cup Documents!ReceiptsToDo({p}, Documents!NumberedPermits \cup {p})
          \in SUBSET CompleteToDo
  BY <1>1, ToDoIsComplete
<1> QED
  BY <1>2, DocumentsKept DEF DocumentsInv, Documents!VoidAndGenerate

LEMMA SupersedeStep ==
    ASSUME DocumentsInv, NEW p \in Permits, Documents!Supersede(p)
    PROVE  DocumentsInv'
BY DocumentsKept DEF DocumentsInv, Documents!Supersede

LEMMA GenerateStep ==
    ASSUME DocumentsInv, NEW c \in Documents!Callers, NEW d \in Documents!Documented,
           Documents!Generate(c, d) \/ Documents!FailToGenerate(c, d)
    PROVE  DocumentsInv'
<1>1. CASE Documents!Generate(c, d)
  <2>1. PICK g \in generating[c] :
          /\ generating' = [generating EXCEPT ![c] = @ \ {g}]
          /\ updating' = [updating EXCEPT ![c] = @ \cup {g}]
    BY <1>1 DEF Documents!Generate
  <2>2. /\ generating' \in [Documents!Callers -> SUBSET CompleteToDo]
        /\ updating' \in [Documents!Callers -> SUBSET CompleteToDo]
    BY <2>1 DEF DocumentsInv
  <2> QED
    BY <1>1, <2>2, DocumentsKept DEF DocumentsInv, Documents!Generate
<1>2. CASE Documents!FailToGenerate(c, d)
  <2>1. PICK g \in generating[c] : generating' = [generating EXCEPT ![c] = @ \ {g}]
    BY <1>2 DEF Documents!FailToGenerate
  <2>2. generating' \in [Documents!Callers -> SUBSET CompleteToDo]
    BY <2>1 DEF DocumentsInv
  <2> QED
    BY <1>2, <2>2, DocumentsKept DEF DocumentsInv, Documents!FailToGenerate
<1> QED
  BY <1>1, <1>2

\* The one step that enters a document: where there is none yet.
LEMMA UpdateStep ==
    ASSUME DocumentsInv, NEW c \in Documents!Callers, Documents!UpdateDocument(c)
    PROVE  DocumentsInv' /\ NoneReplaced
<1>1. PICK u \in updating[c] :
        /\ document' = Documents!Entered(c, u)
        /\ updating' = [updating EXCEPT ![c] = @ \ {u}]
  BY DEF Documents!UpdateDocument
<1>2. u \in CompleteToDo
  BY DEF DocumentsInv
<1> DEFINE pdf == [by |-> c, lists |-> u[2]]
<1>3. u[1] \in Documents!Documented /\ pdf \in Documents!Pdfs /\ pdf.lists = u[2]
  BY <1>2 DEF CompleteToDo, Documents!Pdfs
<1>4. document' = [document EXCEPT ![u[1]] =
                     IF document[u[1]] = Documents!NoDocument THEN pdf ELSE document[u[1]]]
  BY <1>1 DEF Documents!Entered
<1> HIDE DEF pdf
<1>5. \A d \in Documents!Documented :
        document'[d] = IF d = u[1] /\ document[d] = Documents!NoDocument THEN pdf
                       ELSE document[d]
  BY <1>4 DEF DocumentsInv
<1>6. document' \in [Documents!Documented -> Documents!Pdfs \cup {Documents!NoDocument}]
  BY <1>3, <1>4 DEF DocumentsInv
<1>7. Documents!ReceiptsComplete'
  <2> SUFFICES ASSUME NEW r \in Receipts, document'[r] # Documents!NoDocument
               PROVE  document'[r].lists = Documents!PaidWith(r)
    BY DEF Documents!ReceiptsComplete
  <2>1. r \in Documents!Documented
    BY DEF Documents!Documented
  <2>2. u[1] = r => u[2] = Documents!PaidWith(r)
    BY <1>2 DEF CompleteToDo
  <2> QED
    BY <1>3, <1>5, <2>1, <2>2 DEF DocumentsInv, Documents!ReceiptsComplete
<1>8. updating' \in [Documents!Callers -> SUBSET CompleteToDo]
  BY <1>1 DEF DocumentsInv
<1>9. DocumentsInv'
  BY <1>6, <1>7, <1>8 DEF DocumentsInv, Documents!UpdateDocument
<1> QED
  BY <1>5, <1>9 DEF NoneReplaced

LEMMA DocumentsCrashStep ==
    ASSUME DocumentsInv, Documents!Crash
    PROVE  DocumentsInv'
BY DocumentsKept DEF DocumentsInv, Documents!Crash

\* The second half of a tick.
LEMMA StartDocGenStep ==
    ASSUME DocumentsInv, NEW s \in Runners, Documents!StartDocGen(s)
    PROVE  /\ generating' \in [Documents!Callers -> SUBSET CompleteToDo]
           /\ docGen' \in [Runners -> BOOLEAN]
<1>1. CASE docGen[s]
  BY <1>1 DEF DocumentsInv, Documents!StartDocGen
<1>2. CASE ~docGen[s]
  <2>1. PICK P \in Documents!Batches(Documents!WithoutDocument),
             Q \in Documents!Batches(Documents!WithoutReceipt) :
          /\ generating' = [generating EXCEPT ![s] =
                Documents!PermitsToDo(P)
                  \cup Documents!ReceiptsToDo(Q, Documents!NumberedPermits)]
          /\ docGen' = [docGen EXCEPT ![s] = TRUE]
    BY <1>2 DEF Documents!StartDocGen
  <2>2. P \in SUBSET Permits /\ Q \in SUBSET Permits
    <3>1. P \subseteq Documents!WithoutDocument /\ Q \subseteq Documents!WithoutReceipt
      BY BatchesType
    <3> QED
      BY <3>1 DEF Documents!WithoutDocument, Documents!WithoutReceipt
  <2>3. Documents!NumberedPermits \in SUBSET Permits
    BY DEF Documents!NumberedPermits
  <2>4. Documents!PermitsToDo(P) \cup Documents!ReceiptsToDo(Q, Documents!NumberedPermits)
          \in SUBSET CompleteToDo
    BY <2>2, <2>3, ToDoIsComplete
  <2> QED
    BY <2>1, <2>4 DEF DocumentsInv
<1> QED
  BY <1>1, <1>2

LEMMA DocumentsTickStep ==
    ASSUME DocumentsInv, NEW s \in Runners,
           \/ Documents!TickIssue(s) \/ Documents!FinishIssue(s) \/ Documents!FailIssue(s)
           \/ Documents!TickDocGen(s) \/ Documents!FinishDocGen(s)
    PROVE  DocumentsInv'
<1>1. CASE Documents!TickIssue(s) \/ Documents!FailIssue(s)
  BY <1>1, DocumentsKept DEF DocumentsInv, Documents!TickIssue, Documents!FailIssue
<1>2. CASE Documents!FinishIssue(s)
  <2>1. PICK P \in SUBSET Permits :
          status' = [p \in Permits |-> IF p \in P THEN "ISSUED" ELSE status[p]]
    BY <1>2 DEF Documents!FinishIssue
  <2>2. status' \in [Permits -> {"PAYMENT_COMPLETE", "ISSUED", "VOIDED", "SUPERSEDED"}]
    BY <2>1 DEF DocumentsInv
  <2>3. /\ generating' \in [Documents!Callers -> SUBSET CompleteToDo]
        /\ docGen' \in [Runners -> BOOLEAN]
    BY <1>2, StartDocGenStep DEF Documents!FinishIssue
  <2>4. issuing' \in [Runners -> BOOLEAN]
    BY <1>2 DEF DocumentsInv, Documents!FinishIssue
  <2> QED
    BY <1>2, <2>2, <2>3, <2>4, DocumentsKept DEF DocumentsInv, Documents!FinishIssue
<1>3. CASE Documents!TickDocGen(s)
  <2>1. /\ generating' \in [Documents!Callers -> SUBSET CompleteToDo]
        /\ docGen' \in [Runners -> BOOLEAN]
    BY <1>3, StartDocGenStep DEF Documents!TickDocGen
  <2> QED
    BY <1>3, <2>1, DocumentsKept DEF DocumentsInv, Documents!TickDocGen
<1>4. CASE Documents!FinishDocGen(s)
  BY <1>4, DocumentsKept DEF DocumentsInv, Documents!FinishDocGen, Documents!AfterDocGen
<1> QED
  BY <1>1, <1>2, <1>3, <1>4

LEMMA DocumentsStep ==
    ASSUME DocumentsInv, Documents!Next
    PROVE  DocumentsInv' /\ NoneReplaced
<1>1. ASSUME NEW c \in Users, NEW P \in (SUBSET Permits) \ {{}},
             Documents!IssueAndGenerate(c, P)
      PROVE  DocumentsInv' /\ NoneReplaced
  BY <1>1, IssueStep, KeptIsNotReplaced DEF Documents!IssueAndGenerate
<1>2. ASSUME NEW c \in Users, NEW p \in Permits, Documents!VoidAndGenerate(c, p)
      PROVE  DocumentsInv' /\ NoneReplaced
  BY <1>2, VoidStep, KeptIsNotReplaced DEF Documents!VoidAndGenerate
<1>3. ASSUME NEW p \in Permits, Documents!Supersede(p)
      PROVE  DocumentsInv' /\ NoneReplaced
  BY <1>3, SupersedeStep, KeptIsNotReplaced DEF Documents!Supersede
<1>4. ASSUME NEW c \in Documents!Callers, NEW d \in Documents!Documented,
             Documents!Generate(c, d) \/ Documents!FailToGenerate(c, d)
      PROVE  DocumentsInv' /\ NoneReplaced
  BY <1>4, GenerateStep, KeptIsNotReplaced
     DEF Documents!Generate, Documents!FailToGenerate
<1>5. ASSUME NEW s \in Runners,
             \/ Documents!TickIssue(s) \/ Documents!FinishIssue(s)
             \/ Documents!FailIssue(s) \/ Documents!TickDocGen(s)
             \/ Documents!FinishDocGen(s)
      PROVE  DocumentsInv' /\ NoneReplaced
  <2>1. UNCHANGED document
    BY <1>5 DEF Documents!TickIssue, Documents!FinishIssue, Documents!FailIssue,
       Documents!TickDocGen, Documents!FinishDocGen
  <2> QED
    BY <1>5, <2>1, DocumentsTickStep, KeptIsNotReplaced
<1>6. CASE Documents!Crash
  BY <1>6, DocumentsCrashStep, KeptIsNotReplaced DEF Documents!Crash
<1> QED
  BY <1>1, <1>2, <1>3, <1>4, <1>5, <1>6, UpdateStep DEF Documents!Next

LEMMA DocumentsInit == Documents!Init => DocumentsInv
BY DEF Documents!Init, DocumentsInv, Documents!ReceiptsComplete, Documents!Documented

-----------------------------------------------------------------------------
(* The theorems                                                            *)

LEMMA SchedulerTypeStep ==
    ASSUME TypeOK, [SchedulerNext]_schedulerVars
    PROVE  TypeOK'
<1>1. [Next]_vars
  <2>1. CalmNext => Next
    BY DEF CalmNext, Next, Work
  <2>2. UploadNext => Next
    BY DEF UploadNext, Next
  <2> QED
    BY <2>1, <2>2, CalmSteps, UploadSteps
       DEF SchedulerNext, schedulerVars, tpsVars, vars
<1> QED
  BY <1>1, NextType

LEMMA SchedulerDocumentsStep ==
    ASSUME DocumentsInv, [SchedulerNext]_schedulerVars
    PROVE  DocumentsInv' /\ NoneReplaced
<1>1. CASE UNCHANGED documentVars
  BY <1>1, KeptIsNotReplaced DEF documentVars, DocumentsInv, Documents!ReceiptsComplete
<1>2. CASE Documents!Next
  BY <1>2, DocumentsStep
<1> QED
  BY <1>1, <1>2 DEF SchedulerNext, schedulerVars

\* The staging table, the permits, the documents and what each tick and call
\* hold stay well typed, in every part.
THEOREM SchedulerTypesCorrect == SchedulerSpec => []SchedulerTypeOK
<1>1. SchedulerInit => TypeOK /\ DocumentsInv
  BY InitType, DocumentsInit DEF SchedulerInit
<1>2. TypeOK /\ DocumentsInv /\ [SchedulerNext]_schedulerVars => TypeOK' /\ DocumentsInv'
  BY SchedulerTypeStep, SchedulerDocumentsStep
<1>3. TypeOK /\ DocumentsInv => SchedulerTypeOK
  BY DocumentsType DEF SchedulerTypeOK
<1> QED
  BY <1>1, <1>2, <1>3, PTL DEF SchedulerSpec

\* The document of a receipt shows all of its permits with their numbers,
\* whichever of the overlapping calls has it made, whatever fails.
THEOREM ReceiptsAreComplete == SchedulerSpec => []ReceiptsComplete
<1>1. SchedulerInit => DocumentsInv
  BY DocumentsInit DEF SchedulerInit
<1>2. DocumentsInv /\ [SchedulerNext]_schedulerVars => DocumentsInv'
  BY SchedulerDocumentsStep
<1>3. DocumentsInv => ReceiptsComplete
  BY DEF DocumentsInv, ReceiptsComplete
<1> QED
  BY <1>1, <1>2, <1>3, PTL DEF SchedulerSpec

\* However calls overlap, fail and die, the document of a permit or receipt is
\* never replaced.
THEOREM DocumentsAreKept == SchedulerSpec => DocumentsStay
<1>1. SchedulerInit => DocumentsInv
  BY DocumentsInit DEF SchedulerInit
<1>2. DocumentsInv /\ [SchedulerNext]_schedulerVars => DocumentsInv' /\ NoneReplaced
  BY SchedulerDocumentsStep
<1> QED
  BY <1>1, <1>2, PTL
     DEF SchedulerSpec, DocumentsStay, Documents!DocumentsStay, NoneReplaced

\* What holds in every part of the run.
SchedulerInv ==
    /\ MigrationInv
    /\ part = "tpsAlone" => AloneInv

LEMMA SchedulerInvCorrect ==
    ASSUME IsFiniteSet(Runners)
    PROVE  SchedulerSpec => []SchedulerInv
<1>1. SchedulerInit => SchedulerInv
  <2> SUFFICES ASSUME Init PROVE MigrationInv /\ AloneInv
    BY DEF SchedulerInit, SchedulerInv
  <2>1. /\ \A i \in Rows : row[i] = NoStaged
        /\ \A r \in Runners : run[r] = Idle
        /\ \A k \in Numbers \X Revisions : documents[k] = 0
    BY DEF Init
  <2>2. RowsInTime /\ ProcessingIsHeld
    BY <2>1 DEF RowsInTime, ProcessingIsHeld, NoStaged, MaxRetries
  <2>3. \A r \in Runners : Steady(r)
    <3>1. \A r \in Runners : /\ run[r].job = "idle" /\ run[r].step = "next"
                              /\ run[r].ids = {} /\ run[r].step \notin Busy
      BY <2>1 DEF Idle, Busy
    <3>2. \A r \in Runners : Held(r) = {}
      BY <3>1 DEF Held
    <3> QED
      BY <3>1, <3>2 DEF Steady
  <2>4. DocumentsAreLinked /\ OneBusy
    BY <2>1 DEF DocumentsAreLinked, OneBusy
  <2> QED
    BY <2>2, <2>3, <2>4, InitMigration DEF AloneInv
<1>2. AtMostOneBusy => OneBusy
  BY AtMostOneIsOneBusy
<1>3. AtMostOneBusy' => OneBusy'
  BY <1>2, PTL
<1>4. SchedulerInv /\ [SchedulerNext]_schedulerVars => SchedulerInv'
  <2> SUFFICES ASSUME SchedulerInv, [SchedulerNext]_schedulerVars
               PROVE  SchedulerInv'
    OBVIOUS
  <2>1. CASE UNCHANGED tpsVars
    <3>1. /\ UNCHANGED vars /\ UNCHANGED part
      BY <2>1 DEF tpsVars, SchedulerNext, schedulerVars
    <3>2. MigrationInv'
      BY <3>1, NextMigration DEF SchedulerInv
    <3>3. AloneInv => AloneInv'
      BY <3>1 DEF vars, AloneInv, RowsInTime, ProcessingIsHeld, Steady, Held,
         DocumentsAreLinked, OneBusy
    <3> QED
      BY <3>1, <3>2, <3>3 DEF SchedulerInv
  <2>2. CASE part = "tps" /\ part' = part /\ Uploads!Next
    BY <2>2, UploadSteps, NextMigration DEF SchedulerInv
  <2>3. CASE part = "tpsAlone" /\ part' = part /\ Calm!Next /\ AtMostOneBusy'
    BY <1>3, <2>3, CalmSteps, CalmStep, NextMigration DEF SchedulerInv
  <2> QED
    BY <2>1, <2>2, <2>3 DEF SchedulerNext, schedulerVars
<1> QED
  BY <1>1, <1>4, PTL DEF SchedulerSpec

\* A PDF leaves the staging table only when its permit has its document: in the
\* upload and the retry job whatever overlaps, fails and dies, and in all three
\* jobs one tick at a time while only uploads fail.
THEOREM SchedulerLosesNoPdf ==
    ASSUME IsFiniteSet(Runners)
    PROVE  SchedulerSpec => []NoPdfLost
<1>1. SchedulerInv => NoPdfLost
  BY DEF SchedulerInv, MigrationInv
<1> QED
  BY <1>1, SchedulerInvCorrect, PTL

\* With one tick at a time and no failure after the upload, a row is tried again
\* MaxRetries times at most and a permit gets one document, although its PDF may
\* be staged twice.
THEOREM OneTickOneDocument ==
    ASSUME IsFiniteSet(Runners)
    PROVE  SchedulerSpec => []AloneOnce
<1>1. SchedulerInv => AloneOnce
  BY DEF SchedulerInv, AloneInv, AloneOnce, RowsInTime, RetriesBounded,
     DocumentsAreLinked, OneDocument
<1> QED
  BY <1>1, SchedulerInvCorrect, PTL

=============================================================================
