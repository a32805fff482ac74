---------------------------- MODULE MCScheduler ----------------------------
(***************************************************************************)
(* Instances of two jobs of the scheduler for TLC: the migration of TPS    *)
(* permits, and the documents of permits and receipts.  The rows of one    *)
(* are no rows of the other, so that their interleavings would show        *)
(* nothing more: the initial state chooses the part that runs, and the     *)
(* other one rests.                                                        *)
(***************************************************************************)
EXTENDS TpsMigration, TLC

CONSTANTS
    OverlapRows,    \* bound on the staged rows when ticks overlap
    Permits,        \* permits to issue and document
    Receipts,
    ReceiptOf,
    Users,
    DocGenLimit,
    DocumentFaults

VARIABLES
    part,           \* the part that runs
    status, document, generating, updating, issuing, docGen

tpsVars == vars
documentVars == <<status, document, generating, updating, issuing, docGen>>
schedulerVars == <<part, tpsVars, documentVars>>

\* The upload and the retry job.
Uploads == INSTANCE TpsMigration WITH Jobs <- Jobs \ {"monitor"}

\* All three jobs, where only uploads fail.
Calm == INSTANCE TpsMigration WITH Faults <- Faults \cap {"upload"}

\* A user and two replicas of the scheduler at the same permits.
Documents == INSTANCE PermitDocuments WITH
    Schedulers <- Runners, Broken <- {}, Faults <- DocumentFaults

ASSUME DocumentsAssumption ==
    /\ Documents!PermitsAssumption
    /\ Documents!LimitAssumption
    /\ Documents!FaultsAssumption

\* All permits are paid with one receipt.
MCReceiptOf == [p \in Permits |-> CHOOSE r \in Receipts : TRUE]

SchedulerInit ==
    /\ part \in {"tps", "tpsAlone", "documents"}
    /\ Init
    /\ Documents!Init

AtMostOneBusy == Cardinality({r \in Runners : run[r] # Idle}) <= 1

WithinOverlapBounds == \A i \in Rows : row[i].state # "unused" => i <= OverlapRows

SchedulerNext ==
    /\ UNCHANGED part
    /\ \/ /\ part = "tps"
          /\ Uploads!Next
          /\ WithinOverlapBounds'
          /\ UNCHANGED documentVars
       \/ /\ part = "tpsAlone"
          /\ Calm!Next
          /\ AtMostOneBusy'
          /\ UNCHANGED documentVars
       \/ /\ part = "documents"
          /\ Documents!Next
          /\ UNCHANGED tpsVars

SchedulerSpec == SchedulerInit /\ [][SchedulerNext]_schedulerVars

\* Replicas are interchangeable, and so are permits.
SchedulerSymmetry == Permutations(Runners) \cup Permutations(Permits)

-----------------------------------------------------------------------------
(* The properties of the parts                                             *)

\* The type invariants of the two components.
SchedulerTypeOK == TypeOK /\ Documents!TypeOK

\* With one tick at a time, a row is tried again MaxRetries times at most, and
\* with no failure after the upload a permit gets one document, although its
\* PDF may be staged twice.
AloneOnce == part = "tpsAlone" => RetriesBounded /\ OneDocument

\* The document of a receipt shows all of its permits with their numbers,
\* whoever generates it.
ReceiptsComplete == Documents!ReceiptsComplete

\* However calls overlap, the document of a permit or receipt is never replaced.
DocumentsStay == Documents!DocumentsStay

=============================================================================
