----------------------------- MODULE MCLiveness -----------------------------
(***************************************************************************)
(* What the jobs of the scheduler reach in the end, for TLC: TPS rows      *)
(* settle, permits and receipts get their documents, payments reach GARMS. *)
(* The initial state chooses the job that runs.  One replica, whose calls  *)
(* fail and die again and again.                                           *)
(*                                                                         *)
(* The fairness is that of the three components.  Since one part runs in a *)
(* behaviour, its strong fairness conditions stand in line with those of   *)
(* the others: each condition below is about one action of each part.      *)
(***************************************************************************)
EXTENDS PermitDocuments, TLC

CONSTANTS p1, p2, p3, r1, s1

\* All permits are paid with one receipt.
MCReceiptOf == [p \in Permits |-> r1]

VARIABLES
    part,                                           \* the part that runs
    row, permit, documents, run,                    \* of TpsMigration
    day, lastHour, approved, numbered, file, sent, recorded, extract

documentVars == vars
tpsVars == <<row, permit, documents, run>>
garmsVars == <<day, lastHour, approved, numbered, file, sent, recorded, extract>>
liveVars == <<part, documentVars, tpsVars, garmsVars>>

Tps == INSTANCE TpsMigration WITH
    Runners <- Schedulers, Numbers <- {"n1"}, MaxGeneration <- 1, MaxRows <- 2,
    MaxDocuments <- 1, PollLimit <- 1, Jobs <- {"pending", "error", "monitor"},
    Faults <- {"upload", "document", "link", "crash"}

Garms == INSTANCE GarmsExtract WITH
    Runners <- Schedulers, Payments <- {"y1", "y2"}, MaxDay <- 2, MaxFiles <- 3,
    MaxCopies <- 2, IssuedInTime <- TRUE, Faults <- {"send", "clean", "crash"},
    run <- extract

LiveInit ==
    /\ part \in {"documents", "tps", "garms"}
    /\ Init
    /\ Tps!Init
    /\ Garms!Init

\* An action of each part.
OfParts(D, T, G) ==
    /\ UNCHANGED part
    /\ \/ /\ part = "documents"
          /\ D
          /\ UNCHANGED <<tpsVars, garmsVars>>
       \/ /\ part = "tps"
          /\ T
          /\ UNCHANGED <<documentVars, garmsVars>>
       \/ /\ part = "garms"
          /\ G
          /\ UNCHANGED <<documentVars, tpsVars>>

LiveNext == OfParts(Next, Tps!Next, Garms!Next)

LiveFairness ==
    /\ WF_liveVars(OfParts(TickIssue(s1), Tps!GrowOld, Garms!PassCutOff))
    /\ WF_liveVars(OfParts(FinishDocGen(s1), Tps!Work(s1), Garms!Work(s1)))
    /\ WF_liveVars(OfParts(FailToGenerate(s1, p1), FALSE, Garms!Tick(s1)))
    /\ WF_liveVars(OfParts(FailToGenerate(s1, p2), FALSE, Garms!PassHour))
    /\ WF_liveVars(OfParts(FailToGenerate(s1, p3), FALSE, Garms!Issue("y1")))
    /\ WF_liveVars(OfParts(FailToGenerate(s1, r1), FALSE, Garms!Issue("y2")))
    /\ SF_liveVars(OfParts(FinishIssue(s1), Tps!Tick(s1, "pending"), Garms!Extend(s1)))
    /\ SF_liveVars(OfParts(Generate(s1, p1), Tps!Tick(s1, "error"), Garms!ReadLatest(s1)))
    /\ SF_liveVars(OfParts(Generate(s1, p2), Tps!Tick(s1, "monitor"), Garms!Create(s1)))
    /\ SF_liveVars(OfParts(Generate(s1, p3), Tps!MarkProcessing(s1), Garms!Select(s1)))
    /\ SF_liveVars(OfParts(Generate(s1, r1), Tps!Load(s1), Garms!Send(s1)))
    /\ SF_liveVars(OfParts(UpdateDocument(s1), Tps!LoadStuck(s1), Garms!Clean(s1)))
    /\ SF_liveVars(OfParts(FALSE, Tps!Failed(s1), Garms!MarkSubmitted(s1)))
    /\ SF_liveVars(OfParts(FALSE, Tps!Upload(s1), Garms!Record(s1)))
    /\ SF_liveVars(OfParts(FALSE, Tps!CreateDocument(s1), FALSE))
    /\ SF_liveVars(OfParts(FALSE, Tps!Link(s1), FALSE))
    /\ SF_liveVars(OfParts(FALSE, Tps!Delete(s1), FALSE))

LiveSpec == LiveInit /\ [][LiveNext]_liveVars /\ LiveFairness

-----------------------------------------------------------------------------
\* Permits and receipts get their documents.
EveryDocumentMade == EveryPermitDocumented /\ EveryReceiptDocumented

\* Every staged row ends: its PDF is moved, or its retries are used up.
EveryRowSettles == Tps!EveryRowSettles

\* Every payment that has a cut-off left reaches GARMS.
EveryPaymentSent == Garms!EveryPaymentSent

=============================================================================
