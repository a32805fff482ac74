---------------------------- MODULE GarmsExtract ----------------------------
(***************************************************************************)
(* The scheduled extract of payments to GARMS, for one of its two types    *)
(* (CASH and CREDIT share no payment and no row).  A tick takes the        *)
(* unsubmitted row of the extract table, or makes one whose window starts  *)
(* where the latest ended, sends the payments of the window, marks the row *)
(* as submitted and records which transactions were in it.  Every await is *)
(* a step: another tick may run in between, and the process may die.       *)
(*                                                                         *)
(* Time is counted in cut-offs (21:00 Pacific): "day" cut-offs have passed *)
(* and a payment approved on day d falls into the windows [from, to) with  *)
(* from <= d < to.                                                         *)
(***************************************************************************)
EXTENDS Integers, FiniteSets, FiniteSetsExt

CONSTANTS
    Runners,    \* how many ticks may run at once
    Payments,   \* permits paid for in the type's payment methods
    MaxDay,     \* bound on the days
    MaxFiles,   \* bound on the rows of the extract table
    MaxCopies,  \* the copies of a payment in one file are counted up to this
    IssuedInTime, \* permits get their number before the hour after the cut-off ends
    Faults      \* what may fail in this instance

ASSUME BoundsAssumption ==
    /\ MaxDay \in Nat \ {0}
    /\ MaxFiles \in Nat \ {0}
    /\ MaxCopies \in Nat \ {0}

ASSUME FaultsAssumption ==
    /\ IssuedInTime \in BOOLEAN
    /\ Faults \subseteq {"send", "clean", "crash"}

Files == 1..MaxFiles
NoFile == 0
Days == 0..MaxDay
NotYet == MaxDay + 1

VARIABLES
    day,        \* the cut-offs that have passed
    lastHour,   \* it is not yet 22:00: getToDateForGarms still takes the day before
    approved,   \* the day each payment was approved on
    numbered,   \* the payments whose permit has its number
    file,       \* the extract table
    sent,       \* how often each payment was put into each file at GARMS
    recorded,   \* the file-transaction table
    run         \* what each runner is doing

vars == <<day, lastHour, approved, numbered, file, sent, recorded, run>>

Unused == [state |-> "unused", from |-> 0, to |-> 0]
Idle == [step |-> "idle", file |-> NoFile, from |-> 0, to |-> 0, payments |-> {}]

\* The first row is entered by hand, createNewFileRecord makes none without it.
Init ==
    /\ day = 0
    /\ lastHour = FALSE
    /\ approved = [p \in Payments |-> NotYet]
    /\ numbered = {}
    /\ file = [i \in Files |-> IF i = 1 THEN [Unused EXCEPT !.state = "submitted"] ELSE Unused]
    /\ sent = [i \in Files |-> [p \in Payments |-> 0]]
    /\ recorded = {}
    /\ run = [r \in Runners |-> Idle]

Used == {i \in Files : file[i].state # "unused"}

\* Mutant: a row that was not submitted is not taken up again.
UnsubmittedNone == {}

Unsubmitted == {i \in Files : file[i].state = "open"}

\* Mutant: the cut-off to come.
ToDateAhead == IF lastHour THEN day ELSE day + 1

\* getToDateForGarms: hour <= 21 takes the cut-off of the day before.
ToDate == IF lastHour THEN day - 1 ELSE day

-----------------------------------------------------------------------------
(* The payments (external to this component) and the clock.                *)
Approve(p) ==
    /\ approved[p] = NotYet
    /\ day < MaxDay
    /\ approved' = [approved EXCEPT ![p] = day]
    /\ UNCHANGED <<day, lastHour, numbered, file, sent, recorded, run>>

Issue(p) ==
    /\ approved[p] # NotYet
    /\ p \notin numbered
    /\ numbered' = numbered \cup {p}
    /\ UNCHANGED <<day, lastHour, approved, file, sent, recorded, run>>

PassCutOff ==
    /\ day < MaxDay
    /\ ~lastHour
    /\ day' = day + 1
    /\ lastHour' = TRUE
    /\ UNCHANGED <<approved, numbered, file, sent, recorded, run>>

PassHour ==
    /\ lastHour
    /\ IssuedInTime => \A p \in Payments : approved[p] < day => p \in numbered
    /\ lastHour' = FALSE
    /\ UNCHANGED <<day, approved, numbered, file, sent, recorded, run>>

-----------------------------------------------------------------------------
(* The rows: getOldFile                                                    *)

LatestTo == Max({file[i].to : i \in Used})

\* A tick whose window would be empty sends nothing and adds nothing to any
\* window: its row is left out.
Tick(r) ==
    /\ run[r] = Idle
    /\ Unsubmitted # {} \/ LatestTo < ToDate
    /\ IF Unsubmitted # {}
       THEN \E i \in Unsubmitted :
              run' = [run EXCEPT ![r] = [Idle EXCEPT !.step = "extend", !.file = i,
                                                     !.to = ToDate]]
       ELSE run' = [run EXCEPT ![r] = [Idle EXCEPT !.step = "latest", !.to = ToDate]]
    /\ UNCHANGED <<day, lastHour, approved, numbered, file, sent, recorded>>

\* updateOldFileRecord: the row found is not asked whether it is still open.
Extend(r) ==
    LET i == run[r].file IN
    /\ run[r].step = "extend"
    /\ file' = [file EXCEPT ![i].to = run[r].to]
    /\ run' = [run EXCEPT ![r].step = "select", ![r].from = file[i].from]
    /\ UNCHANGED <<day, lastHour, approved, numbered, sent, recorded>>

ReadLatest(r) ==
    /\ run[r].step = "latest"
    /\ run' = [run EXCEPT ![r].step = "create", ![r].from = LatestTo]
    /\ UNCHANGED <<day, lastHour, approved, numbered, file, sent, recorded>>

Create(r) ==
    /\ run[r].step = "create"
    /\ \E i \in Files \ Used :
        /\ \A j \in Files : j < i => j \in Used
        /\ file' = [file EXCEPT ![i] = [state |-> "open", from |-> run[r].from,
                                        to |-> run[r].to]]
        /\ run' = [run EXCEPT ![r].step = "select", ![r].file = i]
    /\ UNCHANGED <<day, lastHour, approved, numbered, sent, recorded>>

-----------------------------------------------------------------------------
(* The extract: processCashTransactions and processCreditTransactions      *)

\* Mutant: the window is closed on both sides.
InWindowClosed(p, from, to) == from <= approved[p] /\ approved[p] <= to

InWindow(p, from, to) == from <= approved[p] /\ approved[p] < to

Select(r) ==
    LET S == {p \in numbered : InWindow(p, run[r].from, run[r].to)} IN
    /\ run[r].step = "select"
    /\ run' = [run EXCEPT ![r].payments = S,
                          ![r].step = IF S = {} THEN "mark" ELSE "send"]
    /\ UNCHANGED <<day, lastHour, approved, numbered, file, sent, recorded>>

\* uploadToGarms, iconv and put: the file becomes the next generation of the
\* data set.
Send(r) ==
    /\ run[r].step = "send"
    /\ sent' = [sent EXCEPT ![run[r].file] =
                  [p \in Payments |-> IF p \in run[r].payments
                                      THEN Min({@[p] + 1, MaxCopies}) ELSE @[p]]]
    /\ run' = [run EXCEPT ![r].step = "clean"]
    /\ UNCHANGED <<day, lastHour, approved, numbered, file, recorded>>

\* The remote and the local copy are removed.
Clean(r) ==
    /\ run[r].step = "clean"
    /\ run' = [run EXCEPT ![r].step = "mark"]
    /\ UNCHANGED <<day, lastHour, approved, numbered, file, sent, recorded>>

\* An error of a command ends the tick, the row stays open.
Fail(r) ==
    /\ run[r].step \in Faults
    /\ run' = [run EXCEPT ![r] = Idle]
    /\ UNCHANGED <<day, lastHour, approved, numbered, file, sent, recorded>>

\* updateFileSubmitTimestamp
MarkSubmitted(r) ==
    /\ run[r].step = "mark"
    /\ file' = [file EXCEPT ![run[r].file].state = "submitted"]
    /\ run' = [run EXCEPT ![r].step = "record"]
    /\ UNCHANGED <<day, lastHour, approved, numbered, sent, recorded>>

\* Mutant: all numbered payments of the row's window are recorded.
SavedIdsOfWindow(r) ==
    {p \in numbered : InWindow(p, file[run[r].file].from, file[run[r].file].to)}

SavedIds(r) == run[r].payments

\* saveTransactionIds
Record(r) ==
    /\ run[r].step = "record"
    /\ recorded' = recorded \cup ({run[r].file} \X SavedIds(r))
    /\ run' = [run EXCEPT ![r] = Idle]
    /\ UNCHANGED <<day, lastHour, approved, numbered, file, sent>>

Crash(r) ==
    /\ "crash" \in Faults
    /\ run[r] # Idle
    /\ run' = [run EXCEPT ![r] = Idle]
    /\ UNCHANGED <<day, lastHour, approved, numbered, file, sent, recorded>>

Work(r) ==
    \/ Extend(r) \/ ReadLatest(r) \/ Create(r) \/ Select(r)
    \/ Send(r) \/ Clean(r) \/ Fail(r) \/ MarkSubmitted(r) \/ Record(r)

Next ==
    \/ PassCutOff \/ PassHour
    \/ \E p \in Payments : Approve(p) \/ Issue(p)
    \/ \E r \in Runners : Tick(r) \/ Work(r) \/ Crash(r)

Spec == Init /\ [][Next]_vars

(* The clock goes on, permits are issued, Nest fires the ticks for ever,   *)
(* and a step that is reached again and again is not cut short each time.  *)
Fairness ==
    /\ WF_vars(PassCutOff) /\ WF_vars(PassHour)
    /\ \A p \in Payments : WF_vars(Issue(p))
    /\ \A r \in Runners :
        /\ WF_vars(Tick(r)) /\ WF_vars(Work(r))
        /\ SF_vars(Extend(r)) /\ SF_vars(ReadLatest(r)) /\ SF_vars(Create(r))
        /\ SF_vars(Select(r)) /\ SF_vars(Send(r)) /\ SF_vars(Clean(r))
        /\ SF_vars(MarkSubmitted(r)) /\ SF_vars(Record(r))

FairSpec == Spec /\ Fairness

-----------------------------------------------------------------------------
(* Properties                                                              *)

Runs == [step : {"idle", "extend", "latest", "create", "select", "send", "clean",
                 "mark", "record"},
         file : Files \cup {NoFile}, from : Days, to : Days, payments : SUBSET Payments]

\* The type invariant.
TypeOK ==
    /\ day \in Days
    /\ lastHour \in BOOLEAN
    /\ approved \in [Payments -> Days \cup {NotYet}]
    /\ numbered \subseteq Payments
    /\ file \in [Files -> [state : {"unused", "open", "submitted"}, from : Days, to : Days]]
    /\ sent \in [Files -> [Payments -> 0..MaxCopies]]
    /\ recorded \subseteq Files \X Payments
    /\ run \in [Runners -> Runs]

Submitted(i) == file[i].state = "submitted"

Sent(p) == \E i \in Files : sent[i][p] > 0

\* With one tick at a time the windows tile the time line: each row starts
\* where the row before it ends, whatever fails in between.
WindowsTile ==
    \A i \in Used \ {1} : file[i].from = file[i - 1].to /\ file[i].from <= file[i].to

\* With one tick at a time and permits issued in time, no payment falls
\* through: once a submitted row's window covers it, GARMS has it.
NothingMissed ==
    \A i \in Files, p \in Payments :
        Submitted(i) /\ InWindow(p, file[i].from, file[i].to) => sent[i][p] > 0

\* With one tick at a time and no failure, GARMS gets a payment once.
SentOnce ==
    \A i, j \in Files, p \in Payments :
        sent[i][p] > 0 /\ sent[j][p] > 0 => i = j /\ sent[i][p] = 1

\* Whatever overlaps or fails, a transaction that is recorded for a file was
\* in that file.
RecordedWasSent == \A e \in recorded : sent[e[1]][e[2]] > 0

\* A payment reaches GARMS although ticks fail and die.  (Payments of the
\* last day of the instance have no cut-off left.)
EveryPaymentSent ==
    \A p \in Payments : approved[p] < MaxDay ~> Sent(p)

=============================================================================
