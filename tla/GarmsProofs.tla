----------------------------- MODULE GarmsProofs -----------------------------
(***************************************************************************)
(* Proofs about the exchange with GARMS.  About GarmsExtract, for every    *)
(* number of ticks, payments, days and rows: the type invariant and what   *)
(* is recorded, whatever overlaps or fails; and, for ticks that do not     *)
(* overlap, that the windows tile the time line, that no payment falls     *)
(* through, and that GARMS gets each one once when nothing fails.  About   *)
(* CreditLimit, for every number of days and all prices, balances and      *)
(* limits: that an account whose purchases do not overlap is never         *)
(* overdrawn.                                                              *)
(***************************************************************************)
EXTENDS MCGarms, SumTheorems, TLAPS

USE BoundsAssumption, FaultsAssumption

(***************************************************************************)
(* The inductive invariant of ticks that may overlap.                      *)
(***************************************************************************)

\* The steps that are about a row.
RowSteps == {"extend", "select", "send", "clean", "mark", "record"}

RowStepsHaveRows == \A r \in Runners : run[r].step \in RowSteps => run[r].file \in Files

\* In the hour after a cut-off, a cut-off has passed.
HourIsAfterCutOff == lastHour => day > 0

\* The row that was entered by hand stays.
FirstRow == 1 \in Used

\* What is about to be recorded was sent.
SentBeforeRecord ==
    \A r \in Runners :
        run[r].step \in {"clean", "mark", "record"} =>
            \A p \in run[r].payments : sent[run[r].file][p] > 0

ExtractInv ==
    /\ TypeOK
    /\ RowStepsHaveRows
    /\ HourIsAfterCutOff
    /\ FirstRow
    /\ SentBeforeRecord
    /\ RecordedWasSent

-----------------------------------------------------------------------------
(* Numbers                                                                 *)

\* A nonempty set of numbers up to n has a maximum: of the distances from n
\* there is a least one, because the numbers are well founded.
LEMMA MaxExists ==
    ASSUME NEW n \in Nat, NEW S \in SUBSET (0..n), S # {}
    PROVE  /\ Max(S) \in S
           /\ \A y \in S : y <= Max(S)
<1> DEFINE T == {n - x : x \in S}
<1>1. T \subseteq Nat /\ T # {}
  <2>1. \A x \in S : n - x \in Nat
    OBVIOUS
  <2>2. PICK x \in S : TRUE
    OBVIOUS
  <2>3. n - x \in T
    BY <2>2
  <2> QED
    BY <2>1, <2>3
<1>2. IsWellFoundedOn(OpToRel(<, Nat), Nat)
  BY Zenon, NatLessThanWellFounded
<1>3. PICK t \in T : \A y \in T : ~(<<y, t>> \in OpToRel(<, Nat))
  <2> PICK R : R = OpToRel(<, Nat)
    OBVIOUS
  <2>1. IsWellFoundedOn(R, Nat)
    BY Zenon, <1>2
  <2>2. \E t \in T : \A y \in T : ~(<<y, t>> \in R)
    <3> HIDE DEF T
    <3> QED
      BY <1>1, <2>1, WFMin
  <2> QED
    BY <2>2
<1>4. \A y \in T : ~(y < t)
  BY <1>1, <1>3 DEF OpToRel
<1>5. PICK x \in S : t = n - x
  BY <1>3
<1>6. \A y \in S : x >= y
  BY <1>4, <1>5
<1>7. Max(S) \in S /\ \A y \in S : Max(S) >= y
  BY <1>6 DEF Max
<1> QED
  BY <1>7

\* The lesser of two numbers.
LEMMA MinOfTwo ==
    ASSUME NEW a \in Nat, NEW b \in Nat
    PROVE  Min({a, b}) = IF a <= b THEN a ELSE b
<1> DEFINE m == IF a <= b THEN a ELSE b
<1>1. m \in {a, b} /\ \A y \in {a, b} : m <= y
  OBVIOUS
<1>2. \A x \in {a, b} : (\A y \in {a, b} : x <= y) => x = m
  OBVIOUS
<1> QED
  BY <1>1, <1>2 DEF Min

\* LatestTo is the end of a window, and no window ends later.
LEMMA LatestToIsLatest ==
    ASSUME TypeOK, FirstRow
    PROVE  /\ LatestTo \in Days
           /\ \E i \in Used : file[i].to = LatestTo
           /\ \A i \in Used : file[i].to <= LatestTo
<1> DEFINE S == {file[i].to : i \in Used}
<1>1. S \in SUBSET (0..MaxDay) /\ S # {}
  <2>1. \A i \in Used : file[i].to \in 0..MaxDay
    BY DEF TypeOK, Used, Days
  <2>2. file[1].to \in S
    BY DEF FirstRow
  <2> QED
    BY <2>1, <2>2
<1>2. \A i \in Used : file[i].to \in S
  OBVIOUS
<1>3. \A x \in S : \E i \in Used : x = file[i].to
  OBVIOUS
<1>4. MaxDay \in Nat
  OBVIOUS
<1> HIDE DEF S
<1>5. Max(S) \in S /\ \A y \in S : y <= Max(S)
  BY <1>1, <1>4, MaxExists
<1>6. LatestTo = Max(S)
  BY DEF LatestTo, S
<1> QED
  BY <1>1, <1>2, <1>3, <1>5, <1>6 DEF Days

\* getToDateForGarms returns a cut-off that has passed.
LEMMA ToDatePassed ==
    ASSUME TypeOK, HourIsAfterCutOff
    PROVE  ToDate \in Days /\ ToDate <= day
  BY DEF TypeOK, HourIsAfterCutOff, ToDate, Days

-----------------------------------------------------------------------------
(* The steps of a tick                                                     *)

\* A row of the extract table.
FileRow == [state : {"unused", "open", "submitted"}, from : Days, to : Days]

LEMMA IdleType == Idle \in Runs
  BY DEF Idle, Runs, NoFile, Days

\* What a step leaves of the work of its tick: the other ticks go on.
LEMMA TickEffect ==
    ASSUME TypeOK, HourIsAfterCutOff, NEW r \in Runners, Tick(r)
    PROVE  /\ run[r] = Idle
           /\ run'[r].to = ToDate /\ run'[r].from = 0 /\ run'[r].payments = {}
           /\ \/ /\ run'[r].step = "extend" /\ run'[r].file \in Unsubmitted
              \/ /\ run'[r].step = "latest" /\ run'[r].file = NoFile
                 /\ Unsubmitted = {} /\ LatestTo < ToDate
           /\ run'[r] \in Runs
           /\ run' = [run EXCEPT ![r] = run'[r]]
           /\ UNCHANGED <<day, lastHour, approved, numbered, file, sent, recorded>>
<1>1. ToDate \in Days
  BY ToDatePassed
<1>2. CASE Unsubmitted # {}
  <2>1. PICK i \in Unsubmitted :
          run' = [run EXCEPT ![r] = [Idle EXCEPT !.step = "extend", !.file = i, !.to = ToDate]]
    BY <1>2 DEF Tick
  <2>2. run'[r] = [Idle EXCEPT !.step = "extend", !.file = i, !.to = ToDate]
    BY <2>1 DEF TypeOK
  <2>3. run'[r] \in Runs
    <3>1. Idle \in Runs
      BY IdleType
    <3> QED
      BY <1>1, <2>2, <3>1 DEF Idle, Runs, Unsubmitted
  <2> QED
    BY <2>1, <2>2, <2>3 DEF Tick, Idle
<1>3. CASE Unsubmitted = {}
  <2>1. run' = [run EXCEPT ![r] = [Idle EXCEPT !.step = "latest", !.to = ToDate]]
    BY <1>3 DEF Tick
  <2>2. run'[r] = [Idle EXCEPT !.step = "latest", !.to = ToDate]
    BY <2>1 DEF TypeOK
  <2>3. run'[r] \in Runs
    <3>1. Idle \in Runs
      BY IdleType
    <3> QED
      BY <1>1, <2>2, <3>1 DEF Idle, Runs
  <2> QED
    BY <1>3, <2>1, <2>2, <2>3 DEF Tick, Idle
<1> QED
  BY <1>2, <1>3

LEMMA ExtendEffect ==
    ASSUME TypeOK, RowStepsHaveRows, NEW r \in Runners, Extend(r)
    PROVE  LET i == run[r].file IN
           /\ run[r].step = "extend" /\ i \in Files
           /\ file'[i].state = file[i].state /\ file'[i].from = file[i].from
           /\ file'[i].to = run[r].to
           /\ \A j \in Files \ {i} : file'[j] = file[j]
           /\ file' = [file EXCEPT ![i] = file'[i]]
           /\ file'[i] \in FileRow
           /\ run'[r].step = "select" /\ run'[r].file = i
           /\ run'[r].from = file[i].from /\ run'[r].to = run[r].to
           /\ run'[r].payments = run[r].payments
           /\ run'[r] \in Runs
           /\ run' = [run EXCEPT ![r] = run'[r]]
           /\ UNCHANGED <<day, lastHour, approved, numbered, sent, recorded>>
<1>1. run[r].step = "extend" /\ run[r].file \in Files
  BY DEF Extend, RowStepsHaveRows, RowSteps
<1> PICK i \in Files : i = run[r].file
  BY <1>1
<1>2. run[r] \in Runs
     /\ file[i] \in FileRow
  BY DEF TypeOK, FileRow
<1>3. file' = [file EXCEPT ![i] = [file[i] EXCEPT !.to = run[r].to]]
  BY DEF Extend
<1>4. file'[i] = [file[i] EXCEPT !.to = run[r].to] /\ \A j \in Files \ {i} : file'[j] = file[j]
  BY <1>3 DEF TypeOK
<1>5. /\ file'[i].state = file[i].state /\ file'[i].from = file[i].from
      /\ file'[i].to = run[r].to
      /\ file'[i] \in FileRow
  BY <1>2, <1>4 DEF FileRow, Runs
<1>6. run' = [run EXCEPT ![r] = [run[r] EXCEPT !.step = "select", !.from = file[i].from]]
  BY DEF Extend
<1>7. run'[r] = [run[r] EXCEPT !.step = "select", !.from = file[i].from]
  BY <1>6 DEF TypeOK
<1>8. /\ run'[r].step = "select" /\ run'[r].file = i
      /\ run'[r].from = file[i].from /\ run'[r].to = run[r].to
      /\ run'[r].payments = run[r].payments
      /\ run'[r] \in Runs
  BY <1>2, <1>7 DEF Runs, FileRow
<1> QED
  BY <1>1, <1>3, <1>4, <1>5, <1>6, <1>7, <1>8 DEF Extend

LEMMA ReadLatestEffect ==
    ASSUME TypeOK, FirstRow, NEW r \in Runners, ReadLatest(r)
    PROVE  /\ run[r].step = "latest"
           /\ run'[r].step = "create" /\ run'[r].file = run[r].file
           /\ run'[r].from = LatestTo /\ run'[r].to = run[r].to
           /\ run'[r].payments = run[r].payments
           /\ run'[r] \in Runs
           /\ run' = [run EXCEPT ![r] = run'[r]]
           /\ UNCHANGED <<day, lastHour, approved, numbered, file, sent, recorded>>
<1>1. run[r] \in Runs
  BY DEF TypeOK
<1>2. run' = [run EXCEPT ![r] = [run[r] EXCEPT !.step = "create", !.from = LatestTo]]
  BY DEF ReadLatest
<1>3. run'[r] = [run[r] EXCEPT !.step = "create", !.from = LatestTo]
  BY <1>2 DEF TypeOK
<1>4. /\ run'[r].step = "create" /\ run'[r].file = run[r].file
      /\ run'[r].from = LatestTo /\ run'[r].to = run[r].to
      /\ run'[r].payments = run[r].payments
      /\ run'[r] \in Runs
  <2>1. LatestTo \in Days
    BY LatestToIsLatest
  <2> QED
    BY <1>1, <1>3, <2>1 DEF Runs
<1> QED
  BY <1>2, <1>3, <1>4 DEF ReadLatest

LEMMA CreateEffect ==
    ASSUME TypeOK, NEW r \in Runners, Create(r)
    PROVE  \E i \in Files :
           /\ run[r].step = "create"
           /\ i \notin Used /\ \A j \in Files : j < i => j \in Used
           /\ file'[i].state = "open" /\ file'[i].from = run[r].from
           /\ file'[i].to = run[r].to
           /\ file' = [file EXCEPT ![i] = file'[i]]
           /\ file'[i] \in FileRow
           /\ \A j \in Files \ {i} : file'[j] = file[j]
           /\ run'[r].step = "select" /\ run'[r].file = i
           /\ run'[r].from = run[r].from /\ run'[r].to = run[r].to
           /\ run'[r].payments = run[r].payments
           /\ run'[r] \in Runs
           /\ run' = [run EXCEPT ![r] = run'[r]]
           /\ UNCHANGED <<day, lastHour, approved, numbered, sent, recorded>>
<1>1. run[r] \in Runs
  BY DEF TypeOK
<1> DEFINE row == [state |-> "open", from |-> run[r].from, to |-> run[r].to]
<1>2. PICK i \in Files \ Used :
        /\ \A j \in Files : j < i => j \in Used
        /\ file' = [file EXCEPT ![i] = row]
        /\ run' = [run EXCEPT ![r].step = "select", ![r].file = i]
  BY DEF Create
<1> DEFINE work == [run[r] EXCEPT !.step = "select", !.file = i]
<1>3. run' = [run EXCEPT ![r] = work]
  BY <1>2
<1>4. /\ row.state = "open" /\ row.from = run[r].from /\ row.to = run[r].to
      /\ row \in FileRow
  BY <1>1 DEF Runs, FileRow
<1>5. /\ work.step = "select" /\ work.file = i
      /\ work.from = run[r].from /\ work.to = run[r].to
      /\ work.payments = run[r].payments
      /\ work \in Runs
  BY <1>1 DEF Runs
<1> HIDE DEF row, work
<1>6. /\ file'[i] = row
      /\ \A j \in Files \ {i} : file'[j] = file[j]
      /\ run'[r] = work
  BY <1>2, <1>3 DEF TypeOK
<1> WITNESS i \in Files
<1> QED
  BY <1>2, <1>3, <1>4, <1>5, <1>6 DEF Create

LEMMA SelectEffect ==
    ASSUME TypeOK, NEW r \in Runners, Select(r)
    PROVE  LET S == {p \in numbered : InWindow(p, run[r].from, run[r].to)} IN
           /\ run[r].step = "select"
           /\ run'[r].step = (IF S = {} THEN "mark" ELSE "send")
           /\ run'[r].file = run[r].file
           /\ run'[r].from = run[r].from /\ run'[r].to = run[r].to
           /\ run'[r].payments = S
           /\ run'[r] \in Runs
           /\ run' = [run EXCEPT ![r] = run'[r]]
           /\ UNCHANGED <<day, lastHour, approved, numbered, file, sent, recorded>>
<1> DEFINE S == {p \in numbered : InWindow(p, run[r].from, run[r].to)}
           step == IF S = {} THEN "mark" ELSE "send"
<1>1. run[r] \in Runs
  BY DEF TypeOK
<1>2. run' = [run EXCEPT ![r] = [run[r] EXCEPT !.payments = S, !.step = step]]
  BY DEF Select
<1>3. run'[r] = [run[r] EXCEPT !.payments = S, !.step = step]
  <2> HIDE DEF S, step
  <2> QED
    BY <1>2 DEF TypeOK
<1>4. /\ run'[r].step = step
      /\ run'[r].file = run[r].file
      /\ run'[r].from = run[r].from /\ run'[r].to = run[r].to
      /\ run'[r].payments = S
      /\ run'[r] \in Runs
  <2>1. S \subseteq Payments /\ step \in {"mark", "send"}
    BY DEF TypeOK
  <2> HIDE DEF S, step
  <2> QED
    BY <1>1, <1>3, <2>1 DEF Runs
<1>5. run' = [run EXCEPT ![r] = run'[r]]
  <2> HIDE DEF S, step
  <2> QED
    BY <1>2, <1>3
<1> QED
  BY <1>4, <1>5 DEF Select

\* Send, Clean and MarkSubmitted change the step of the tick only.
LEMMA StepEffect ==
    ASSUME TypeOK, NEW r \in Runners, NEW step \in {"clean", "mark", "record"},
           run' = [run EXCEPT ![r].step = step]
    PROVE  /\ run'[r].step = step /\ run'[r].file = run[r].file
           /\ run'[r].from = run[r].from /\ run'[r].to = run[r].to
           /\ run'[r].payments = run[r].payments
           /\ run'[r] \in Runs
           /\ run' = [run EXCEPT ![r] = run'[r]]
<1>1. run[r] \in Runs
  BY DEF TypeOK
<1>2. run' = [run EXCEPT ![r] = [run[r] EXCEPT !.step = step]]
  OBVIOUS
<1>3. run'[r] = [run[r] EXCEPT !.step = step]
  BY <1>2 DEF TypeOK
<1>4. /\ run'[r].step = step /\ run'[r].file = run[r].file
      /\ run'[r].from = run[r].from /\ run'[r].to = run[r].to
      /\ run'[r].payments = run[r].payments
      /\ run'[r] \in Runs
  BY <1>1, <1>3 DEF Runs
<1> QED
  BY <1>2, <1>3, <1>4

\* The payments of the tick get one copy more in its file, up to MaxCopies.
LEMMA SendEffect ==
    ASSUME TypeOK, RowStepsHaveRows, NEW r \in Runners, Send(r)
    PROVE  LET i == run[r].file IN
           /\ run[r].step = "send" /\ i \in Files
           /\ run' = [run EXCEPT ![r].step = "clean"]
           /\ \A p \in Payments :
                /\ sent[i][p] \in 0..MaxCopies
                /\ sent'[i][p] = IF p \in run[r].payments /\ sent[i][p] < MaxCopies
                                 THEN sent[i][p] + 1 ELSE sent[i][p]
           /\ \A j \in Files \ {i} : sent'[j] = sent[j]
           /\ sent' \in [Files -> [Payments -> 0..MaxCopies]]
           /\ UNCHANGED <<day, lastHour, approved, numbered, file, recorded>>
<1>1. run[r].step = "send" /\ run[r].file \in Files
  BY DEF Send, RowStepsHaveRows, RowSteps
<1> PICK i \in Files : i = run[r].file
  BY <1>1
<1> DEFINE copies == [p \in Payments |-> IF p \in run[r].payments
                                         THEN Min({sent[i][p] + 1, MaxCopies})
                                         ELSE sent[i][p]]
<1>2. sent' = [sent EXCEPT ![i] = copies]
  BY DEF Send
<1>3. ASSUME NEW p \in Payments
      PROVE  /\ sent[i][p] \in 0..MaxCopies
             /\ copies[p] = IF p \in run[r].payments /\ sent[i][p] < MaxCopies
                            THEN sent[i][p] + 1 ELSE sent[i][p]
             /\ copies[p] \in 0..MaxCopies
  <2>1. sent[i][p] \in 0..MaxCopies
    BY DEF TypeOK
  <2>2. Min({sent[i][p] + 1, MaxCopies}) =
          IF sent[i][p] + 1 <= MaxCopies THEN sent[i][p] + 1 ELSE MaxCopies
    <3> PICK n \in Nat : n = sent[i][p] + 1
      BY <2>1
    <3> QED
      BY MinOfTwo
  <2>3. copies[p] = IF p \in run[r].payments
                    THEN IF sent[i][p] + 1 <= MaxCopies THEN sent[i][p] + 1 ELSE MaxCopies
                    ELSE sent[i][p]
    BY <2>2
  <2> HIDE DEF copies
  <2> QED
    BY <2>1, <2>3
<1>4. copies \in [Payments -> 0..MaxCopies]
  <2>1. \A p \in Payments : copies[p] \in 0..MaxCopies
    BY <1>3
  <2>2. copies = [p \in Payments |-> copies[p]]
    OBVIOUS
  <2> HIDE DEF copies
  <2> QED
    BY <2>1, <2>2
<1> HIDE DEF copies
<1>5. sent'[i] = copies /\ \A j \in Files \ {i} : sent'[j] = sent[j]
  BY <1>2 DEF TypeOK
<1>6. sent' \in [Files -> [Payments -> 0..MaxCopies]]
  BY <1>2, <1>4 DEF TypeOK
<1> QED
  BY <1>1, <1>3, <1>5, <1>6 DEF Send

LEMMA MarkEffect ==
    ASSUME TypeOK, RowStepsHaveRows, NEW r \in Runners, MarkSubmitted(r)
    PROVE  LET i == run[r].file IN
           /\ run[r].step = "mark" /\ i \in Files
           /\ file'[i].state = "submitted" /\ file'[i].from = file[i].from
           /\ file'[i].to = file[i].to
           /\ \A j \in Files \ {i} : file'[j] = file[j]
           /\ file' = [file EXCEPT ![i] = file'[i]]
           /\ file'[i] \in FileRow
           /\ run' = [run EXCEPT ![r].step = "record"]
           /\ UNCHANGED <<day, lastHour, approved, numbered, sent, recorded>>
<1>1. run[r].step = "mark" /\ run[r].file \in Files
  BY DEF MarkSubmitted, RowStepsHaveRows, RowSteps
<1> PICK i \in Files : i = run[r].file
  BY <1>1
<1>2. file[i] \in FileRow
  BY DEF TypeOK, FileRow
<1>3. file' = [file EXCEPT ![i] = [file[i] EXCEPT !.state = "submitted"]]
  BY DEF MarkSubmitted
<1>4. file'[i] = [file[i] EXCEPT !.state = "submitted"]
      /\ \A j \in Files \ {i} : file'[j] = file[j]
  BY <1>3 DEF TypeOK
<1>5. /\ file'[i].state = "submitted" /\ file'[i].from = file[i].from
      /\ file'[i].to = file[i].to
      /\ file'[i] \in FileRow
  BY <1>2, <1>4 DEF FileRow
<1> QED
  BY <1>1, <1>3, <1>4, <1>5 DEF MarkSubmitted

LEMMA RunTyped ==
    ASSUME TypeOK, NEW r \in Runners, run'[r] \in Runs, run' = [run EXCEPT ![r] = run'[r]]
    PROVE  /\ run' \in [Runners -> Runs]
           /\ \A q \in Runners \ {r} : run'[q] = run[q]
  BY DEF TypeOK

\* A tick that ends is idle.
LEMMA EndEffect ==
    ASSUME TypeOK, NEW r \in Runners, run' = [run EXCEPT ![r] = Idle]
    PROVE  /\ run'[r] = Idle /\ run'[r] \in Runs
           /\ run' = [run EXCEPT ![r] = run'[r]]
  BY IdleType DEF TypeOK

\* The steps that only change what a tick is doing.
LEMMA ExtractKept ==
    ASSUME ExtractInv, NEW r \in Runners, run'[r] \in Runs, run' = [run EXCEPT ![r] = run'[r]],
           run'[r].step \in RowSteps => run'[r].file \in Files,
           run'[r].step \in {"clean", "mark", "record"} =>
              \A p \in run'[r].payments : sent[run'[r].file][p] > 0,
           UNCHANGED <<day, lastHour, approved, numbered, sent, recorded>>,
           file' \in [Files -> FileRow], \A i \in Used : file'[i].state # "unused"
    PROVE  ExtractInv'
<1>1. run' \in [Runners -> Runs] /\ \A q \in Runners \ {r} : run'[q] = run[q]
  BY RunTyped DEF ExtractInv
<1>2. TypeOK'
  BY <1>1 DEF ExtractInv, TypeOK, FileRow
<1>3. RowStepsHaveRows' /\ SentBeforeRecord'
  BY <1>1 DEF ExtractInv, RowStepsHaveRows, SentBeforeRecord
<1>4. FirstRow' /\ HourIsAfterCutOff' /\ RecordedWasSent'
  BY DEF ExtractInv, FirstRow, HourIsAfterCutOff, RecordedWasSent, Used
<1> QED
  BY <1>2, <1>3, <1>4 DEF ExtractInv

\* The files at GARMS only grow.
LEMMA SentGrows ==
    ASSUME TypeOK, RowStepsHaveRows, NEW r \in Runners, Send(r)
    PROVE  /\ \A i \in Files, p \in Payments : sent[i][p] > 0 => sent'[i][p] > 0
           /\ \A p \in run[r].payments : sent'[run[r].file][p] > 0
<1> PICK i \in Files : i = run[r].file
  BY SendEffect
<1>1. run[r].payments \subseteq Payments
  BY DEF TypeOK, Runs
<1>2. ASSUME NEW p \in Payments
      PROVE  /\ sent[i][p] > 0 => sent'[i][p] > 0
             /\ p \in run[r].payments => sent'[i][p] > 0
  <2>1. /\ sent[i][p] \in 0..MaxCopies
        /\ sent'[i][p] = IF p \in run[r].payments /\ sent[i][p] < MaxCopies
                         THEN sent[i][p] + 1 ELSE sent[i][p]
    BY SendEffect
  <2> QED
    BY <2>1
<1>3. \A j \in Files \ {i} : sent'[j] = sent[j]
  BY SendEffect
<1> QED
  BY <1>1, <1>2, <1>3

LEMMA ExtractStep ==
    ASSUME ExtractInv, [Next]_vars
    PROVE  ExtractInv'
<1>1. /\ TypeOK /\ RowStepsHaveRows /\ HourIsAfterCutOff /\ FirstRow
      /\ SentBeforeRecord /\ RecordedWasSent
      /\ file \in [Files -> FileRow]
  BY DEF ExtractInv, TypeOK, FileRow
<1>2. CASE PassCutOff \/ PassHour
  <2>1. /\ UNCHANGED <<approved, numbered, file, sent, recorded, run>>
        /\ day' \in Days /\ lastHour' \in BOOLEAN /\ (lastHour' => day' > 0)
    <3>1. CASE PassCutOff
      BY <1>1, <3>1 DEF PassCutOff, TypeOK, Days
    <3>2. CASE PassHour
      BY <1>1, <3>2 DEF PassHour, TypeOK
    <3> QED
      BY <1>2, <3>1, <3>2
  <2> QED
    BY <1>1, <2>1 DEF ExtractInv, TypeOK, RowStepsHaveRows, HourIsAfterCutOff, FirstRow,
                      Used, SentBeforeRecord, RecordedWasSent
<1>3. ASSUME NEW p \in Payments, Approve(p) \/ Issue(p)
      PROVE  ExtractInv'
  <2>1. /\ UNCHANGED <<day, lastHour, file, sent, recorded, run>>
        /\ approved' \in [Payments -> Days \cup {NotYet}]
        /\ numbered' \subseteq Payments
    BY <1>1, <1>3 DEF Approve, Issue, TypeOK
  <2> QED
    BY <1>1, <2>1 DEF ExtractInv, TypeOK, RowStepsHaveRows, HourIsAfterCutOff, FirstRow,
                      Used, SentBeforeRecord, RecordedWasSent
<1>4. ASSUME NEW r \in Runners, Tick(r)
      PROVE  ExtractInv'
  <2>1. run'[r] \in Runs /\ run' = [run EXCEPT ![r] = run'[r]]
    BY <1>1, <1>4, TickEffect
  <2>2. /\ run'[r].step \in RowSteps => run'[r].file \in Files
        /\ run'[r].step \notin {"clean", "mark", "record"}
    BY <1>1, <1>4, TickEffect DEF RowSteps, Unsubmitted
  <2>3. UNCHANGED <<day, lastHour, approved, numbered, file, sent, recorded>>
    BY <1>1, <1>4, TickEffect
  <2> QED
    BY <1>1, <2>1, <2>2, <2>3, ExtractKept DEF Used
<1>5. ASSUME NEW r \in Runners, Extend(r)
      PROVE  ExtractInv'
  <2>1. run'[r] \in Runs /\ run' = [run EXCEPT ![r] = run'[r]]
    BY <1>1, <1>5, ExtendEffect
  <2>2. run'[r].step = "select" /\ run'[r].file \in Files
    BY <1>1, <1>5, ExtendEffect
  <2>3. UNCHANGED <<day, lastHour, approved, numbered, sent, recorded>>
    BY <1>1, <1>5, ExtendEffect
  <2>4. file' \in [Files -> FileRow] /\ \A i \in Files : file'[i].state = file[i].state
    BY <1>1, <1>5, ExtendEffect
  <2> QED
    BY <2>1, <2>2, <2>3, <2>4, ExtractKept DEF Used
<1>6. ASSUME NEW r \in Runners, ReadLatest(r)
      PROVE  ExtractInv'
  <2>1. run'[r] \in Runs /\ run' = [run EXCEPT ![r] = run'[r]] /\ run'[r].step = "create"
    BY <1>1, <1>6, ReadLatestEffect
  <2>2. UNCHANGED <<day, lastHour, approved, numbered, file, sent, recorded>>
    BY <1>1, <1>6, ReadLatestEffect
  <2> QED
    BY <1>1, <2>1, <2>2, ExtractKept DEF Used, RowSteps
<1>7. ASSUME NEW r \in Runners, Create(r)
      PROVE  ExtractInv'
  <2>1. PICK i \in Files :
          /\ file' = [file EXCEPT ![i] = file'[i]] /\ file'[i] \in FileRow
          /\ file'[i].state = "open"
          /\ \A j \in Files \ {i} : file'[j] = file[j]
          /\ run'[r].step = "select" /\ run'[r].file = i
          /\ run'[r] \in Runs /\ run' = [run EXCEPT ![r] = run'[r]]
          /\ UNCHANGED <<day, lastHour, approved, numbered, sent, recorded>>
    BY <1>1, <1>7, CreateEffect
  <2>2. file' \in [Files -> FileRow] /\ \A j \in Used : file'[j].state # "unused"
    BY <1>1, <2>1 DEF Used
  <2> QED
    BY <2>1, <2>2, ExtractKept
<1>8. ASSUME NEW r \in Runners, Select(r)
      PROVE  ExtractInv'
  <2> DEFINE S == {p \in numbered : InWindow(p, run[r].from, run[r].to)}
  <2>1. /\ run[r].step = "select"
        /\ run'[r].step = (IF S = {} THEN "mark" ELSE "send")
        /\ run'[r].file = run[r].file /\ run'[r].payments = S
        /\ run'[r] \in Runs /\ run' = [run EXCEPT ![r] = run'[r]]
        /\ UNCHANGED <<day, lastHour, approved, numbered, file, sent, recorded>>
    BY <1>1, <1>8, SelectEffect
  <2> HIDE DEF S
  <2>2. run'[r].file \in Files
    BY <1>1, <2>1 DEF RowStepsHaveRows, RowSteps
  <2>3. run'[r].step \in {"clean", "mark", "record"} => run'[r].payments = {}
    BY <2>1
  <2> QED
    BY <1>1, <2>1, <2>2, <2>3, ExtractKept DEF Used
<1>9. ASSUME NEW r \in Runners, Send(r)
      PROVE  ExtractInv'
  <2>1. /\ run[r].file \in Files
        /\ run' = [run EXCEPT ![r].step = "clean"]
        /\ sent' \in [Files -> [Payments -> 0..MaxCopies]]
        /\ UNCHANGED <<day, lastHour, approved, numbered, file, recorded>>
    BY <1>1, <1>9, SendEffect
  <2>2. /\ run'[r].step = "clean" /\ run'[r].file = run[r].file
        /\ run'[r].payments = run[r].payments
        /\ run'[r] \in Runs /\ run' = [run EXCEPT ![r] = run'[r]]
    BY <1>1, <2>1, StepEffect
  <2>3. run' \in [Runners -> Runs] /\ \A q \in Runners \ {r} : run'[q] = run[q]
    BY <1>1, <2>2, RunTyped
  <2>4. TypeOK' /\ HourIsAfterCutOff' /\ FirstRow'
    BY <1>1, <2>1, <2>3 DEF TypeOK, HourIsAfterCutOff, FirstRow, Used
  <2>5. RowStepsHaveRows'
    BY <1>1, <2>1, <2>2, <2>3 DEF RowStepsHaveRows
  <2>6. SentBeforeRecord'
    <3> SUFFICES ASSUME NEW q \in Runners, run'[q].step \in {"clean", "mark", "record"},
                        NEW p \in run'[q].payments
                 PROVE  sent'[run'[q].file][p] > 0
      BY DEF SentBeforeRecord
    <3>1. CASE q = r
      BY <1>1, <1>9, <2>2, <3>1, SentGrows
    <3>2. CASE q # r
      <4>1. run[q].file \in Files /\ p \in Payments /\ sent[run[q].file][p] > 0
        BY <1>1, <2>3, <3>2 DEF SentBeforeRecord, RowStepsHaveRows, RowSteps, TypeOK, Runs
      <4> QED
        BY <1>1, <1>9, <2>3, <3>2, <4>1, SentGrows
    <3> QED
      BY <3>1, <3>2
  <2>7. RecordedWasSent'
    <3> SUFFICES ASSUME NEW e \in recorded
                 PROVE  sent'[e[1]][e[2]] > 0
      BY <2>1 DEF RecordedWasSent
    <3>1. e[1] \in Files /\ e[2] \in Payments
      BY <1>1 DEF TypeOK
    <3> QED
      BY <1>1, <1>9, <3>1, SentGrows DEF RecordedWasSent
  <2> QED
    BY <2>4, <2>5, <2>6, <2>7 DEF ExtractInv
<1>10. ASSUME NEW r \in Runners, Clean(r)
       PROVE  ExtractInv'
  <2>1. /\ run[r].step = "clean" /\ run' = [run EXCEPT ![r].step = "mark"]
        /\ UNCHANGED <<day, lastHour, approved, numbered, file, sent, recorded>>
    BY <1>10 DEF Clean
  <2>2. /\ run'[r].step = "mark" /\ run'[r].file = run[r].file
        /\ run'[r].payments = run[r].payments
        /\ run'[r] \in Runs /\ run' = [run EXCEPT ![r] = run'[r]]
    BY <1>1, <2>1, StepEffect
  <2>3. run[r].file \in Files /\ \A p \in run[r].payments : sent[run[r].file][p] > 0
    BY <1>1, <2>1 DEF RowStepsHaveRows, RowSteps, SentBeforeRecord
  <2> QED
    BY <1>1, <2>1, <2>2, <2>3, ExtractKept DEF Used
<1>11. ASSUME NEW r \in Runners, MarkSubmitted(r)
       PROVE  ExtractInv'
  <2>1. /\ run[r].step = "mark" /\ run[r].file \in Files
        /\ run' = [run EXCEPT ![r].step = "record"]
        /\ UNCHANGED <<day, lastHour, approved, numbered, sent, recorded>>
    BY <1>1, <1>11, MarkEffect
  <2>2. /\ run'[r].step = "record" /\ run'[r].file = run[r].file
        /\ run'[r].payments = run[r].payments
        /\ run'[r] \in Runs /\ run' = [run EXCEPT ![r] = run'[r]]
    BY <1>1, <2>1, StepEffect
  <2>3. \A p \in run[r].payments : sent[run[r].file][p] > 0
    BY <1>1, <2>1 DEF SentBeforeRecord
  <2>4. file' \in [Files -> FileRow] /\ \A i \in Used : file'[i].state # "unused"
    BY <1>1, <1>11, MarkEffect DEF Used
  <2> QED
    BY <2>1, <2>2, <2>3, <2>4, ExtractKept
<1>12. ASSUME NEW r \in Runners, Record(r)
       PROVE  ExtractInv'
  <2>1. /\ run[r].step = "record" /\ run' = [run EXCEPT ![r] = Idle]
        /\ recorded' = recorded \cup ({run[r].file} \X run[r].payments)
        /\ UNCHANGED <<day, lastHour, approved, numbered, file, sent>>
    BY <1>12 DEF Record, SavedIds
  <2>2. run' \in [Runners -> Runs] /\ run'[r] = Idle /\ \A q \in Runners \ {r} : run'[q] = run[q]
    BY <1>1, <2>1, EndEffect, RunTyped
  <2>3. run[r].file \in Files /\ run[r].payments \subseteq Payments
    BY <1>1, <2>1 DEF RowStepsHaveRows, RowSteps, TypeOK, Runs
  <2>4. TypeOK' /\ HourIsAfterCutOff' /\ FirstRow'
    BY <1>1, <2>1, <2>2, <2>3 DEF TypeOK, HourIsAfterCutOff, FirstRow, Used
  <2>5. RowStepsHaveRows' /\ SentBeforeRecord'
    BY <1>1, <2>1, <2>2 DEF RowStepsHaveRows, RowSteps, SentBeforeRecord, Idle
  <2>6. RecordedWasSent'
    <3>1. \A p \in run[r].payments : sent[run[r].file][p] > 0
      BY <1>1, <2>1 DEF SentBeforeRecord
    <3> QED
      BY <1>1, <2>1, <3>1 DEF RecordedWasSent
  <2> QED
    BY <2>4, <2>5, <2>6 DEF ExtractInv
<1>13. ASSUME NEW r \in Runners, Fail(r) \/ Crash(r)
       PROVE  ExtractInv'
  <2>1. /\ run' = [run EXCEPT ![r] = Idle]
        /\ UNCHANGED <<day, lastHour, approved, numbered, file, sent, recorded>>
    BY <1>13 DEF Fail, Crash
  <2>2. run'[r] = Idle /\ run'[r] \in Runs /\ run' = [run EXCEPT ![r] = run'[r]]
    BY <1>1, <2>1, EndEffect
  <2>3. run'[r].step = "idle"
    BY <2>2 DEF Idle
  <2> QED
    BY <1>1, <2>1, <2>2, <2>3, ExtractKept DEF Used, RowSteps
<1>14. CASE UNCHANGED vars
  BY <1>1, <1>14 DEF vars, ExtractInv, TypeOK, RowStepsHaveRows, HourIsAfterCutOff, FirstRow,
                     Used, SentBeforeRecord, RecordedWasSent
<1> QED
  BY <1>2, <1>3, <1>4, <1>5, <1>6, <1>7, <1>8, <1>9, <1>10, <1>11, <1>12, <1>13, <1>14
  DEF Next, Work

LEMMA ExtractInit == Init => ExtractInv
<1> SUFFICES ASSUME Init PROVE ExtractInv
  OBVIOUS
<1>1. Unused \in FileRow /\ [Unused EXCEPT !.state = "submitted"] \in FileRow
  BY DEF Unused, FileRow, Days
<1>2. file \in [Files -> FileRow] /\ file[1].state = "submitted" /\ 1 \in Files
  BY <1>1 DEF Init, Files, Unused
<1>3. TypeOK
  <2>1. day \in Days /\ lastHour \in BOOLEAN /\ numbered \subseteq Payments
    <3>1. day \in Days
      BY DEF Init, Days
    <3>2. lastHour \in BOOLEAN
      BY Zenon DEF Init
    <3>3. numbered \subseteq Payments
      BY DEF Init
    <3> QED
      BY <3>1, <3>2, <3>3
  <2>2. approved \in [Payments -> Days \cup {NotYet}]
    BY DEF Init
  <2>3. sent \in [Files -> [Payments -> 0..MaxCopies]]
    <3>1. [p \in Payments |-> 0] \in [Payments -> 0..MaxCopies]
      OBVIOUS
    <3> QED
      BY <3>1 DEF Init
  <2>4. recorded \subseteq Files \X Payments /\ run \in [Runners -> Runs]
    BY IdleType DEF Init
  <2> QED
    BY <1>2, <2>1, <2>2, <2>3, <2>4 DEF TypeOK, FileRow
<1> QED
  BY <1>2, <1>3
  DEF Init, ExtractInv, RowStepsHaveRows, RowSteps, HourIsAfterCutOff, FirstRow, Used,
      SentBeforeRecord, RecordedWasSent, Idle

LEMMA ExtractInvCorrect == Spec => []ExtractInv
<1>1. ExtractInv /\ [Next]_vars => ExtractInv'
  BY ExtractStep
<1> QED
  BY <1>1, ExtractInit, PTL DEF Spec

\* The extract table, what GARMS has and the ticks stay well typed.
THEOREM ExtractTypeCorrect == Spec => []TypeOK
<1>1. ExtractInv => TypeOK
  BY DEF ExtractInv
<1> QED
  BY <1>1, ExtractInvCorrect, PTL

\* Whatever ticks overlap, fail or die, a transaction that saveTransactionIds
\* recorded for a file was in that file.
THEOREM RecordedIsSent == Spec => []RecordedWasSent
<1>1. ExtractInv => RecordedWasSent
  BY DEF ExtractInv
<1> QED
  BY <1>1, ExtractInvCorrect, PTL

-----------------------------------------------------------------------------
(***************************************************************************)
(* Ticks that do not overlap.  The clock, the approvals and the issuance   *)
(* go on between the steps of a tick, and any step may be its last.        *)
(***************************************************************************)

\* One tick is under way at a time.
OneBusy == \A s, u \in Runners : run[s] # Idle /\ run[u] # Idle => s = u

\* The table fills from below, with windows that end later and later, and only
\* its last row may be open.
RowsInOrder ==
    \A i \in Used, j \in Files :
        j < i => j \in Used /\ Submitted(j) /\ file[j].to < file[i].to

\* No window reaches into the time whose payments may still be approved.
WindowsHavePassed == \A i \in Used : file[i].to <= ToDate

UnusedAreUnsent == \A i \in Files, p \in Payments : sent[i][p] > 0 => i \in Used

\* What a window may reach is numbered.
PassedAreNumbered ==
    IssuedInTime => \A p \in Payments : approved[p] < ToDate => p \in numbered

\* The tick has found all payments of its window.
FoundAll(w) ==
    IssuedInTime => \A p \in Payments : InWindow(p, w.from, w.to) => p \in w.payments

\* The steps on a row that is open.
OpenSteps == {"select", "send", "clean", "mark"}

\* What the tick has read of the table is still so.
TickFresh(w) ==
    /\ w.to <= ToDate
    /\ w.step = "extend" => file[w.file].state = "open" /\ file[w.file].to <= w.to
    /\ w.step \in {"latest", "create"} =>
          Unsubmitted = {} /\ \A i \in Used : file[i].to < w.to
    /\ w.step = "create" =>
          \E i \in Used : file[i].to = w.from /\ \A j \in Used : j <= i
    /\ w.step \in OpenSteps =>
          /\ file[w.file].state = "open"
          /\ w.from = file[w.file].from /\ w.to = file[w.file].to
    /\ w.step \in {"send", "clean", "mark"} => FoundAll(w)

TicksFresh == \A r \in Runners : TickFresh(run[r])

NothingMissedInTime == IssuedInTime => NothingMissed

TableInv == RowsInOrder /\ WindowsTile /\ WindowsHavePassed

AloneInv ==
    /\ TableInv
    /\ UnusedAreUnsent
    /\ PassedAreNumbered
    /\ TicksFresh
    /\ NothingMissedInTime

-----------------------------------------------------------------------------
(* The clock and the payments                                              *)

\* Time goes on, and what is approved from now on is in no window so far.
LEMMA ClockEffect ==
    ASSUME ExtractInv, PassedAreNumbered,
           PassCutOff \/ PassHour \/ \E p \in Payments : Approve(p) \/ Issue(p)
    PROVE  /\ UNCHANGED <<file, sent, recorded, run>>
           /\ ToDate \in Int /\ ToDate' \in Int /\ ToDate <= ToDate'
           /\ \A p \in Payments, from, to \in Days :
                to <= ToDate /\ InWindow(p, from, to)' => InWindow(p, from, to)
           /\ PassedAreNumbered'
           /\ numbered \subseteq numbered'
<1>1. TypeOK /\ HourIsAfterCutOff /\ ToDate \in Days /\ ToDate <= day
  BY ToDatePassed DEF ExtractInv
<1>2. day \in Nat /\ day <= MaxDay
  BY <1>1 DEF TypeOK, Days
<1>3. CASE PassCutOff
  <2>1. ToDate' = ToDate
    BY <1>2, <1>3 DEF PassCutOff, ToDate
  <2>2. UNCHANGED <<approved, numbered, file, sent, recorded, run>>
    BY <1>3 DEF PassCutOff
  <2> QED
    BY <1>1, <2>1, <2>2 DEF PassedAreNumbered, InWindow, Days
<1>4. CASE PassHour
  <2>1. ToDate = day - 1 /\ ToDate' = day
    BY <1>4 DEF PassHour, ToDate
  <2>2. UNCHANGED <<day, approved, numbered, file, sent, recorded, run>>
    BY <1>4 DEF PassHour
  <2>3. PassedAreNumbered'
    BY <1>4, <2>1, <2>2 DEF PassHour, PassedAreNumbered
  <2> QED
    BY <1>2, <2>1, <2>2, <2>3 DEF InWindow
<1>5. ASSUME NEW p \in Payments, Approve(p)
      PROVE  /\ UNCHANGED <<file, sent, recorded, run>>
             /\ ToDate \in Int /\ ToDate' \in Int /\ ToDate <= ToDate'
             /\ \A q \in Payments, from, to \in Days :
                  to <= ToDate /\ InWindow(q, from, to)' => InWindow(q, from, to)
             /\ PassedAreNumbered'
             /\ numbered \subseteq numbered'
  <2>1. UNCHANGED <<day, lastHour, numbered, file, sent, recorded, run>>
    BY <1>5 DEF Approve
  <2>2. ToDate' = ToDate
    BY <2>1 DEF ToDate
  <2>3. approved'[p] = day /\ \A q \in Payments \ {p} : approved'[q] = approved[q]
    BY <1>1, <1>5 DEF Approve, TypeOK
  <2>4. \A q \in Payments, from, to \in Days :
          to <= ToDate /\ InWindow(q, from, to)' => InWindow(q, from, to)
    BY <1>1, <1>2, <2>3 DEF InWindow, Days
  <2>5. PassedAreNumbered'
    BY <1>1, <1>2, <2>1, <2>2, <2>3 DEF PassedAreNumbered, Days
  <2> QED
    BY <1>1, <2>1, <2>2, <2>4, <2>5 DEF Days
<1>6. ASSUME NEW p \in Payments, Issue(p)
      PROVE  /\ UNCHANGED <<file, sent, recorded, run>>
             /\ ToDate \in Int /\ ToDate' \in Int /\ ToDate <= ToDate'
             /\ \A q \in Payments, from, to \in Days :
                  to <= ToDate /\ InWindow(q, from, to)' => InWindow(q, from, to)
             /\ PassedAreNumbered'
             /\ numbered \subseteq numbered'
  <2>1. UNCHANGED <<day, lastHour, approved, file, sent, recorded, run>>
    BY <1>6 DEF Issue
  <2>2. ToDate' = ToDate /\ numbered \subseteq numbered'
    BY <1>6, <2>1 DEF ToDate, Issue
  <2> QED
    BY <1>1, <2>1, <2>2 DEF InWindow, PassedAreNumbered, Days
<1> QED
  BY <1>3, <1>4, <1>5, <1>6

LEMMA AloneClock ==
    ASSUME ExtractInv, AloneInv,
           PassCutOff \/ PassHour \/ \E p \in Payments : Approve(p) \/ Issue(p)
    PROVE  AloneInv'
<1>1. /\ UNCHANGED <<file, sent, recorded, run>>
      /\ ToDate \in Int /\ ToDate' \in Int /\ ToDate <= ToDate'
      /\ \A p \in Payments, from, to \in Days :
           to <= ToDate /\ InWindow(p, from, to)' => InWindow(p, from, to)
      /\ PassedAreNumbered'
      /\ numbered \subseteq numbered'
  BY ClockEffect DEF AloneInv
<1>2. TypeOK
  BY DEF ExtractInv
<1>3. Used' = Used /\ Unsubmitted' = Unsubmitted /\ \A i : Submitted(i)' <=> Submitted(i)
  BY <1>1 DEF Used, Unsubmitted, Submitted
<1>4. \A i \in Files : file[i].from \in Days /\ file[i].to \in Days
  BY <1>2 DEF TypeOK
<1>5. \A r \in Runners : run[r].from \in Days /\ run[r].to \in Days
  BY <1>2 DEF TypeOK, Runs
<1>6. TableInv'
  <2>1. RowsInOrder' /\ WindowsTile'
    BY <1>1, <1>3 DEF AloneInv, TableInv, RowsInOrder, WindowsTile
  <2>2. WindowsHavePassed'
    BY <1>1, <1>3, <1>4 DEF AloneInv, TableInv, WindowsHavePassed, Used, Days
  <2> QED
    BY <2>1, <2>2 DEF TableInv
<1>7. UnusedAreUnsent'
  BY <1>1, <1>3 DEF AloneInv, UnusedAreUnsent
<1>8. TicksFresh'
  <2> SUFFICES ASSUME NEW r \in Runners
               PROVE  TickFresh(run[r])'
    BY DEF TicksFresh
  <2>1. TickFresh(run[r]) /\ run'[r] = run[r] /\ run[r].to <= ToDate /\ run[r].to \in Int
    BY <1>1, <1>5 DEF AloneInv, TicksFresh, TickFresh, Days
  <2>2. FoundAll(run[r]) => FoundAll(run[r])'
    BY <1>1, <1>5, <2>1 DEF FoundAll
  <2>3. run'[r].to <= ToDate'
    BY <1>1, <2>1
  <2> QED
    BY <1>1, <1>3, <2>1, <2>2, <2>3 DEF TickFresh
<1>9. NothingMissedInTime'
  <2> SUFFICES ASSUME IssuedInTime, NEW i \in Files, NEW p \in Payments, Submitted(i)',
                      InWindow(p, file[i].from, file[i].to)'
               PROVE  sent'[i][p] > 0
    BY DEF NothingMissedInTime, NothingMissed
  <2>1. Submitted(i) /\ i \in Used
    BY <1>3 DEF Submitted, Used
  <2>2. file[i].to <= ToDate
    BY <2>1 DEF AloneInv, TableInv, WindowsHavePassed
  <2>3. InWindow(p, file[i].from, file[i].to)
    BY <1>1, <1>4, <2>2
  <2> QED
    BY <1>1, <2>1, <2>3 DEF AloneInv, NothingMissedInTime, NothingMissed
<1> QED
  BY <1>1, <1>6, <1>7, <1>8, <1>9 DEF AloneInv

-----------------------------------------------------------------------------
(* The steps of one tick                                                   *)

\* Around a step of one tick the other ticks are idle.
LEMMA OthersIdle ==
    ASSUME TypeOK, OneBusy, OneBusy', NEW r \in Runners, run' = [run EXCEPT ![r] = run'[r]],
           run[r] # Idle \/ run'[r] # Idle
    PROVE  \A q \in Runners \ {r} : run[q] = Idle /\ run'[q] = Idle
  BY DEF OneBusy, TypeOK

LEMMA IdleIsFresh ==
    ASSUME ExtractInv
    PROVE  TickFresh(Idle)
<1>1. ToDate \in Days
  BY ToDatePassed DEF ExtractInv
<1> QED
  BY <1>1 DEF TickFresh, Idle, Days, OpenSteps

\* Steps that write neither the table nor a file.
LEMMA AloneKept ==
    ASSUME ExtractInv, AloneInv, OneBusy, OneBusy', NEW r \in Runners,
           run' = [run EXCEPT ![r] = run'[r]], run[r] # Idle \/ run'[r] # Idle,
           TickFresh(run'[r]),
           UNCHANGED <<day, lastHour, approved, numbered, file, sent>>
    PROVE  AloneInv'
<1>1. \A q \in Runners : TickFresh(run'[q])
  BY OthersIdle, IdleIsFresh DEF ExtractInv
<1>2. TicksFresh'
  BY <1>1 DEF TicksFresh, TickFresh, ToDate, Unsubmitted, Used, FoundAll, InWindow
<1>3. TableInv'
  BY DEF AloneInv, TableInv, RowsInOrder, WindowsTile, WindowsHavePassed, Used, Submitted, ToDate
<1>4. UnusedAreUnsent' /\ PassedAreNumbered' /\ NothingMissedInTime'
  BY DEF AloneInv, UnusedAreUnsent, PassedAreNumbered, NothingMissedInTime, NothingMissed,
         Used, Submitted, ToDate, InWindow
<1> QED
  BY <1>2, <1>3, <1>4 DEF AloneInv

\* A tick takes the open row, which ends no later than its time, or finds that
\* all rows are submitted and end earlier.
LEMMA AloneTick ==
    ASSUME ExtractInv, AloneInv, OneBusy, OneBusy', NEW r \in Runners, Tick(r)
    PROVE  AloneInv'
<1>1. TypeOK /\ HourIsAfterCutOff /\ FirstRow
  BY DEF ExtractInv
<1>2. /\ run'[r].to = ToDate
      /\ \/ run'[r].step = "extend" /\ run'[r].file \in Unsubmitted
         \/ run'[r].step = "latest" /\ Unsubmitted = {} /\ LatestTo < ToDate
      /\ run' = [run EXCEPT ![r] = run'[r]]
      /\ UNCHANGED <<day, lastHour, approved, numbered, file, sent, recorded>>
  BY <1>1, TickEffect
<1>3. ToDate \in Int
  BY <1>1, ToDatePassed DEF Days
<1>4. TickFresh(run'[r])
  <2>1. CASE run'[r].step = "extend" /\ run'[r].file \in Unsubmitted
    <3>1. file[run'[r].file].to <= ToDate /\ file[run'[r].file].state = "open"
      BY <2>1 DEF AloneInv, TableInv, WindowsHavePassed, Unsubmitted, Used
    <3> QED
      BY <1>2, <1>3, <2>1, <3>1 DEF TickFresh, OpenSteps
  <2>2. CASE run'[r].step = "latest" /\ Unsubmitted = {} /\ LatestTo < ToDate
    <3>1. \A i \in Used : file[i].to < ToDate
      <4> SUFFICES ASSUME NEW i \in Used PROVE file[i].to < ToDate
        OBVIOUS
      <4>1. file[i].to <= LatestTo /\ file[i].to \in Int /\ LatestTo \in Int
        BY <1>1, LatestToIsLatest DEF TypeOK, Used, Days
      <4> QED
        BY <1>3, <2>2, <4>1
    <3> QED
      BY <1>2, <1>3, <2>2, <3>1 DEF TickFresh, OpenSteps
  <2> QED
    BY <1>2, <2>1, <2>2
<1>5. run'[r] # Idle
  BY <1>2 DEF Idle
<1> QED
  BY <1>2, <1>4, <1>5, AloneKept

\* A tick that makes a row starts it where the last one ends.
LEMMA AloneReadLatest ==
    ASSUME ExtractInv, AloneInv, OneBusy, OneBusy', NEW r \in Runners, ReadLatest(r)
    PROVE  AloneInv'
<1>1. TypeOK /\ FirstRow
  BY DEF ExtractInv
<1>2. /\ run[r].step = "latest" /\ run'[r].step = "create"
      /\ run'[r].from = LatestTo /\ run'[r].to = run[r].to
      /\ run' = [run EXCEPT ![r] = run'[r]]
      /\ UNCHANGED <<day, lastHour, approved, numbered, file, sent, recorded>>
  BY <1>1, ReadLatestEffect
<1>3. PICK i \in Used : file[i].to = LatestTo
  BY <1>1, LatestToIsLatest
<1>4. ASSUME NEW j \in Used
      PROVE  j <= i
  <2>1. file[j].to <= file[i].to /\ file[j].to \in Int /\ file[i].to \in Int
        /\ i \in Files /\ j \in Files
    BY <1>1, <1>3, LatestToIsLatest DEF TypeOK, Used, Days
  <2>2. i < j => file[i].to < file[j].to
    BY <2>1 DEF AloneInv, TableInv, RowsInOrder
  <2> QED
    BY <2>1, <2>2 DEF Files
<1>5. TickFresh(run[r])
  BY DEF AloneInv, TicksFresh
<1>6. TickFresh(run'[r])
  BY <1>2, <1>3, <1>4, <1>5 DEF TickFresh, OpenSteps
<1>7. run[r] # Idle
  BY <1>2 DEF Idle
<1> QED
  BY <1>2, <1>6, <1>7, AloneKept

\* All payments of the window are numbered by now: the tick finds them all.
LEMMA AloneSelect ==
    ASSUME ExtractInv, AloneInv, OneBusy, OneBusy', NEW r \in Runners, Select(r)
    PROVE  AloneInv'
<1>1. TypeOK /\ HourIsAfterCutOff
  BY DEF ExtractInv
<1> DEFINE S == {p \in numbered : InWindow(p, run[r].from, run[r].to)}
<1>2. /\ run[r].step = "select"
      /\ run'[r].step \in {"mark", "send"}
      /\ run'[r].file = run[r].file /\ run'[r].payments = S
      /\ run'[r].from = run[r].from /\ run'[r].to = run[r].to
      /\ run' = [run EXCEPT ![r] = run'[r]]
      /\ UNCHANGED <<day, lastHour, approved, numbered, file, sent, recorded>>
  BY <1>1, SelectEffect
<1>3. TickFresh(run[r])
  BY DEF AloneInv, TicksFresh
<1>4. FoundAll(run'[r])
  <2> SUFFICES ASSUME IssuedInTime, NEW p \in Payments, InWindow(p, run[r].from, run[r].to)
               PROVE  p \in numbered
    BY <1>2 DEF FoundAll
  <2>1. approved[p] < run[r].to /\ run[r].to <= ToDate
    BY <1>3 DEF InWindow, TickFresh
  <2>2. approved[p] \in Int /\ run[r].to \in Int /\ ToDate \in Int
    BY <1>1, ToDatePassed DEF TypeOK, Runs, Days, NotYet
  <2>3. approved[p] < ToDate
    BY <2>1, <2>2
  <2> QED
    BY <2>3 DEF AloneInv, PassedAreNumbered
<1> HIDE DEF S
<1>5. TickFresh(run'[r])
  BY <1>2, <1>3, <1>4 DEF TickFresh, OpenSteps
<1>6. run[r] # Idle
  BY <1>2 DEF Idle
<1> QED
  BY <1>2, <1>5, <1>6, AloneKept

LEMMA AloneClean ==
    ASSUME ExtractInv, AloneInv, OneBusy, OneBusy', NEW r \in Runners, Clean(r)
    PROVE  AloneInv'
<1>1. /\ run[r].step = "clean" /\ run' = [run EXCEPT ![r].step = "mark"]
      /\ UNCHANGED <<day, lastHour, approved, numbered, file, sent, recorded>>
  BY DEF Clean
<1>2. /\ run'[r].step = "mark" /\ run'[r].file = run[r].file
      /\ run'[r].from = run[r].from /\ run'[r].to = run[r].to
      /\ run'[r].payments = run[r].payments
      /\ run' = [run EXCEPT ![r] = run'[r]]
  BY <1>1, StepEffect DEF ExtractInv
<1>3. TickFresh(run[r])
  BY DEF AloneInv, TicksFresh
<1>4. TickFresh(run'[r])
  BY <1>1, <1>2, <1>3 DEF TickFresh, OpenSteps, FoundAll
<1>5. run[r] # Idle
  BY <1>1 DEF Idle
<1> QED
  BY <1>1, <1>2, <1>4, <1>5, AloneKept

LEMMA AloneEnds ==
    ASSUME ExtractInv, AloneInv, OneBusy, OneBusy', NEW r \in Runners,
           Record(r) \/ Fail(r) \/ Crash(r)
    PROVE  AloneInv'
<1>1. /\ run[r] # Idle /\ run' = [run EXCEPT ![r] = Idle]
      /\ UNCHANGED <<day, lastHour, approved, numbered, file, sent>>
  BY DEF Record, Fail, Crash, Idle
<1>2. run'[r] = Idle /\ run' = [run EXCEPT ![r] = run'[r]]
  BY <1>1, EndEffect DEF ExtractInv
<1>3. TickFresh(run'[r])
  BY <1>2, IdleIsFresh
<1> QED
  BY <1>1, <1>2, <1>3, AloneKept

\* A file grows by the payments of the tick.
LEMMA AloneSend ==
    ASSUME ExtractInv, AloneInv, OneBusy, OneBusy', NEW r \in Runners, Send(r)
    PROVE  AloneInv'
<1>1. TypeOK /\ RowStepsHaveRows
  BY DEF ExtractInv
<1> PICK i \in Files : i = run[r].file
  BY <1>1, SendEffect
<1>2. /\ run[r].step = "send"
      /\ run' = [run EXCEPT ![r].step = "clean"]
      /\ \A j \in Files \ {i} : sent'[j] = sent[j]
      /\ UNCHANGED <<day, lastHour, approved, numbered, file, recorded>>
  BY <1>1, SendEffect
<1>3. /\ run'[r].step = "clean" /\ run'[r].file = run[r].file
      /\ run'[r].from = run[r].from /\ run'[r].to = run[r].to
      /\ run'[r].payments = run[r].payments
      /\ run' = [run EXCEPT ![r] = run'[r]]
  BY <1>1, <1>2, StepEffect
<1>4. TickFresh(run[r])
  BY DEF AloneInv, TicksFresh
<1>5. TickFresh(run'[r])
  BY <1>2, <1>3, <1>4 DEF TickFresh, OpenSteps, FoundAll
<1>6. run[r] # Idle
  BY <1>2 DEF Idle
<1>7. \A q \in Runners : TickFresh(run'[q])
  BY <1>1, <1>3, <1>5, <1>6, OthersIdle, IdleIsFresh
<1>8. TicksFresh'
  BY <1>2, <1>7 DEF TicksFresh, TickFresh, ToDate, Unsubmitted, Used, FoundAll, InWindow
<1>9. TableInv'
  BY <1>2
  DEF AloneInv, TableInv, RowsInOrder, WindowsTile, WindowsHavePassed, Used, Submitted, ToDate
<1>10. UnusedAreUnsent'
  <2>1. i \in Used
    BY <1>2, <1>4 DEF TickFresh, OpenSteps, Used
  <2> QED
    BY <1>2, <2>1 DEF AloneInv, UnusedAreUnsent, Used
<1>11. \A j \in Files, p \in Payments : sent[j][p] > 0 => sent'[j][p] > 0
  BY <1>1, SentGrows
<1>12. PassedAreNumbered' /\ NothingMissedInTime'
  BY <1>2, <1>11
  DEF AloneInv, PassedAreNumbered, NothingMissedInTime, NothingMissed, Submitted, ToDate, InWindow
<1> QED
  BY <1>8, <1>9, <1>10, <1>12 DEF AloneInv

\* The open row is the last one: a later end moves no other window.
LEMMA AloneExtend ==
    ASSUME ExtractInv, AloneInv, OneBusy, OneBusy', NEW r \in Runners, Extend(r)
    PROVE  AloneInv'
<1>1. TypeOK /\ RowStepsHaveRows
  BY DEF ExtractInv
<1> PICK i \in Files : i = run[r].file
  BY <1>1, ExtendEffect
<1>2. /\ run[r].step = "extend"
      /\ file'[i].state = file[i].state /\ file'[i].from = file[i].from
      /\ file'[i].to = run[r].to
      /\ \A j \in Files \ {i} : file'[j] = file[j]
      /\ run'[r].step = "select" /\ run'[r].file = i
      /\ run'[r].from = file[i].from /\ run'[r].to = run[r].to
      /\ run' = [run EXCEPT ![r] = run'[r]]
      /\ UNCHANGED <<day, lastHour, approved, numbered, sent, recorded>>
  BY <1>1, ExtendEffect
<1>3. TickFresh(run[r])
  BY DEF AloneInv, TicksFresh
<1>4. /\ file[i].state = "open" /\ file[i].to <= run[r].to /\ run[r].to <= ToDate
      /\ i \in Used /\ ~Submitted(i)
  BY <1>2, <1>3 DEF TickFresh, Used, Submitted
<1>5. /\ run[r].to \in Int
      /\ \A j \in Files : file[j].to \in Int /\ file[j].from \in Int
  BY <1>1 DEF TypeOK, Runs, Days
<1>6. \A j \in Used : j # i => j < i /\ file[j].to < file[i].to
  <2> SUFFICES ASSUME NEW j \in Used, j # i PROVE j < i /\ file[j].to < file[i].to
    OBVIOUS
  <2>1. j \in Files /\ ~(i < j)
    BY <1>4 DEF AloneInv, TableInv, RowsInOrder, Used
  <2> QED
    BY <1>4, <2>1 DEF AloneInv, TableInv, RowsInOrder, Files
<1>7. Used' = Used /\ \A j \in Files : Submitted(j)' <=> Submitted(j)
  BY <1>2 DEF Used, Submitted
<1>8. TableInv'
  <2>1. RowsInOrder'
    BY <1>2, <1>4, <1>5, <1>6, <1>7 DEF AloneInv, TableInv, RowsInOrder, Files
  <2>2. WindowsTile'
    <3> SUFFICES ASSUME NEW j \in Used \ {1}
                 PROVE  file'[j].from = file'[j - 1].to /\ file'[j].from <= file'[j].to
      BY <1>7 DEF WindowsTile
    <3>1. j \in Files /\ j - 1 \in Files /\ j - 1 \in Used
      BY DEF Used, Files, AloneInv, TableInv, RowsInOrder
    <3>2. file[j].from = file[j - 1].to /\ file[j].from <= file[j].to
      BY DEF AloneInv, TableInv, WindowsTile
    <3>3. j - 1 # i
      BY <1>6, <3>1 DEF Files
    <3>4. file'[j].from = file[j].from /\ file[j].to <= file'[j].to
      BY <1>2, <1>4, <1>5, <3>1
    <3>5. file'[j - 1].to = file[j - 1].to
      BY <1>2, <3>1, <3>3
    <3>6. file'[j].to \in Int
      BY <1>2, <1>5, <3>1
    <3> QED
      BY <1>5, <3>1, <3>2, <3>4, <3>5, <3>6
  <2>3. WindowsHavePassed'
    BY <1>2, <1>4, <1>7 DEF AloneInv, TableInv, WindowsHavePassed, ToDate, Used
  <2> QED
    BY <2>1, <2>2, <2>3 DEF TableInv
<1>9. UnusedAreUnsent' /\ PassedAreNumbered'
  BY <1>2, <1>7 DEF AloneInv, UnusedAreUnsent, PassedAreNumbered, ToDate
<1>10. TicksFresh'
  <2>1. run[r] # Idle
    BY <1>2 DEF Idle
  <2>2. \A q \in Runners \ {r} : run'[q] = Idle
    BY <1>1, <1>2, <2>1, OthersIdle
  <2>3. ToDate' = ToDate /\ 0 <= ToDate
    BY <1>2, ToDatePassed DEF ToDate, ExtractInv, Days
  <2>4. TickFresh(run[r])'
    BY <1>2, <1>4, <2>3 DEF TickFresh, OpenSteps
  <2>5. \A q \in Runners \ {r} : TickFresh(run[q])'
    BY <2>2, <2>3 DEF TickFresh, OpenSteps, Idle
  <2> QED
    BY <2>4, <2>5 DEF TicksFresh
<1>11. NothingMissedInTime'
  <2> SUFFICES ASSUME IssuedInTime, NEW j \in Files, NEW p \in Payments, Submitted(j)',
                      InWindow(p, file[j].from, file[j].to)'
               PROVE  sent'[j][p] > 0
    BY DEF NothingMissedInTime, NothingMissed
  <2>1. Submitted(j) /\ j # i
    BY <1>4, <1>7
  <2>2. InWindow(p, file[j].from, file[j].to)
    BY <1>2, <2>1 DEF InWindow
  <2> QED
    BY <1>2, <2>1, <2>2 DEF AloneInv, NothingMissedInTime, NothingMissed
<1> QED
  BY <1>8, <1>9, <1>10, <1>11 DEF AloneInv

\* The new row comes after the last one, and starts where that one ends.
LEMMA AloneCreate ==
    ASSUME ExtractInv, AloneInv, OneBusy, OneBusy', NEW r \in Runners, Create(r)
    PROVE  AloneInv'
<1>1. TypeOK
  BY DEF ExtractInv
<1>2. PICK i \in Files :
        /\ run[r].step = "create"
        /\ i \notin Used /\ \A j \in Files : j < i => j \in Used
        /\ file'[i].state = "open" /\ file'[i].from = run[r].from
        /\ file'[i].to = run[r].to
        /\ \A j \in Files \ {i} : file'[j] = file[j]
        /\ run'[r].step = "select" /\ run'[r].file = i
        /\ run'[r].from = run[r].from /\ run'[r].to = run[r].to
        /\ run' = [run EXCEPT ![r] = run'[r]]
        /\ UNCHANGED <<day, lastHour, approved, numbered, sent, recorded>>
  BY <1>1, CreateEffect
<1>3. TickFresh(run[r])
  BY DEF AloneInv, TicksFresh
<1>4. /\ Unsubmitted = {} /\ run[r].to <= ToDate
      /\ \A j \in Used : file[j].to < run[r].to
  BY <1>2, <1>3 DEF TickFresh
<1>5. /\ run[r].to \in Int /\ run[r].from \in Int
      /\ \A j \in Files : file[j].to \in Int /\ file[j].from \in Int
  BY <1>1 DEF TypeOK, Runs, Days
<1>6. \A j \in Used : j \in Files /\ j < i /\ Submitted(j)
  <2> SUFFICES ASSUME NEW j \in Used PROVE j \in Files /\ j < i /\ Submitted(j)
    OBVIOUS
  <2>1. j \in Files /\ j # i
    BY <1>2 DEF Used
  <2>2. ~(i < j)
    BY <1>2 DEF AloneInv, TableInv, RowsInOrder
  <2>3. file[j].state \in {"open", "submitted"}
    BY <1>1, <2>1 DEF TypeOK, Used
  <2> QED
    BY <1>4, <2>1, <2>2, <2>3 DEF Unsubmitted, Submitted, Files
<1>7. PICK last \in Used : file[last].to = run[r].from /\ \A j \in Used : j <= last
  BY <1>2, <1>3 DEF TickFresh
<1>8. Used' = Used \cup {i}
  BY <1>2 DEF Used
<1>9. \A j \in Files : Submitted(j)' <=> Submitted(j)
  BY <1>2 DEF Submitted, Used
<1>10. last = i - 1
  <2>1. last < i /\ last \in Files
    BY <1>6
  <2>2. i - 1 \in Files
    BY <2>1 DEF Files
  <2>3. i - 1 \in Used
    BY <1>2, <2>2 DEF Files
  <2> QED
    BY <1>7, <2>1, <2>3 DEF Files
<1>11. TableInv'
  <2>1. RowsInOrder'
    <3> SUFFICES ASSUME NEW k \in Used', NEW j \in Files, j < k
                 PROVE  j \in Used' /\ Submitted(j)' /\ file'[j].to < file'[k].to
      BY DEF RowsInOrder
    <3>1. CASE k = i
      <4>1. j \in Used /\ j # i /\ Submitted(j) /\ file[j].to < run[r].to
        BY <1>2, <1>4, <1>6, <3>1 DEF Files
      <4> QED
        BY <1>2, <1>8, <1>9, <3>1, <4>1
    <3>2. CASE k # i
      <4>1. k \in Used /\ k < i
        BY <1>6, <1>8, <3>2
      <4>2. j \in Used /\ Submitted(j) /\ file[j].to < file[k].to
        BY <4>1 DEF AloneInv, TableInv, RowsInOrder
      <4>3. j # i /\ k \in Files
        BY <1>2, <1>6, <4>1, <4>2
      <4> QED
        BY <1>2, <1>8, <1>9, <3>2, <4>2, <4>3
    <3> QED
      BY <3>1, <3>2
  <2>2. WindowsTile'
    <3> SUFFICES ASSUME NEW k \in Used' \ {1}
                 PROVE  file'[k].from = file'[k - 1].to /\ file'[k].from <= file'[k].to
      BY DEF WindowsTile
    <3>1. CASE k = i
      <4>1. file'[i - 1] = file[i - 1] /\ file[i - 1].to = run[r].from
        BY <1>2, <1>6, <1>7, <1>10 DEF Files
      <4>2. run[r].from < run[r].to
        BY <1>4, <1>7
      <4> QED
        BY <1>2, <1>5, <3>1, <4>1, <4>2
    <3>2. CASE k # i
      <4>1. k \in Used /\ k \in Files /\ k < i
        BY <1>6, <1>8, <3>2
      <4>2. k - 1 \in Files \ {i}
        BY <4>1 DEF Files
      <4>3. file[k].from = file[k - 1].to /\ file[k].from <= file[k].to
        BY <4>1 DEF AloneInv, TableInv, WindowsTile
      <4> QED
        BY <1>2, <3>2, <4>1, <4>2, <4>3
    <3> QED
      BY <3>1, <3>2
  <2>3. WindowsHavePassed'
    <3>1. ToDate' = ToDate
      BY <1>2 DEF ToDate
    <3>2. \A j \in Used : file'[j] = file[j]
      BY <1>2, <1>6
    <3> QED
      BY <1>2, <1>4, <1>8, <3>1, <3>2 DEF AloneInv, TableInv, WindowsHavePassed
  <2> QED
    BY <2>1, <2>2, <2>3 DEF TableInv
<1>12. UnusedAreUnsent' /\ PassedAreNumbered'
  BY <1>2, <1>8 DEF AloneInv, UnusedAreUnsent, PassedAreNumbered, ToDate
<1>13. TicksFresh'
  <2>1. run[r] # Idle
    BY <1>2 DEF Idle
  <2>2. \A q \in Runners \ {r} : run'[q] = Idle
    BY <1>1, <1>2, <2>1, OthersIdle
  <2>3. ToDate' = ToDate /\ 0 <= ToDate
    BY <1>2, ToDatePassed DEF ToDate, ExtractInv, Days
  <2>4. TickFresh(run[r])'
    BY <1>2, <1>4, <2>3 DEF TickFresh, OpenSteps
  <2>5. \A q \in Runners \ {r} : TickFresh(run[q])'
    BY <2>2, <2>3 DEF TickFresh, OpenSteps, Idle
  <2> QED
    BY <2>4, <2>5 DEF TicksFresh
<1>14. NothingMissedInTime'
  <2> SUFFICES ASSUME IssuedInTime, NEW j \in Files, NEW p \in Payments, Submitted(j)',
                      InWindow(p, file[j].from, file[j].to)'
               PROVE  sent'[j][p] > 0
    BY DEF NothingMissedInTime, NothingMissed
  <2>1. Submitted(j) /\ j # i
    BY <1>2, <1>9 DEF Submitted
  <2>2. InWindow(p, file[j].from, file[j].to)
    BY <1>2, <2>1 DEF InWindow
  <2> QED
    BY <1>2, <2>1, <2>2 DEF AloneInv, NothingMissedInTime, NothingMissed
<1> QED
  BY <1>11, <1>12, <1>13, <1>14 DEF AloneInv

\* A row is submitted when its file holds all payments of its window.
LEMMA AloneMark ==
    ASSUME ExtractInv, AloneInv, OneBusy, OneBusy', NEW r \in Runners, MarkSubmitted(r)
    PROVE  AloneInv'
<1>1. TypeOK /\ RowStepsHaveRows
  BY DEF ExtractInv
<1> PICK i \in Files : i = run[r].file
  BY <1>1, MarkEffect
<1>2. /\ run[r].step = "mark"
      /\ file'[i].state = "submitted" /\ file'[i].from = file[i].from
      /\ file'[i].to = file[i].to
      /\ \A j \in Files \ {i} : file'[j] = file[j]
      /\ run' = [run EXCEPT ![r].step = "record"]
      /\ UNCHANGED <<day, lastHour, approved, numbered, sent, recorded>>
  BY <1>1, MarkEffect
<1>3. /\ run'[r].step = "record" /\ run'[r].to = run[r].to
      /\ run' = [run EXCEPT ![r] = run'[r]]
  BY <1>1, <1>2, StepEffect
<1>4. TickFresh(run[r])
  BY DEF AloneInv, TicksFresh
<1>5. /\ file[i].state = "open" /\ run[r].to <= ToDate
      /\ run[r].from = file[i].from /\ run[r].to = file[i].to
      /\ FoundAll(run[r])
      /\ i \in Used
  BY <1>2, <1>4 DEF TickFresh, OpenSteps, Used
<1>6. /\ Used' = Used
      /\ \A j \in Files : Submitted(j) => Submitted(j)'
      /\ \A j \in Files \ {i} : Submitted(j)' => Submitted(j)
      /\ \A j \in Files : file'[j].to = file[j].to /\ file'[j].from = file[j].from
  BY <1>2, <1>5 DEF Used, Submitted
<1>7. TableInv'
  <2>1. RowsInOrder'
    BY <1>6 DEF AloneInv, TableInv, RowsInOrder, Used
  <2>2. WindowsTile'
    <3> SUFFICES ASSUME NEW k \in Used \ {1}
                 PROVE  file'[k].from = file'[k - 1].to /\ file'[k].from <= file'[k].to
      BY <1>6 DEF WindowsTile
    <3>1. k \in Files /\ k - 1 \in Files
      BY DEF Used, Files
    <3>2. file[k].from = file[k - 1].to /\ file[k].from <= file[k].to
      BY DEF AloneInv, TableInv, WindowsTile
    <3> QED
      BY <1>6, <3>1, <3>2
  <2>3. WindowsHavePassed'
    BY <1>2, <1>6 DEF AloneInv, TableInv, WindowsHavePassed, ToDate, Used
  <2> QED
    BY <2>1, <2>2, <2>3 DEF TableInv
<1>8. UnusedAreUnsent' /\ PassedAreNumbered'
  BY <1>2, <1>6 DEF AloneInv, UnusedAreUnsent, PassedAreNumbered, ToDate
<1>9. TicksFresh'
  <2>1. run[r] # Idle
    BY <1>2 DEF Idle
  <2>2. \A q \in Runners \ {r} : run'[q] = Idle
    BY <1>1, <1>3, <2>1, OthersIdle
  <2>3. ToDate' = ToDate /\ 0 <= ToDate
    BY <1>2, ToDatePassed DEF ToDate, ExtractInv, Days
  <2>4. TickFresh(run[r])'
    BY <1>3, <1>5, <2>3 DEF TickFresh, OpenSteps
  <2>5. \A q \in Runners \ {r} : TickFresh(run[q])'
    BY <2>2, <2>3 DEF TickFresh, OpenSteps, Idle
  <2> QED
    BY <2>4, <2>5 DEF TicksFresh
<1>10. NothingMissedInTime'
  <2> SUFFICES ASSUME IssuedInTime, NEW j \in Files, NEW p \in Payments, Submitted(j)',
                      InWindow(p, file[j].from, file[j].to)'
               PROVE  sent'[j][p] > 0
    BY DEF NothingMissedInTime, NothingMissed
  <2>1. InWindow(p, file[j].from, file[j].to)
    BY <1>2, <1>6 DEF InWindow
  <2>2. CASE j = i
    <3>1. p \in run[r].payments
      BY <1>5, <2>1, <2>2 DEF FoundAll
    <3> QED
      BY <1>2, <2>2, <3>1 DEF ExtractInv, SentBeforeRecord
  <2>3. CASE j # i
    BY <1>2, <1>6, <2>1, <2>3 DEF AloneInv, NothingMissedInTime, NothingMissed
  <2> QED
    BY <2>2, <2>3
<1> QED
  BY <1>7, <1>8, <1>9, <1>10 DEF AloneInv

LEMMA AloneStep ==
    ASSUME ExtractInv, AloneInv, OneBusy, OneBusy', [Next]_vars
    PROVE  AloneInv'
<1>1. CASE PassCutOff \/ PassHour \/ \E p \in Payments : Approve(p) \/ Issue(p)
  BY <1>1, AloneClock
<1>2. ASSUME NEW r \in Runners, Tick(r) \/ Work(r) \/ Crash(r)
      PROVE  AloneInv'
  BY <1>2, AloneTick, AloneExtend, AloneReadLatest, AloneCreate, AloneSelect, AloneSend,
     AloneClean, AloneMark, AloneEnds DEF Work
<1>3. CASE UNCHANGED vars
  <2>1. ToDate' = ToDate /\ Used' = Used /\ Unsubmitted' = Unsubmitted
    BY <1>3 DEF vars, ToDate, Used, Unsubmitted
  <2> QED
    BY <1>3, <2>1
    DEF vars, AloneInv, TableInv, RowsInOrder, WindowsTile, WindowsHavePassed,
        UnusedAreUnsent, PassedAreNumbered, TicksFresh, TickFresh, FoundAll,
        NothingMissedInTime, NothingMissed, Submitted, InWindow
<1> QED
  BY <1>1, <1>2, <1>3 DEF Next

LEMMA AloneInit ==
    ASSUME Init
    PROVE  AloneInv /\ OneBusy
<1>1. Used = {1} /\ Unsubmitted = {} /\ file[1].to = 0
  BY DEF Init, Used, Unsubmitted, Unused, Files
<1>2. ToDate = 0
  BY DEF Init, ToDate
<1>3. TableInv
  BY <1>1, <1>2 DEF TableInv, RowsInOrder, WindowsTile, WindowsHavePassed, Files
<1>4. UnusedAreUnsent
  BY DEF Init, UnusedAreUnsent
<1>5. PassedAreNumbered
  BY <1>2 DEF Init, PassedAreNumbered, NotYet
<1>6. TicksFresh /\ OneBusy
  BY <1>2 DEF Init, TicksFresh, TickFresh, OneBusy, Idle, OpenSteps
<1>7. NothingMissedInTime
  BY DEF Init, NothingMissedInTime, NothingMissed, InWindow, Unused, NotYet
<1> QED
  BY <1>3, <1>4, <1>5, <1>6, <1>7 DEF AloneInv

-----------------------------------------------------------------------------
(***************************************************************************)
(* Ticks that neither overlap nor fail: no row stays open after its tick,  *)
(* and no window is extended.                                              *)
(***************************************************************************)

\* A payment is once in the file of the window it was approved in.
SentInWindow ==
    \A i \in Files, p \in Payments :
        sent[i][p] > 0 => InWindow(p, file[i].from, file[i].to) /\ sent[i][p] = 1

\* A row is open as long as a tick works on it.
OpenIsWorkedOn ==
    \A i \in Unsubmitted : \E r \in Runners : run[r].file = i /\ run[r].step \in OpenSteps

\* No tick takes up a row, and nothing was sent before a tick sends.
TickCalm(w) ==
    /\ w.step # "extend"
    /\ w.step \in {"select", "send"} => \A p \in Payments : sent[w.file][p] = 0
    /\ w.step = "send" => \A p \in w.payments : InWindow(p, w.from, w.to)

TicksCalm == \A r \in Runners : TickCalm(run[r])

CalmInv == SentInWindow /\ OpenIsWorkedOn /\ TicksCalm

LEMMA CalmInit ==
    ASSUME Init
    PROVE  CalmInv
  BY DEF Init, CalmInv, SentInWindow, OpenIsWorkedOn, Unsubmitted, TicksCalm, TickCalm, Idle,
         Unused, Files

\* The steps of a tick that leave the rows and the files at GARMS alone.
LEMMA CalmKept ==
    ASSUME TypeOK, CalmInv, NEW r \in Runners, run'[r] \in Runs, run' = [run EXCEPT ![r] = run'[r]],
           run[r].step \in OpenSteps =>
              run'[r].step \in OpenSteps /\ run'[r].file = run[r].file,
           TickCalm(run'[r]), UNCHANGED <<approved, file, sent>>
    PROVE  CalmInv'
<1>1. \A q \in Runners \ {r} : run'[q] = run[q]
  BY RunTyped
<1>2. SentInWindow'
  BY DEF CalmInv, SentInWindow, InWindow
<1>3. OpenIsWorkedOn'
  BY <1>1 DEF CalmInv, OpenIsWorkedOn, Unsubmitted
<1>4. TicksCalm'
  BY <1>1 DEF CalmInv, TicksCalm, TickCalm, InWindow
<1> QED
  BY <1>2, <1>3, <1>4 DEF CalmInv

\* What was approved stays in its window.
LEMMA CalmClock ==
    ASSUME TypeOK, CalmInv,
           PassCutOff \/ PassHour \/ \E p \in Payments : Approve(p) \/ Issue(p)
    PROVE  CalmInv'
<1>1. UNCHANGED <<file, sent, run>>
  BY DEF PassCutOff, PassHour, Approve, Issue
<1>2. \A p \in Payments, from, to \in Days : InWindow(p, from, to) => InWindow(p, from, to)'
  <2>1. CASE approved' = approved
    BY <2>1 DEF InWindow
  <2>2. ASSUME NEW p \in Payments, Approve(p)
        PROVE  \A q \in Payments, from, to \in Days :
                 InWindow(q, from, to) => InWindow(q, from, to)'
    <3>1. approved[p] = NotYet /\ \A q \in Payments \ {p} : approved'[q] = approved[q]
      BY <2>2 DEF Approve, TypeOK
    <3> QED
      BY <3>1 DEF InWindow, NotYet, Days
  <2> QED
    BY <2>1, <2>2 DEF PassCutOff, PassHour, Issue
<1>3. \A i \in Files : file[i].from \in Days /\ file[i].to \in Days
  BY DEF TypeOK
<1>4. \A r \in Runners :
        run[r].from \in Days /\ run[r].to \in Days /\ run[r].payments \subseteq Payments
  BY DEF TypeOK, Runs
<1>5. SentInWindow'
  BY <1>1, <1>2, <1>3 DEF CalmInv, SentInWindow
<1>6. OpenIsWorkedOn'
  BY <1>1 DEF CalmInv, OpenIsWorkedOn, Unsubmitted
<1>7. TicksCalm'
  BY <1>1, <1>2, <1>4 DEF CalmInv, TicksCalm, TickCalm
<1> QED
  BY <1>5, <1>6, <1>7 DEF CalmInv

\* A tick starts when no other is under way, so it finds no open row.
LEMMA CalmTick ==
    ASSUME ExtractInv, CalmInv, OneBusy', NEW r \in Runners, Tick(r)
    PROVE  CalmInv'
<1>1. TypeOK /\ HourIsAfterCutOff
  BY DEF ExtractInv
<1>2. /\ run[r] = Idle /\ run'[r].step \in {"extend", "latest"}
      /\ run'[r].step = "extend" => Unsubmitted # {}
      /\ run'[r] \in Runs /\ run' = [run EXCEPT ![r] = run'[r]]
      /\ UNCHANGED <<approved, file, sent>>
  BY <1>1, TickEffect
<1>3. run'[r] # Idle /\ \A q \in Runners \ {r} : run'[q] = run[q]
  BY <1>1, <1>2, RunTyped DEF Idle
<1>4. Unsubmitted = {}
  <2> SUFFICES ASSUME NEW i \in Unsubmitted
               PROVE  FALSE
    OBVIOUS
  <2>1. PICK q \in Runners : run[q].step \in OpenSteps
    BY DEF CalmInv, OpenIsWorkedOn
  <2>2. run[q] # Idle
    BY <2>1 DEF Idle, OpenSteps
  <2>3. q # r /\ run'[q] # Idle
    BY <1>2, <1>3, <2>2
  <2> QED
    BY <1>3, <2>3 DEF OneBusy
<1> QED
  BY <1>1, <1>2, <1>4, CalmKept DEF TickCalm, Idle, OpenSteps

LEMMA CalmSelect ==
    ASSUME ExtractInv, CalmInv, NEW r \in Runners, Select(r)
    PROVE  CalmInv'
<1> DEFINE S == {p \in numbered : InWindow(p, run[r].from, run[r].to)}
<1>1. TypeOK
  BY DEF ExtractInv
<1>2. /\ run[r].step = "select"
      /\ run'[r].step = (IF S = {} THEN "mark" ELSE "send")
      /\ run'[r].file = run[r].file
      /\ run'[r].from = run[r].from /\ run'[r].to = run[r].to
      /\ run'[r].payments = S
      /\ run'[r] \in Runs
      /\ run' = [run EXCEPT ![r] = run'[r]]
      /\ UNCHANGED <<approved, file, sent>>
  BY <1>1, SelectEffect
<1>3. \A p \in S : InWindow(p, run[r].from, run[r].to)
  OBVIOUS
<1>4. \A p \in Payments : sent[run[r].file][p] = 0
  BY <1>2 DEF CalmInv, TicksCalm, TickCalm
<1> HIDE DEF S
<1>5. TickCalm(run'[r]) /\ run'[r].step \in OpenSteps
  BY <1>2, <1>3, <1>4 DEF TickCalm, OpenSteps
<1> QED
  BY <1>1, <1>2, <1>5, CalmKept

\* The payments of the window are put into the file of a row that has none.
LEMMA CalmSend ==
    ASSUME ExtractInv, AloneInv, CalmInv, OneBusy, NEW r \in Runners, Send(r)
    PROVE  CalmInv'
<1>1. TypeOK /\ RowStepsHaveRows
  BY DEF ExtractInv
<1> PICK i \in Files : i = run[r].file
  BY <1>1, SendEffect
<1>2. /\ run[r].step = "send" /\ run' = [run EXCEPT ![r].step = "clean"]
      /\ \A p \in Payments :
           /\ sent[i][p] \in 0..MaxCopies
           /\ sent'[i][p] = IF p \in run[r].payments /\ sent[i][p] < MaxCopies
                            THEN sent[i][p] + 1 ELSE sent[i][p]
      /\ \A j \in Files \ {i} : sent'[j] = sent[j]
      /\ UNCHANGED <<approved, file>>
  BY <1>1, SendEffect
<1>3. /\ run'[r].step = "clean" /\ run'[r].file = i
      /\ run' = [run EXCEPT ![r] = run'[r]] /\ run'[r] \in Runs
  BY <1>1, <1>2, StepEffect
<1>4. \A q \in Runners \ {r} : run'[q] = run[q]
  BY <1>1, <1>3, RunTyped
<1>5. /\ \A p \in Payments : sent[i][p] = 0
      /\ \A p \in run[r].payments : InWindow(p, run[r].from, run[r].to)
  BY <1>2 DEF CalmInv, TicksCalm, TickCalm
<1>6. run[r].from = file[i].from /\ run[r].to = file[i].to
  BY <1>2 DEF AloneInv, TicksFresh, TickFresh, OpenSteps
<1>7. SentInWindow'
  <2> SUFFICES ASSUME NEW j \in Files, NEW p \in Payments, sent'[j][p] > 0
               PROVE  InWindow(p, file[j].from, file[j].to) /\ sent'[j][p] = 1
    BY <1>2 DEF SentInWindow, InWindow
  <2>1. CASE j = i
    <3>1. p \in run[r].payments /\ sent'[i][p] = 1
      BY <1>2, <1>5, <2>1
    <3> QED
      BY <1>5, <1>6, <2>1, <3>1
  <2>2. CASE j # i
    BY <1>2, <2>2 DEF CalmInv, SentInWindow
  <2> QED
    BY <2>1, <2>2
<1>8. OpenIsWorkedOn'
  BY <1>2, <1>3, <1>4 DEF CalmInv, OpenIsWorkedOn, Unsubmitted, OpenSteps
<1>9. TicksCalm'
  <2>1. run[r] # Idle
    BY <1>2 DEF Idle
  <2>2. \A q \in Runners \ {r} : run'[q] = Idle
    BY <1>4, <2>1 DEF OneBusy
  <2> QED
    BY <1>3, <2>2 DEF TicksCalm, TickCalm, Idle
<1> QED
  BY <1>7, <1>8, <1>9 DEF CalmInv

\* The new row has no file at GARMS yet.
LEMMA CalmCreate ==
    ASSUME ExtractInv, AloneInv, CalmInv, NEW r \in Runners, Create(r)
    PROVE  CalmInv'
<1>1. TypeOK
  BY DEF ExtractInv
<1>2. PICK i \in Files :
        /\ run[r].step = "create" /\ i \notin Used
        /\ file'[i].state = "open"
        /\ \A j \in Files \ {i} : file'[j] = file[j]
        /\ run'[r].step = "select" /\ run'[r].file = i
        /\ run'[r] \in Runs
        /\ run' = [run EXCEPT ![r] = run'[r]]
        /\ UNCHANGED <<approved, sent>>
  BY <1>1, CreateEffect
<1>3. \A q \in Runners \ {r} : run'[q] = run[q]
  BY <1>1, <1>2, RunTyped
<1>4. \A p \in Payments : sent[i][p] = 0
  BY <1>1, <1>2 DEF AloneInv, UnusedAreUnsent, TypeOK
<1>5. SentInWindow'
  <2> SUFFICES ASSUME NEW j \in Files, NEW p \in Payments, sent[j][p] > 0
               PROVE  InWindow(p, file[j].from, file[j].to)' /\ sent[j][p] = 1
    BY <1>2 DEF SentInWindow
  <2>1. j # i
    BY <1>4
  <2> QED
    BY <1>2, <2>1 DEF CalmInv, SentInWindow, InWindow
<1>6. OpenIsWorkedOn'
  <2> SUFFICES ASSUME NEW j \in Files, file'[j].state = "open"
               PROVE  \E q \in Runners : run'[q].file = j /\ run'[q].step \in OpenSteps
    BY DEF OpenIsWorkedOn, Unsubmitted
  <2>1. CASE j = i
    BY <1>2, <2>1 DEF OpenSteps
  <2>2. CASE j # i
    <3>1. PICK q \in Runners : run[q].file = j /\ run[q].step \in OpenSteps
      BY <1>2, <2>2 DEF CalmInv, OpenIsWorkedOn, Unsubmitted
    <3> QED
      BY <1>2, <1>3, <3>1 DEF OpenSteps
  <2> QED
    BY <2>1, <2>2
<1>7. TicksCalm'
  BY <1>2, <1>3, <1>4 DEF CalmInv, TicksCalm, TickCalm, InWindow
<1> QED
  BY <1>5, <1>6, <1>7 DEF CalmInv

LEMMA CalmMark ==
    ASSUME ExtractInv, CalmInv, NEW r \in Runners, MarkSubmitted(r)
    PROVE  CalmInv'
<1>1. TypeOK /\ RowStepsHaveRows
  BY DEF ExtractInv
<1> PICK i \in Files : i = run[r].file
  BY <1>1, MarkEffect
<1>2. /\ run[r].step = "mark" /\ file'[i].state = "submitted"
      /\ file'[i].from = file[i].from /\ file'[i].to = file[i].to
      /\ \A j \in Files \ {i} : file'[j] = file[j]
      /\ run' = [run EXCEPT ![r].step = "record"]
      /\ UNCHANGED <<approved, sent>>
  BY <1>1, MarkEffect
<1>3. run'[r].step = "record" /\ run' = [run EXCEPT ![r] = run'[r]] /\ run'[r] \in Runs
  BY <1>1, <1>2, StepEffect
<1>4. \A q \in Runners \ {r} : run'[q] = run[q]
  BY <1>1, <1>3, RunTyped
<1>5. SentInWindow'
  BY <1>2 DEF CalmInv, SentInWindow, InWindow
<1>6. OpenIsWorkedOn'
  <2> SUFFICES ASSUME NEW j \in Files, file'[j].state = "open"
               PROVE  \E q \in Runners : run'[q].file = j /\ run'[q].step \in OpenSteps
    BY DEF OpenIsWorkedOn, Unsubmitted
  <2>1. j # i
    BY <1>2
  <2>2. PICK q \in Runners : run[q].file = j /\ run[q].step \in OpenSteps
    BY <1>2, <2>1 DEF CalmInv, OpenIsWorkedOn, Unsubmitted
  <2> QED
    BY <1>4, <2>1, <2>2
<1>7. TicksCalm'
  BY <1>2, <1>3, <1>4 DEF CalmInv, TicksCalm, TickCalm, InWindow
<1> QED
  BY <1>5, <1>6, <1>7 DEF CalmInv

\* The steps of the extract when nothing fails.
LEMMA CalmNext ==
    ASSUME Calm!Next
    PROVE  \/ PassCutOff \/ PassHour
           \/ \E p \in Payments : Approve(p) \/ Issue(p)
           \/ \E r \in Runners :
                \/ Tick(r) \/ Extend(r) \/ ReadLatest(r) \/ Create(r) \/ Select(r)
                \/ Send(r) \/ Clean(r) \/ MarkSubmitted(r) \/ Record(r)
<1>1. CASE Calm!PassCutOff \/ Calm!PassHour
  BY <1>1 DEF Calm!PassCutOff, Calm!PassHour, PassCutOff, PassHour
<1>2. ASSUME NEW p \in Payments, Calm!Approve(p) \/ Calm!Issue(p)
      PROVE  Approve(p) \/ Issue(p)
  BY <1>2 DEF Calm!Approve, Calm!Issue, Approve, Issue, Calm!NotYet, NotYet
<1>3. ASSUME NEW r \in Runners, Calm!Tick(r) \/ Calm!Work(r) \/ Calm!Crash(r)
      PROVE  \/ Tick(r) \/ Extend(r) \/ ReadLatest(r) \/ Create(r) \/ Select(r)
             \/ Send(r) \/ Clean(r) \/ MarkSubmitted(r) \/ Record(r)
  <2>1. /\ Calm!Idle = Idle /\ Calm!Files = Files /\ Calm!Used = Used
        /\ Calm!Unsubmitted = Unsubmitted /\ Calm!ToDate = ToDate
        /\ Calm!LatestTo = LatestTo
    BY DEF Calm!Idle, Idle, Calm!NoFile, NoFile, Calm!Files, Files, Calm!Used, Used,
           Calm!Unsubmitted, Unsubmitted, Calm!ToDate, ToDate, Calm!LatestTo, LatestTo,
           Calm!Max, Max
  <2>2. CASE Calm!Tick(r)
    BY <2>1, <2>2 DEF Calm!Tick, Tick
  <2>3. CASE Calm!Extend(r) \/ Calm!ReadLatest(r)
    BY <2>1, <2>3 DEF Calm!Extend, Extend, Calm!ReadLatest, ReadLatest
  <2>4. CASE Calm!Create(r)
    BY <2>1, <2>4 DEF Calm!Create, Create
  <2>5. CASE Calm!Select(r)
    BY <2>5 DEF Calm!Select, Select, Calm!InWindow, InWindow
  <2>6. CASE Calm!Send(r)
    BY <2>6 DEF Calm!Send, Send, Calm!Min, Min
  <2>7. CASE Calm!Clean(r) \/ Calm!MarkSubmitted(r)
    BY <2>7 DEF Calm!Clean, Clean, Calm!MarkSubmitted, MarkSubmitted
  <2>8. CASE Calm!Record(r)
    BY <2>1, <2>8 DEF Calm!Record, Record, Calm!SavedIds, SavedIds
  <2>9. ~Calm!Fail(r) /\ ~Calm!Crash(r)
    BY DEF Calm!Fail, Calm!Crash
  <2> QED
    BY <1>3, <2>2, <2>3, <2>4, <2>5, <2>6, <2>7, <2>8, <2>9 DEF Calm!Work
<1> QED
  BY <1>1, <1>2, <1>3 DEF Calm!Next

LEMMA CalmStep ==
    ASSUME ExtractInv, AloneInv, CalmInv, OneBusy, OneBusy', Calm!Next
    PROVE  CalmInv' /\ Next
<1>1. TypeOK /\ FirstRow
  BY DEF ExtractInv
<1>2. CASE PassCutOff \/ PassHour \/ \E p \in Payments : Approve(p) \/ Issue(p)
  BY <1>1, <1>2, CalmClock DEF Next
<1>3. ASSUME NEW r \in Runners,
             \/ Tick(r) \/ Extend(r) \/ ReadLatest(r) \/ Create(r) \/ Select(r)
             \/ Send(r) \/ Clean(r) \/ MarkSubmitted(r) \/ Record(r)
      PROVE  CalmInv'
  <2>1. ~Extend(r)
    BY DEF CalmInv, TicksCalm, TickCalm, Extend
  <2>2. CASE ReadLatest(r)
    <3>1. /\ run[r].step = "latest" /\ run'[r].step = "create"
          /\ run'[r] \in Runs /\ run' = [run EXCEPT ![r] = run'[r]]
          /\ UNCHANGED <<approved, file, sent>>
      BY <1>1, <2>2, ReadLatestEffect
    <3> QED
      BY <1>1, <3>1, CalmKept DEF TickCalm, OpenSteps
  <2>3. CASE Clean(r)
    <3>1. /\ run[r].step = "clean" /\ run' = [run EXCEPT ![r].step = "mark"]
          /\ UNCHANGED <<approved, file, sent>>
      BY <2>3 DEF Clean
    <3>2. /\ run'[r].step = "mark" /\ run'[r].file = run[r].file
          /\ run'[r] \in Runs /\ run' = [run EXCEPT ![r] = run'[r]]
      BY <1>1, <3>1, StepEffect
    <3> QED
      BY <1>1, <3>1, <3>2, CalmKept DEF TickCalm, OpenSteps
  <2>4. CASE Record(r)
    <3>1. /\ run[r].step = "record" /\ run' = [run EXCEPT ![r] = Idle]
          /\ UNCHANGED <<approved, file, sent>>
      BY <2>4 DEF Record
    <3>2. run'[r] = Idle /\ run'[r] \in Runs /\ run' = [run EXCEPT ![r] = run'[r]]
      BY <1>1, <3>1, EndEffect
    <3>3. run'[r].step = "idle"
      BY <3>2 DEF Idle
    <3> QED
      BY <1>1, <3>1, <3>2, <3>3, CalmKept DEF TickCalm, OpenSteps
  <2> QED
    BY <1>3, <2>1, <2>2, <2>3, <2>4, CalmTick, CalmCreate, CalmSelect, CalmSend, CalmMark
<1> QED
  BY <1>2, <1>3, CalmNext DEF Next, Work

\* The windows of two rows are disjoint: a payment is in the file of one row.
LEMMA CalmSentOnce ==
    ASSUME ExtractInv, AloneInv, CalmInv
    PROVE  SentOnce
<1>1. TypeOK
  BY DEF ExtractInv
<1>2. ASSUME NEW i \in Files, NEW j \in Files, NEW p \in Payments,
             sent[i][p] > 0, sent[j][p] > 0, j < i
      PROVE  FALSE
  <2>1. /\ InWindow(p, file[i].from, file[i].to) /\ InWindow(p, file[j].from, file[j].to)
        /\ i \in Used /\ j \in Used
    BY <1>2 DEF CalmInv, SentInWindow, AloneInv, UnusedAreUnsent
  <2>2. i \in Used \ {1} /\ i - 1 \in Files /\ j <= i - 1
    BY <1>2, <2>1 DEF Files
  <2>3. i - 1 \in Used
    BY <1>2, <2>2 DEF AloneInv, TableInv, RowsInOrder, Files
  <2>4. file[i].from = file[i - 1].to
    BY <2>2 DEF AloneInv, TableInv, WindowsTile
  <2>5. j = i - 1 \/ file[j].to < file[i - 1].to
    BY <2>2, <2>3 DEF AloneInv, TableInv, RowsInOrder, Files
  <2>6. approved[p] \in Int /\ file[j].to \in Int /\ file[i - 1].to \in Int
    BY <1>1, <2>2 DEF TypeOK, Days, NotYet
  <2> QED
    BY <2>1, <2>4, <2>5, <2>6 DEF InWindow
<1>3. \A i, j \in Files : i = j \/ i < j \/ j < i
  BY DEF Files
<1> QED
  BY <1>2, <1>3 DEF SentOnce, CalmInv, SentInWindow

-----------------------------------------------------------------------------
(* The runs that the initial state chooses                                 *)

LEMMA AtMostOneIsOneBusy ==
    ASSUME IsFiniteSet(Runners)
    PROVE  AtMostOneBusy => OneBusy
<1> SUFFICES ASSUME AtMostOneBusy, NEW s \in Runners, NEW u \in Runners,
                    run[s] # Idle, run[u] # Idle, s # u
             PROVE  FALSE
  BY DEF OneBusy
<1> DEFINE busy == {r \in Runners : run[r] # Idle}
           one == {s}
           two == one \cup {u}
<1>1. IsFiniteSet(busy)
  BY FS_Subset
<1>2. IsFiniteSet(one) /\ Cardinality(one) = 1 /\ u \notin one
  BY FS_Singleton
<1>3. two \subseteq busy
  OBVIOUS
<1>4. IsFiniteSet(two) /\ Cardinality(two) = 2
  <2> HIDE DEF one
  <2>1. IsFiniteSet(two) /\ Cardinality(two) = Cardinality(one) + 1
    BY <1>2, FS_AddElement
  <2> QED
    BY <1>2, <2>1
<1> HIDE DEF two
<1>5. Cardinality(two) <= Cardinality(busy) /\ Cardinality(busy) \in Nat
  BY <1>1, <1>3, FS_Subset, FS_CardinalityType
<1> QED
  BY <1>4, <1>5 DEF AtMostOneBusy

GarmsInv ==
    /\ ExtractInv
    /\ part \in ExtractsAlone => AloneInv /\ OneBusy
    /\ part = "calm" => CalmInv

LEMMA GarmsInvInit == GarmsInit => GarmsInv
  BY ExtractInit, AloneInit, CalmInit DEF GarmsInit, GarmsInv

LEMMA GarmsInvStep ==
    ASSUME GarmsInv, [GarmsNext]_garmsVars, AtMostOneBusy' => OneBusy'
    PROVE  GarmsInv'
<1>1. ExtractInv /\ part' = part
  BY DEF GarmsInv, GarmsNext, garmsVars
<1>2. CASE part = "overlap" /\ Next
  BY <1>1, <1>2, ExtractStep DEF GarmsInv, ExtractsAlone
<1>3. CASE part = "alone" /\ Next /\ AtMostOneBusy'
  BY <1>1, <1>3, ExtractStep, AloneStep DEF GarmsInv, ExtractsAlone
<1>4. CASE part = "calm" /\ Calm!Next /\ AtMostOneBusy'
  <2>1. AloneInv /\ CalmInv /\ OneBusy /\ OneBusy'
    BY <1>4 DEF GarmsInv, ExtractsAlone
  <2>2. CalmInv' /\ Next
    BY <1>1, <1>4, <2>1, CalmStep
  <2>3. ExtractInv' /\ AloneInv'
    BY <1>1, <2>1, <2>2, ExtractStep, AloneStep
  <2> QED
    BY <2>1, <2>2, <2>3 DEF GarmsInv
<1>5. CASE UNCHANGED vars
  <2>1. ExtractInv'
    BY <1>1, <1>5, ExtractStep
  <2>2. OneBusy => OneBusy'
    BY <1>5 DEF vars, OneBusy
  <2>3. part \in ExtractsAlone => AloneInv' /\ OneBusy'
    BY <1>5, <2>2, AloneStep DEF GarmsInv
  <2>4. CalmInv => CalmInv'
    BY <1>5 DEF vars, CalmInv, SentInWindow, InWindow, OpenIsWorkedOn, Unsubmitted, TicksCalm,
                TickCalm
  <2> QED
    BY <1>1, <2>1, <2>3, <2>4 DEF GarmsInv
<1> QED
  BY <1>2, <1>3, <1>4, <1>5 DEF GarmsNext, garmsVars, extractVars

LEMMA GarmsInvCorrect ==
    ASSUME IsFiniteSet(Runners)
    PROVE  GarmsSpec => []GarmsInv
<1>1. AtMostOneBusy => OneBusy
  BY AtMostOneIsOneBusy
<1>2. AtMostOneBusy' => OneBusy'
  BY <1>1, PTL
<1>3. GarmsInv /\ [GarmsNext]_garmsVars => GarmsInv'
  BY <1>2, GarmsInvStep
<1> QED
  BY <1>3, GarmsInvInit, PTL DEF GarmsSpec

\* With one tick at a time the windows tile the time line, and a submitted
\* row's file holds every payment of its window; when nothing fails, GARMS gets
\* each payment once: for any number of ticks, payments, days and rows.
THEOREM TicksAloneSendEachOnce ==
    ASSUME IsFiniteSet(Runners)
    PROVE  GarmsSpec => []AloneEachOnce
<1>1. GarmsInv => AloneEachOnce
  BY CalmSentOnce
  DEF GarmsInv, AloneInv, TableInv, NothingMissedInTime, AloneEachOnce, ExtractsAlone
<1> QED
  BY <1>1, GarmsInvCorrect, PTL


(***************************************************************************)
(* The limit of a credit account                                           *)
(***************************************************************************)

\* What was charged before slot t.
ChargedBefore(t) == Limits!Total({s \in Limits!Slots : s < t})

\* What the customer owes by the account's own books.
OwedByTheBooks == Limits!Total(Limits!Slots) + External - paid

LimitPayments ==
    [step : {"idle", "check", "save"}, amount : Nat, balance : Int, since : Limits!Slots]

LimitTypes ==
    /\ now \in Limits!Slots
    /\ charged \in [Limits!Slots -> Int]
    /\ balance \in Int
    /\ paid \in 0..MaxPaid
    /\ sentTo \in 0..now
    /\ open \in {Limits!NoFile} \cup (0..sentTo)
    /\ payment \in [Payers -> LimitPayments]

\* A file is made only for a window that has ended.
WindowsOK == sentTo # 0 \/ open # Limits!NoFile => sentTo <= Limits!ExtractTo

\* Nothing is charged in the slots to come, nor more refunded up to any slot than
\* was charged.
ChargesOK ==
    /\ \A t \in Limits!Slots : t > now => charged[t] = 0
    /\ \A t \in Nat : ChargedBefore(t) >= 0

\* A payment is made in the slot it began in or in the next, and did not begin in
\* the hour from 21:00.  Its balance is what eGARMS had then: the customer has
\* only paid off since then and, unless an extract got through, eGARMS has posted
\* nothing else.
PaymentOK(k) ==
    k.step # "idle" =>
        /\ k.since <= now /\ now <= k.since + 1 /\ ~Limits!Hour21(k.since)
        /\ Limits!Hour21(now) => charged[now] = 0
        /\ k.balance <= paid - External
        /\ open # Limits!NoFile \/ sentTo < Limits!ExtractTo => k.balance <= balance
        /\ k.step = "save" => OwedByTheBooks + k.amount <= Limit

\* What eGARMS was told and what it was not are what was charged.
BooksAgree == Limits!Owed = OwedByTheBooks

LimitInv ==
    /\ LimitTypes
    /\ WindowsOK
    /\ ChargesOK
    /\ BooksAgree
    /\ OwedByTheBooks <= Limit
    /\ \A p \in Payers : PaymentOK(payment[p])

-----------------------------------------------------------------------------
(* The slots and the sums over them                                        *)

LEMMA LimitBounds ==
    /\ Limit \in Nat /\ External \in Nat /\ LimitDays \in Nat /\ MaxPaid \in Nat
    /\ External <= Limit /\ Prices \subseteq Nat /\ \A p, q \in Payers : p = q
    /\ \A a \in Prices : a \in Nat /\ a > 0
BY OnePayerAssumption DEF Limits!AmountsAssumption, Limits!LimitAssumption

LEMMA SlotsFinite ==
    /\ \A X \in SUBSET Limits!Slots : IsFiniteSet(X)
    /\ \A t \in Limits!Slots : t \in Nat
    /\ \A t \in Limits!Slots, u \in Nat : u <= t => u \in Limits!Slots
<1>1. PICK m \in Int : Limits!Slots = 0..m
  BY LimitBounds DEF Limits!Slots
<1>2. IsFiniteSet(0..m)
  BY FS_Interval
<1>3. \A X \in SUBSET Limits!Slots : IsFiniteSet(X)
  BY <1>1, <1>2, FS_Subset
<1> QED
  BY <1>1, <1>3

LEMMA TotalIsSum == \A X : Limits!Total(X) = SumFunctionOnSet(charged, X)
BY DEF Limits!Total, Limits!SumFunctionOnSet, Limits!FoldFunctionOnSet,
       Limits!MapThenFoldSet, SumFunctionOnSet, FoldFunctionOnSet, MapThenFoldSet

\* What the totals of an account are.
TotalsAdd ==
    /\ \A X \in SUBSET Limits!Slots : Limits!Total(X) \in Int
    /\ \A X, Y \in SUBSET Limits!Slots :
          X \cap Y = {} => Limits!Total(X \cup Y) = Limits!Total(X) + Limits!Total(Y)
    /\ \A X \in SUBSET Limits!Slots :
          (\A t \in X : charged[t] = 0) => Limits!Total(X) = 0

LEMMA TotalFacts == charged \in [Limits!Slots -> Int] => TotalsAdd
<1> SUFFICES ASSUME charged \in [Limits!Slots -> Int]
             PROVE  TotalsAdd
  OBVIOUS
<1>1. ASSUME NEW X \in SUBSET Limits!Slots
      PROVE  Limits!Total(X) \in Int /\ ((\A t \in X : charged[t] = 0) => Limits!Total(X) = 0)
  <2>1. IsFiniteSet(X) /\ \A t \in X : charged[t] \in Int
    BY SlotsFinite
  <2> QED
    BY <2>1, TotalIsSum, SumIsInt, SumZeros
<1>2. ASSUME NEW X \in SUBSET Limits!Slots, NEW Y \in SUBSET Limits!Slots, X \cap Y = {}
      PROVE  Limits!Total(X \cup Y) = Limits!Total(X) + Limits!Total(Y)
  <2>1. IsFiniteSet(X) /\ IsFiniteSet(Y) /\ \A t \in X \cup Y : charged[t] \in Int
    BY SlotsFinite
  <2> QED
    BY <1>2, <2>1, TotalIsSum, SumUnion
<1> QED
  BY <1>1, <1>2 DEF TotalsAdd

\* The slots are split at slot u.
SplitAt(u) ==
    /\ ChargedBefore(u) \in Int
    /\ Limits!Total({t \in Limits!Slots : t >= u}) \in Int
    /\ Limits!Total(Limits!Slots)
         = ChargedBefore(u) + Limits!Total({t \in Limits!Slots : t >= u})

LEMMA TotalSplits ==
    charged \in [Limits!Slots -> Int] =>
        Limits!Total(Limits!Slots) \in Int /\ \A u \in Int : SplitAt(u)
<1> SUFFICES ASSUME charged \in [Limits!Slots -> Int]
             PROVE  Limits!Total(Limits!Slots) \in Int /\ \A u \in Int : SplitAt(u)
  OBVIOUS
<1>1. TotalsAdd
  BY TotalFacts
<1>2. ASSUME NEW u \in Int
      PROVE  SplitAt(u)
  <2> DEFINE before == {t \in Limits!Slots : t < u}
             after == {t \in Limits!Slots : t >= u}
  <2>1. before \cap after = {} /\ before \cup after = Limits!Slots
    <3>1. \A t \in Limits!Slots : t \in Nat
      BY SlotsFinite
    <3>2. \A t \in Limits!Slots : ~(t < u /\ t >= u) /\ (t < u \/ t >= u)
      BY <3>1
    <3> QED
      BY <3>2
  <2>2. before \in SUBSET Limits!Slots /\ after \in SUBSET Limits!Slots
    OBVIOUS
  <2>3. ChargedBefore(u) = Limits!Total(before)
    BY DEF ChargedBefore
  <2> HIDE DEF before, after
  <2>4. /\ Limits!Total(before) \in Int /\ Limits!Total(after) \in Int
        /\ Limits!Total(Limits!Slots) = Limits!Total(before) + Limits!Total(after)
    BY <1>1, <2>1, <2>2 DEF TotalsAdd
  <2> QED
    BY <2>3, <2>4 DEF SplitAt, before, after
<1> QED
  BY <1>1, <1>2 DEF TotalsAdd

\* The account is charged a (a refund is negative) in the slot it is.
ChargeOf(a) == charged' = [charged EXCEPT ![now] = @ + a]

LEMMA ChargeTotals ==
    ASSUME LimitTypes, NEW a \in Int, ChargeOf(a)
    PROVE  /\ charged' \in [Limits!Slots -> Int]
           /\ \A t \in Limits!Slots : charged'[t] = IF t = now THEN charged[t] + a ELSE charged[t]
           /\ \A X \in SUBSET Limits!Slots :
                 Limits!Total(X)' = Limits!Total(X) + (IF now \in X THEN a ELSE 0)
<1>1. now \in Limits!Slots /\ charged \in [Limits!Slots -> Int]
  BY DEF LimitTypes
<1>2. \A X : Limits!Total(X)' = SumFunctionOnSet(charged', X)
  BY DEF Limits!Total, Limits!SumFunctionOnSet, Limits!FoldFunctionOnSet,
         Limits!MapThenFoldSet, SumFunctionOnSet, FoldFunctionOnSet, MapThenFoldSet
<1>3. /\ charged' \in [Limits!Slots -> Int] /\ charged'[now] = charged[now] + a
      /\ \A t \in Limits!Slots : t # now => charged'[t] = charged[t]
  BY <1>1 DEF ChargeOf
<1>4. ASSUME NEW X \in SUBSET Limits!Slots
      PROVE  Limits!Total(X)' = Limits!Total(X) + (IF now \in X THEN a ELSE 0)
  <2>1. IsFiniteSet(X)
    BY SlotsFinite
  <2>2. SumFunctionOnSet(charged', X)
          = SumFunctionOnSet(charged, X) + (IF now \in X THEN a ELSE 0)
    BY <1>1, <1>3, <2>1, SumExcept
  <2> QED
    BY <1>2, <2>2, TotalIsSum
<1> QED
  BY <1>3, <1>4


(***************************************************************************)
(* The clock                                                               *)
(***************************************************************************)

\* A window ends before the slot it is sent in; no payment from 21:00 to 21:59 is
\* left out of the adjustment but those of that hour.
ClockOK ==
    /\ Limits!ExtractTo \in Int /\ Limits!ExtractTo < now
    /\ Limits!ToTimestamp \in Int
    /\ Limits!ToTimestamp > now \/ (Limits!Hour21(now) /\ Limits!ToTimestamp = now)

LEMMA SlotParts ==
    ASSUME NEW n \in Nat
    PROVE  \E d \in Nat, m \in 0..2 : n = 3 * d + m /\ n \div 3 = d /\ n % 3 = m
<1>1. n \div 3 \in Nat /\ n % 3 \in 0..2 /\ n = 3 * (n \div 3) + (n % 3)
  OBVIOUS
<1> QED
  BY <1>1

LEMMA ClockFacts == now \in Nat => ClockOK
<1> SUFFICES ASSUME now \in Nat
             PROVE  ClockOK
  OBVIOUS
<1>1. PICK d \in Nat, m \in 0..2 : now = 3 * d + m /\ now \div 3 = d /\ now % 3 = m
  BY SlotParts
<1> QED
  BY <1>1 DEF ClockOK, Limits!ExtractTo, Limits!ToTimestamp, Limits!Night,
               Limits!Hour21, Limits!CutOff, Limits!Day

\* The next window ends later, and at the end of the hour from 21:00.
LEMMA ClockGoesOn ==
    ASSUME now \in Nat, now' = now + 1
    PROVE  /\ Limits!ExtractTo' \in Int /\ Limits!ExtractTo <= Limits!ExtractTo'
           /\ ~Limits!Hour21(now) => Limits!ExtractTo' = Limits!ExtractTo
<1>1. PICK d \in Nat, m \in 0..2 : now = 3 * d + m /\ now \div 3 = d /\ now % 3 = m
  BY SlotParts
<1>2. /\ m = 2 => now' \div 3 = d + 1 /\ now' % 3 = 0
      /\ m # 2 => now' \div 3 = d /\ now' % 3 = m + 1
  BY <1>1
<1> QED
  BY <1>1, <1>2 DEF Limits!ExtractTo, Limits!Night, Limits!Hour21, Limits!CutOff,
                    Limits!Day

-----------------------------------------------------------------------------
(* What the invariant says of the sums                                     *)

SentFrom == IF open # Limits!NoFile THEN open ELSE sentTo

\* What is owed, in terms of what was charged before the windows that were not
\* sent.
LEMMA OwedParts ==
    ASSUME LimitTypes
    PROVE  /\ SentFrom \in 0..now /\ SentFrom \in Nat
           /\ Limits!Unsent = {t \in Limits!Slots : t >= SentFrom}
           /\ Limits!Total(Limits!Unsent) \in Int
           /\ Limits!Total(Limits!Slots) \in Int
           /\ Limits!Owed = Limits!Total(Limits!Unsent) - balance
           /\ Limits!Total(Limits!Slots)
                = ChargedBefore(SentFrom) + Limits!Total(Limits!Unsent)
           /\ ChargedBefore(SentFrom) \in Int
<1>1. now \in Nat
  BY SlotsFinite DEF LimitTypes
<1>2. SentFrom \in 0..now /\ SentFrom \in Nat
  BY <1>1 DEF LimitTypes, SentFrom, Limits!NoFile
<1>3. Limits!Unsent = {t \in Limits!Slots : t >= SentFrom}
  BY DEF Limits!Unsent, SentFrom
<1>4. SplitAt(SentFrom) /\ Limits!Total(Limits!Slots) \in Int
  BY <1>2, TotalSplits DEF LimitTypes
<1> QED
  BY <1>2, <1>3, <1>4 DEF SplitAt, Limits!Owed

LEMMA LimitNumbers ==
    ASSUME LimitInv
    PROVE  /\ now \in Nat /\ balance \in Int /\ paid \in Nat /\ sentTo \in Nat /\ open \in Int
           /\ OwedByTheBooks \in Int /\ charged \in [Limits!Slots -> Int]
           /\ Limits!ExtractTo \in Int /\ Limits!ExtractTo < now
           /\ \A p \in Payers : /\ payment[p] \in LimitPayments
                                /\ payment[p].amount \in Nat /\ payment[p].balance \in Int
                                /\ payment[p].since \in Nat
<1>1. LimitTypes
  BY DEF LimitInv
<1>2. now \in Nat /\ balance \in Int /\ paid \in Nat /\ sentTo \in Nat /\ open \in Int
  BY <1>1, SlotsFinite, LimitBounds DEF LimitTypes, Limits!NoFile
<1>3. OwedByTheBooks \in Int
  BY <1>1, <1>2, OwedParts, LimitBounds DEF OwedByTheBooks
<1>4. ASSUME NEW p \in Payers
      PROVE  /\ payment[p] \in LimitPayments
             /\ payment[p].amount \in Nat /\ payment[p].balance \in Int
             /\ payment[p].since \in Nat
  <2>1. payment[p] \in LimitPayments
    BY <1>1 DEF LimitTypes
  <2>2. /\ payment[p].amount \in Nat /\ payment[p].balance \in Int
        /\ payment[p].since \in Limits!Slots
    BY <2>1 DEF LimitPayments
  <2> QED
    BY <2>1, <2>2, SlotsFinite
<1> QED
  BY <1>1, <1>2, <1>3, <1>4, ClockFacts DEF LimitTypes, ClockOK

\* eGARMS posted no less than the customer owed it.
LEMMA BalanceBound ==
    ASSUME LimitInv
    PROVE  balance <= paid - External
<1>1. LimitTypes /\ BooksAgree /\ ChargedBefore(SentFrom) >= 0
  BY OwedParts DEF LimitInv, ChargesOK
<1>2. balance \in Int /\ paid \in Int /\ External \in Int
  BY <1>1, LimitBounds DEF LimitTypes
<1> QED
  BY <1>1, <1>2, OwedParts DEF BooksAgree, OwedByTheBooks

\* The balance that a payment compares with the limit is no less than what the
\* customer owes.
LEMMA CreditBalanceCovers ==
    ASSUME LimitInv, NEW p \in Payers, payment[p].step # "idle"
    PROVE  /\ OwedByTheBooks <= Limits!CreditBalance(payment[p].balance)
           /\ OwedByTheBooks \in Int /\ Limits!CreditBalance(payment[p].balance) \in Int
<1> DEFINE b == payment[p].balance
           adj == Limits!AdjustedSlots
<1>1. /\ LimitTypes /\ BooksAgree /\ PaymentOK(payment[p])
      /\ \A t \in Limits!Slots : t > now => charged[t] = 0
  BY DEF LimitInv, ChargesOK
<1>2. /\ b \in Int /\ balance \in Int /\ paid \in Int /\ External \in Int /\ now \in Nat
      /\ charged \in [Limits!Slots -> Int] /\ open \in Int
  BY LimitNumbers, LimitBounds
<1>3. /\ b <= paid - External
      /\ open # Limits!NoFile => b <= balance
      /\ Limits!Hour21(now) => charged[now] = 0
  BY <1>1 DEF PaymentOK
<1>4. ClockOK /\ TotalsAdd
  BY <1>2, ClockFacts, TotalFacts
<1>5. \A t \in Limits!Slots : t \in Nat /\ (t >= Limits!ToTimestamp => charged[t] = 0)
  BY <1>1, <1>2, <1>3, <1>4, SlotsFinite DEF ClockOK
<1> DEFINE all == IF open = Limits!NoFile THEN Limits!Slots ELSE Limits!Unsent
           later == {t \in all : t >= Limits!ToTimestamp}
<1>6. /\ all \in SUBSET Limits!Slots
      /\ \A t \in Limits!Slots : t \in all <=> (open # Limits!NoFile => open <= t)
  BY <1>2, <1>5 DEF Limits!Unsent
<1>7. adj \cup later = all /\ adj \cap later = {}
  <2>1. \A t \in all : t \in Nat /\ (t \in adj <=> t < Limits!ToTimestamp)
    BY <1>5, <1>6 DEF Limits!AdjustedSlots
  <2>2. \A t \in adj : t \in all
    BY <1>6 DEF Limits!AdjustedSlots
  <2>3. Limits!ToTimestamp \in Int
    BY <1>4 DEF ClockOK
  <2> QED
    BY <2>1, <2>2, <2>3
<1>8. /\ adj \in SUBSET Limits!Slots /\ later \in SUBSET Limits!Slots
      /\ \A t \in later : charged[t] = 0
  BY <1>5, <1>6, <1>7
<1> HIDE DEF adj, later, all
<1>9. Limits!Total(later) = 0 /\ Limits!Total(adj) \in Int /\ Limits!Total(all) \in Int
  BY <1>4, <1>6, <1>8 DEF TotalsAdd
<1>10. Limits!Total(all) = Limits!Total(adj)
  <2>1. Limits!Total(all) = Limits!Total(adj) + Limits!Total(later)
    BY <1>4, <1>7, <1>8 DEF TotalsAdd
  <2> QED
    BY <1>9, <2>1
<1>11. Limits!CreditBalance(b) = Limits!Abs(b) + Limits!Total(all)
  BY <1>10 DEF Limits!CreditBalance, Limits!AmountToAdjust, adj
<1>12. Limits!Abs(b) \in Int /\ -b <= Limits!Abs(b)
  BY <1>2 DEF Limits!Abs
<1> HIDE DEF b
<1>13. CASE open = Limits!NoFile
  <2>1. all = Limits!Slots
    BY <1>13 DEF all
  <2> QED
    BY <1>2, <1>3, <1>9, <1>11, <1>12, <2>1 DEF OwedByTheBooks, b
<1>14. CASE open # Limits!NoFile
  <2>1. all = Limits!Unsent /\ b <= balance
    BY <1>3, <1>14 DEF all
  <2>2. OwedByTheBooks = Limits!Total(all) - balance
    BY <1>1, <2>1, OwedParts DEF BooksAgree
  <2> QED
    BY <1>2, <1>9, <1>11, <1>12, <2>1, <2>2 DEF b
<1> QED
  BY <1>13, <1>14

-----------------------------------------------------------------------------
(* The steps                                                               *)

\* While nothing is charged the totals stay.
LEMMA TotalsStay ==
    ASSUME charged' = charged
    PROVE  /\ \A X : Limits!Total(X)' = Limits!Total(X)
           /\ \A t : ChargedBefore(t)' = ChargedBefore(t)
BY DEF Limits!Total, ChargedBefore

\* A step of a payment that charges nothing.
LEMMA PaymentMoves ==
    ASSUME LimitInv, UNCHANGED <<now, charged, balance, paid, sentTo, open>>,
           payment' \in [Payers -> LimitPayments], \A p \in Payers : PaymentOK(payment'[p])
    PROVE  LimitInv'
<1>1. LimitTypes'
  BY DEF LimitInv, LimitTypes
<1>2. WindowsOK' /\ Limits!ExtractTo' = Limits!ExtractTo
  BY DEF LimitInv, WindowsOK, Limits!ExtractTo
<1>3. ChargesOK'
  BY TotalsStay DEF LimitInv, ChargesOK
<1>4. OwedByTheBooks' = OwedByTheBooks /\ Limits!Owed' = Limits!Owed
  BY TotalsStay DEF OwedByTheBooks, Limits!Owed, Limits!Unsent
<1>5. ASSUME NEW p \in Payers
      PROVE  PaymentOK(payment[p])'
  BY <1>2, <1>4 DEF PaymentOK
<1> QED
  BY <1>1, <1>2, <1>3, <1>4, <1>5 DEF LimitInv, BooksAgree

LEMMA IdlePayment == Limits!Idle \in LimitPayments /\ PaymentOK(Limits!Idle)
<1>1. Limits!Idle.step = "idle" /\ 0 \in Limits!Slots
  BY LimitBounds DEF Limits!Idle, Limits!Slots
<1> QED
  BY <1>1 DEF Limits!Idle, LimitPayments, PaymentOK

LEMMA OnePaymentMoves ==
    ASSUME LimitInv, UNCHANGED <<now, charged, balance, paid, sentTo, open>>,
           NEW p \in Payers, NEW k \in LimitPayments, PaymentOK(k),
           payment' = [payment EXCEPT ![p] = k]
    PROVE  LimitInv'
<1>1. payment \in [Payers -> LimitPayments]
  BY DEF LimitInv, LimitTypes
<1>2. payment' \in [Payers -> LimitPayments]
  BY <1>1
<1>3. \A q \in Payers : payment'[q] = k
  BY <1>1, LimitBounds
<1> QED
  BY <1>2, <1>3, PaymentMoves

LEMMA LimitPassTime == LimitInv /\ Limits!PassTime => LimitInv'
<1> SUFFICES ASSUME LimitInv, Limits!PassTime
             PROVE  LimitInv'
  OBVIOUS
<1>1. /\ now \in Nat /\ now + 1 \in Limits!Slots /\ now' = now + 1
      /\ UNCHANGED <<charged, balance, paid, sentTo, open, payment>>
      /\ \A p \in Payers : payment[p].step # "idle" => payment[p].since = now
  BY LimitNumbers DEF Limits!PassTime
<1>2. /\ Limits!ExtractTo' \in Int /\ Limits!ExtractTo <= Limits!ExtractTo'
      /\ ~Limits!Hour21(now) => Limits!ExtractTo' = Limits!ExtractTo
  BY <1>1, ClockGoesOn
<1>3. LimitTypes'
  BY <1>1, LimitNumbers DEF LimitInv, LimitTypes
<1>4. WindowsOK'
  BY <1>1, <1>2, LimitNumbers DEF LimitInv, WindowsOK
<1>5. ChargesOK' /\ charged'[now'] = 0
  <2>1. \A t \in Limits!Slots : t > now => charged[t] = 0
    BY DEF LimitInv, ChargesOK
  <2>2. \A t \in Limits!Slots : t \in Nat
    BY SlotsFinite
  <2>3. \A t \in Limits!Slots : t > now' => charged'[t] = 0
    BY <1>1, <2>1, <2>2
  <2>4. charged'[now'] = 0
    BY <1>1, <2>1
  <2> QED
    BY <1>1, <2>3, <2>4, TotalsStay DEF LimitInv, ChargesOK
<1>6. OwedByTheBooks' = OwedByTheBooks /\ Limits!Owed' = Limits!Owed
  BY <1>1, TotalsStay DEF OwedByTheBooks, Limits!Owed, Limits!Unsent
<1>7. ASSUME NEW p \in Payers
      PROVE  PaymentOK(payment[p])'
  <2> SUFFICES ASSUME payment[p].step # "idle"
               PROVE  PaymentOK(payment[p])'
    BY <1>1 DEF PaymentOK
  <2>1. payment[p].since = now /\ PaymentOK(payment[p]) /\ payment' = payment
    BY <1>1 DEF LimitInv
  <2>2. Limits!ExtractTo' = Limits!ExtractTo
    BY <1>2, <2>1 DEF PaymentOK
  <2>3. ~Limits!Hour21(payment[p].since)
    BY <2>1 DEF PaymentOK
  <2> QED
    BY <1>1, <1>5, <1>6, <2>1, <2>2, <2>3 DEF PaymentOK, Limits!Hour21
<1> QED
  BY <1>3, <1>4, <1>5, <1>6, <1>7 DEF LimitInv, BooksAgree

LEMMA LimitPayOff == LimitInv /\ Limits!PayOff => LimitInv'
<1> SUFFICES ASSUME LimitInv, Limits!PayOff
             PROVE  LimitInv'
  OBVIOUS
<1>1. /\ paid < MaxPaid /\ paid' = paid + 1 /\ balance' = balance + 1
      /\ UNCHANGED <<now, charged, sentTo, open, payment>>
  BY DEF Limits!PayOff
<1>2. LimitTypes'
  BY <1>1, LimitBounds DEF LimitInv, LimitTypes
<1>3. WindowsOK' /\ Limits!ExtractTo' = Limits!ExtractTo
  BY <1>1 DEF LimitInv, WindowsOK, Limits!ExtractTo
<1>4. ChargesOK'
  BY <1>1, TotalsStay DEF LimitInv, ChargesOK
<1>5. OwedByTheBooks' = OwedByTheBooks - 1 /\ Limits!Owed' = Limits!Owed - 1
  <2>1. LimitTypes
    BY DEF LimitInv
  <2>2. /\ Limits!Total(Limits!Unsent) \in Int /\ Limits!Total(Limits!Slots) \in Int
    BY <2>1, OwedParts
  <2>3. Limits!Unsent' = Limits!Unsent
    BY <1>1 DEF Limits!Unsent
  <2> QED
    BY <1>1, <2>2, <2>3, LimitNumbers, LimitBounds, TotalsStay
    DEF OwedByTheBooks, Limits!Owed
<1>6. ASSUME NEW p \in Payers
      PROVE  PaymentOK(payment[p])'
  <2>1. PaymentOK(payment[p])
    BY DEF LimitInv
  <2>2. payment[p].amount \in Nat /\ payment[p].balance \in Int /\ OwedByTheBooks \in Int
    BY LimitNumbers
  <2> QED
    BY <1>1, <1>3, <1>5, <2>1, <2>2, LimitNumbers, LimitBounds DEF PaymentOK
<1> QED
  BY <1>2, <1>3, <1>4, <1>5, <1>6, LimitNumbers, LimitBounds DEF LimitInv, BooksAgree

\* A window that is sent leaves as many fewer unsent.
LEMMA LimitExtract ==
    ASSUME LimitInv, NEW ok \in BOOLEAN, Limits!Extract(ok)
    PROVE  LimitInv'
<1> DEFINE to == Limits!ExtractTo
<1>1. /\ LimitTypes /\ WindowsOK /\ BooksAgree
      /\ SentFrom \in 0..now /\ SentFrom \in Nat
      /\ Limits!Unsent = {t \in Limits!Slots : t >= SentFrom}
      /\ Limits!Total(Limits!Unsent) \in Int
      /\ Limits!Owed = Limits!Total(Limits!Unsent) - balance
  BY OwedParts DEF LimitInv
<1>2. /\ open # Limits!NoFile \/ sentTo < to
      /\ sentTo' = to
      /\ open' = IF ok THEN Limits!NoFile ELSE SentFrom
      /\ balance' = IF ok THEN balance - Limits!Total(Limits!Window(SentFrom, to)) ELSE balance
      /\ UNCHANGED <<now, charged, paid, payment>>
  BY DEF Limits!Extract, SentFrom
<1>3. to \in Int /\ to < now /\ now \in Nat /\ balance \in Int /\ open \in Int /\ sentTo \in Nat
  BY LimitNumbers
<1>4. SentFrom <= to /\ SentFrom # Limits!NoFile
  BY <1>1, <1>2, <1>3 DEF LimitTypes, WindowsOK, SentFrom, Limits!NoFile
<1>5. to' = to
  BY <1>2 DEF Limits!ExtractTo
<1> HIDE DEF to
<1>6. SentFrom' = IF ok THEN to ELSE SentFrom
  BY <1>2, <1>4 DEF SentFrom
<1>7. Limits!Unsent' = {t \in Limits!Slots : t >= SentFrom'}
  BY DEF Limits!Unsent, SentFrom
<1>8. Limits!Owed' = Limits!Owed /\ balance' \in Int
  <2>1. CASE ok
    <3> DEFINE window == Limits!Window(SentFrom, to)
               rest == {t \in Limits!Slots : t >= to}
    <3>1. \A t \in Limits!Slots : t \in Nat
      BY SlotsFinite
    <3>2. window = {t \in Limits!Slots : SentFrom <= t /\ t < to}
      BY DEF Limits!Window
    <3>3. \A t \in Limits!Slots : /\ (SentFrom <= t /\ t < to) \/ t >= to <=> t >= SentFrom
                                  /\ ~(t < to /\ t >= to)
      BY <1>1, <1>3, <1>4, <3>1
    <3>4. window \cup rest = Limits!Unsent /\ window \cap rest = {}
      BY <1>1, <3>2, <3>3
    <3>5. window \in SUBSET Limits!Slots /\ rest \in SUBSET Limits!Slots
      BY <3>2
    <3>6. Limits!Unsent' = rest /\ balance' = balance - Limits!Total(window)
      BY <1>2, <1>6, <1>7, <2>1
    <3>7. TotalsAdd
      BY <1>1, TotalFacts DEF LimitTypes
    <3> HIDE DEF window, rest
    <3>8. /\ Limits!Total(window) \in Int /\ Limits!Total(rest) \in Int
          /\ Limits!Total(Limits!Unsent) = Limits!Total(window) + Limits!Total(rest)
      BY <3>4, <3>5, <3>7, Zenon DEF TotalsAdd
    <3>9. Limits!Owed' = Limits!Total(rest) - balance'
      BY <1>2, <3>6, TotalsStay DEF Limits!Owed
    <3> QED
      BY <1>1, <1>3, <3>6, <3>8, <3>9
  <2>2. CASE ~ok
    <3>1. Limits!Unsent' = Limits!Unsent /\ balance' = balance
      BY <1>1, <1>2, <1>6, <1>7, <2>2
    <3> QED
      BY <1>2, <1>3, <3>1, TotalsStay DEF Limits!Owed
  <2> QED
    BY <2>1, <2>2
<1>9. LimitTypes'
  <2>1. to \in 0..now
    BY <1>1, <1>3, <1>4
  <2>2. open' \in {Limits!NoFile} \cup (0..to)
    BY <1>1, <1>2, <1>3, <1>4
  <2> QED
    BY <1>1, <1>2, <1>8, <2>1, <2>2 DEF LimitTypes
<1>10. WindowsOK'
  BY <1>2, <1>3, <1>5 DEF WindowsOK, to
<1>11. ChargesOK'
  BY <1>2, TotalsStay DEF LimitInv, ChargesOK
<1>12. OwedByTheBooks' = OwedByTheBooks
  BY <1>2, TotalsStay DEF OwedByTheBooks
<1>13. ASSUME NEW p \in Payers
       PROVE  PaymentOK(payment[p])'
  <2> SUFFICES ASSUME payment[p].step # "idle"
               PROVE  PaymentOK(payment[p])'
    BY <1>2 DEF PaymentOK
  <2>1. PaymentOK(payment[p]) /\ payment[p].balance <= balance
    BY <1>2 DEF LimitInv, PaymentOK, to
  <2>2. open' # Limits!NoFile \/ sentTo' < Limits!ExtractTo' => balance' = balance
    BY <1>2, <1>3, <1>5 DEF to
  <2> QED
    BY <1>2, <1>12, <2>1, <2>2 DEF PaymentOK
<1> QED
  BY <1>1, <1>8, <1>9, <1>10, <1>11, <1>12, <1>13 DEF LimitInv, BooksAgree

\* A purchase (a is positive) or refund of what is saved in the slot it is.
LEMMA LimitCharge ==
    ASSUME LimitInv, NEW a \in Int, ChargeOf(a), OwedByTheBooks + a <= Limit,
           Limits!Total(Limits!Slots) + a >= 0,
           UNCHANGED <<now, balance, paid, sentTo, open>>,
           payment' \in [Payers -> LimitPayments],
           \A p \in Payers : payment'[p].step # "idle" =>
              payment'[p] = payment[p] /\ a <= 0 /\ ~Limits!Hour21(now)
    PROVE  LimitInv'
<1>1. /\ LimitTypes /\ ChargesOK /\ BooksAgree /\ WindowsOK
      /\ now \in Nat /\ now \in Limits!Slots /\ balance \in Int /\ paid \in Int
      /\ OwedByTheBooks \in Int /\ Limit \in Int /\ External \in Int
  BY LimitNumbers, LimitBounds DEF LimitInv, LimitTypes
<1>2. /\ charged' \in [Limits!Slots -> Int]
      /\ \A t \in Limits!Slots : charged'[t] = IF t = now THEN charged[t] + a ELSE charged[t]
      /\ \A X \in SUBSET Limits!Slots :
            Limits!Total(X)' = Limits!Total(X) + (IF now \in X THEN a ELSE 0)
  BY <1>1, ChargeTotals
<1>3. Limits!Unsent \in SUBSET Limits!Slots /\ now \in Limits!Unsent /\ Limits!Unsent' = Limits!Unsent
  <2>1. now >= SentFrom /\ Limits!Unsent = {t \in Limits!Slots : t >= SentFrom}
    BY <1>1, OwedParts
  <2>2. Limits!Unsent' = Limits!Unsent
    BY DEF Limits!Unsent
  <2> QED
    BY <1>1, <2>1, <2>2
<1>4. /\ Limits!Total(Limits!Slots) \in Int /\ Limits!Total(Limits!Unsent) \in Int
      /\ Limits!Owed = Limits!Total(Limits!Unsent) - balance
  BY <1>1, OwedParts
<1>5. OwedByTheBooks' = OwedByTheBooks + a
  <2>1. Limits!Total(Limits!Slots)' = Limits!Total(Limits!Slots) + a
    BY <1>1, <1>2
  <2> QED
    BY <1>1, <1>4, <2>1 DEF OwedByTheBooks
<1>6. Limits!Owed' = Limits!Owed + a
  <2>1. Limits!Total(Limits!Unsent)' = Limits!Total(Limits!Unsent) + a
    BY <1>2, <1>3
  <2>2. Limits!Owed' = Limits!Total(Limits!Unsent)' - balance'
    BY DEF Limits!Owed
  <2> QED
    BY <1>1, <1>4, <2>1, <2>2
<1>7. ChargesOK'
  <2>1. \A t \in Limits!Slots : t > now' => charged'[t] = 0
    BY <1>1, <1>2 DEF ChargesOK
  <2>2. ASSUME NEW t \in Nat
        PROVE  ChargedBefore(t)' >= 0
    <3> DEFINE before == {s \in Limits!Slots : s < t}
               after == {s \in Limits!Slots : s >= t}
    <3>1. ChargedBefore(t) >= 0 /\ SplitAt(t) /\ \A s \in Limits!Slots : s \in Nat
      BY <1>1, TotalSplits, SlotsFinite DEF ChargesOK, LimitTypes
    <3>2. /\ ChargedBefore(t) \in Int
          /\ ChargedBefore(t)' = ChargedBefore(t) + (IF now \in before THEN a ELSE 0)
      BY <1>2, <3>1 DEF ChargedBefore, SplitAt
    <3>3. CASE now \notin before
      BY <3>1, <3>2, <3>3
    <3>4. CASE now \in before
      <4>1. \A s \in after : s \in Nat /\ s > now
        BY <1>1, <3>1, <3>4
      <4>2. \A s \in after : charged[s] = 0
        BY <1>1, <4>1 DEF ChargesOK
      <4>3. after \in SUBSET Limits!Slots
        OBVIOUS
      <4>4. Limits!Total(after) = 0
        <5> HIDE DEF after
        <5> QED
          BY <1>1, <4>2, <4>3, TotalFacts DEF TotalsAdd, LimitTypes
      <4>5. Limits!Total(Limits!Slots) = ChargedBefore(t)
        BY <3>1, <4>4 DEF SplitAt
      <4> QED
        BY <3>2, <3>4, <4>5
    <3> QED
      BY <3>3, <3>4
  <2> QED
    BY <2>1, <2>2 DEF ChargesOK
<1>8. LimitTypes' /\ WindowsOK' /\ Limits!ExtractTo' = Limits!ExtractTo
  BY <1>1, <1>2 DEF LimitTypes, WindowsOK, Limits!ExtractTo
<1>9. ASSUME NEW p \in Payers
      PROVE  PaymentOK(payment[p])'
  <2> SUFFICES ASSUME payment'[p].step # "idle"
               PROVE  PaymentOK(payment[p])'
    BY DEF PaymentOK
  <2>1. /\ payment'[p] = payment[p] /\ a <= 0 /\ ~Limits!Hour21(now')
        /\ PaymentOK(payment[p]) /\ payment[p].amount \in Nat
    BY LimitNumbers DEF LimitInv
  <2>2. payment'[p].step = "save" => OwedByTheBooks' + payment'[p].amount <= Limit
    BY <1>1, <1>5, <2>1 DEF PaymentOK
  <2> QED
    BY <1>8, <2>1, <2>2 DEF PaymentOK
<1> QED
  BY <1>1, <1>4, <1>5, <1>6, <1>7, <1>8, <1>9 DEF LimitInv, BooksAgree

LEMMA LimitRefund ==
    ASSUME LimitInv, NEW amount \in Prices, Limits!Refund(amount)
    PROVE  LimitInv'
<1>1. /\ ~Limits!Hour21(now) /\ amount <= Limits!Total(Limits!Slots)
      /\ charged' = [charged EXCEPT ![now] = @ - amount]
      /\ UNCHANGED <<now, balance, paid, sentTo, open, payment>>
  BY DEF Limits!Refund
<1>2. amount \in Nat /\ amount > 0 /\ -amount \in Int /\ -amount <= 0
  BY LimitBounds
<1>3. /\ OwedByTheBooks <= Limit /\ OwedByTheBooks \in Int /\ Limit \in Int
      /\ LimitTypes /\ payment \in [Payers -> LimitPayments]
      /\ Limits!Total(Limits!Slots) \in Int
  BY LimitNumbers, LimitBounds, OwedParts DEF LimitInv, LimitTypes
<1>4. ChargeOf(-amount)
  <2>1. now \in Limits!Slots /\ charged[now] \in Int
    BY <1>3 DEF LimitTypes
  <2>2. charged[now] - amount = charged[now] + (-amount)
    BY <1>2, <2>1
  <2> QED
    BY <1>1, <2>2 DEF ChargeOf
<1>5. OwedByTheBooks + (-amount) <= Limit /\ Limits!Total(Limits!Slots) + (-amount) >= 0
  BY <1>1, <1>2, <1>3
<1> DEFINE a == -amount
<1> HIDE DEF a
<1>6. a \in Int /\ a <= 0 /\ ChargeOf(a) /\ OwedByTheBooks + a <= Limit
      /\ Limits!Total(Limits!Slots) + a >= 0
  BY <1>2, <1>4, <1>5 DEF a
<1> QED
  BY <1>1, <1>3, <1>6, LimitCharge

LEMMA LimitSave ==
    ASSUME LimitInv, NEW p \in Payers, Limits!PurchaseSave(p)
    PROVE  LimitInv'
<1> DEFINE a == payment[p].amount
<1>1. /\ payment[p].step = "save" /\ ChargeOf(a)
      /\ payment' = [payment EXCEPT ![p] = Limits!Idle]
      /\ UNCHANGED <<now, balance, paid, sentTo, open>>
  BY DEF Limits!PurchaseSave, ChargeOf
<1>2. /\ OwedByTheBooks \in Int /\ LimitTypes /\ payment \in [Payers -> LimitPayments]
      /\ Limits!Total(Limits!Slots) \in Int /\ a \in Nat /\ PaymentOK(payment[p])
      /\ charged \in [Limits!Slots -> Int] /\ ChargesOK
  BY LimitNumbers, OwedParts DEF LimitInv, LimitTypes
<1>3. OwedByTheBooks + a <= Limit
  BY <1>1, <1>2 DEF PaymentOK
<1>4. Limits!Total(Limits!Slots) >= 0
  <2>1. PICK n \in Nat : \A t \in Limits!Slots : t < n
    <3>1. 3 * LimitDays + 3 \in Nat
      BY LimitBounds
    <3>2. \A t \in Limits!Slots : t < 3 * LimitDays + 3
      BY <3>1, LimitBounds DEF Limits!Slots
    <3> QED
      BY <3>1, <3>2
  <2>2. {t \in Limits!Slots : t < n} = Limits!Slots
    BY <2>1
  <2> QED
    BY <1>2, <2>2 DEF ChargesOK, ChargedBefore
<1>5. payment' \in [Payers -> LimitPayments] /\ \A q \in Payers : payment'[q].step = "idle"
  BY <1>1, <1>2, IdlePayment, LimitBounds DEF Limits!Idle
<1> HIDE DEF a
<1>6. a \in Int /\ Limits!Total(Limits!Slots) + a >= 0
  BY <1>2, <1>4
<1> QED
  BY <1>1, <1>3, <1>5, <1>6, LimitCharge

LEMMA LimitBegin ==
    ASSUME LimitInv, NEW p \in Payers, NEW amount \in Prices, Limits!PurchaseBegin(p, amount)
    PROVE  LimitInv'
<1> DEFINE k == [step |-> "check", amount |-> amount, balance |-> balance, since |-> now]
<1>1. /\ ~Limits!Hour21(now) /\ payment' = [payment EXCEPT ![p] = k]
      /\ UNCHANGED <<now, charged, balance, paid, sentTo, open>>
  BY DEF Limits!PurchaseBegin
<1>2. k \in LimitPayments
  BY LimitBounds, LimitNumbers DEF LimitInv, LimitTypes, LimitPayments
<1>3. PaymentOK(k)
  BY <1>1, BalanceBound, LimitNumbers DEF PaymentOK
<1> HIDE DEF k
<1> QED
  BY <1>1, <1>2, <1>3, OnePaymentMoves

\* A payment that goes on has room for its amount.
LEMMA LimitCheck ==
    ASSUME LimitInv, NEW p \in Payers, Limits!PurchaseCheck(p)
    PROVE  LimitInv'
<1> DEFINE k == IF Limits!Exceeds(payment[p].balance, payment[p].amount) THEN Limits!Idle
                ELSE [payment[p] EXCEPT !.step = "save"]
<1>1. /\ payment[p].step = "check" /\ payment' = [payment EXCEPT ![p] = k]
      /\ UNCHANGED <<now, charged, balance, paid, sentTo, open>>
  BY DEF Limits!PurchaseCheck
<1>2. CASE Limits!Exceeds(payment[p].balance, payment[p].amount)
  BY <1>1, <1>2, IdlePayment, OnePaymentMoves
<1>3. CASE ~Limits!Exceeds(payment[p].balance, payment[p].amount)
  <2> DEFINE saving == [payment[p] EXCEPT !.step = "save"]
  <2>1. /\ payment[p] \in LimitPayments /\ payment[p].amount \in Nat /\ PaymentOK(payment[p])
    BY LimitNumbers DEF LimitInv
  <2>2. /\ saving \in LimitPayments /\ saving.step = "save"
        /\ saving.amount = payment[p].amount /\ saving.balance = payment[p].balance
        /\ saving.since = payment[p].since
    BY <2>1 DEF LimitPayments
  <2>3. /\ OwedByTheBooks <= Limits!CreditBalance(payment[p].balance)
        /\ OwedByTheBooks \in Int /\ Limits!CreditBalance(payment[p].balance) \in Int
    BY <1>1, CreditBalanceCovers
  <2>4. OwedByTheBooks + payment[p].amount <= Limit
    BY <1>3, <2>1, <2>3, LimitBounds DEF Limits!Exceeds
  <2> HIDE DEF saving
  <2>5. PaymentOK(saving)
    BY <1>1, <2>1, <2>2, <2>4 DEF PaymentOK
  <2>6. payment' = [payment EXCEPT ![p] = saving]
    BY <1>1, <1>3 DEF saving
  <2> QED
    BY <1>1, <2>2, <2>5, <2>6, OnePaymentMoves
<1> QED
  BY <1>2, <1>3

LEMMA LimitStep == LimitInv /\ [Limits!Next]_limitVars => LimitInv'
<1> SUFFICES ASSUME LimitInv, [Limits!Next]_limitVars
             PROVE  LimitInv'
  OBVIOUS
<1>1. CASE UNCHANGED <<now, charged, balance, paid, sentTo, open, payment>>
  <2>1. payment' = payment
    BY <1>1
  <2> QED
    BY <1>1, <2>1, PaymentMoves DEF LimitInv, LimitTypes
<1>2. CASE Limits!PassTime \/ Limits!PayOff
  BY <1>2, LimitPassTime, LimitPayOff
<1>3. ASSUME NEW s, Limits!SetStatus(s)
      PROVE  LimitInv'
  BY <1>1, <1>3 DEF Limits!SetStatus
<1>4. ASSUME NEW p \in Payers, Limits!Fail(p)
      PROVE  LimitInv'
  BY <1>4, IdlePayment, OnePaymentMoves DEF Limits!Fail
<1> QED
  BY <1>1, <1>2, <1>3, <1>4, LimitExtract, LimitRefund, LimitBegin, LimitCheck, LimitSave
  DEF Limits!Next, limitVars

LEMMA LimitInit == Limits!Init => LimitInv
<1> SUFFICES ASSUME Limits!Init
             PROVE  LimitInv
  OBVIOUS
<1>1. /\ now = 0 /\ charged = [t \in Limits!Slots |-> 0] /\ balance = -External
      /\ paid = 0 /\ sentTo = 0 /\ open = Limits!NoFile
      /\ payment = [p \in Payers |-> Limits!Idle]
  BY DEF Limits!Init
<1>2. LimitTypes
  BY <1>1, LimitBounds, IdlePayment DEF LimitTypes, Limits!Slots
<1>3. \A X \in SUBSET Limits!Slots : Limits!Total(X) = 0
  <2>1. TotalsAdd
    BY <1>2, TotalFacts DEF LimitTypes
  <2> QED
    BY <1>1, <2>1 DEF TotalsAdd
<1>4. ChargesOK
  BY <1>1, <1>3 DEF ChargesOK, ChargedBefore
<1>5. Limits!Unsent \in SUBSET Limits!Slots
  BY DEF Limits!Unsent
<1>6. BooksAgree /\ OwedByTheBooks <= Limit
  BY <1>1, <1>3, <1>5, LimitBounds DEF BooksAgree, OwedByTheBooks, Limits!Owed
<1>7. WindowsOK
  BY <1>1 DEF WindowsOK
<1>8. \A p \in Payers : PaymentOK(payment[p])
  BY <1>1, IdlePayment
<1> QED
  BY <1>2, <1>4, <1>6, <1>7, <1>8 DEF LimitInv

LEMMA LimitInvariant == GarmsSpec => []LimitInv
<1>1. GarmsInit => LimitInv
  BY LimitInit DEF GarmsInit
<1>2. [GarmsNext]_garmsVars => [Limits!Next]_limitVars
  BY DEF GarmsNext, garmsVars
<1> QED
  BY <1>1, <1>2, LimitStep, PTL DEF GarmsSpec

\* When purchases do not overlap and none is made in the hour from 21:00, the
\* customer never owes more than the limit (validateCreditAccountPayment):
\* however many days, prices and payments there are, and whichever ticks of the
\* extract fail in between.
THEOREM CreditNeverOverdrawn == GarmsSpec => []NeverOverdrawn
<1>1. LimitInv => NeverOverdrawn
  BY DEF LimitInv, BooksAgree, NeverOverdrawn, Limits!NeverOverdrawn
<1> QED
  BY <1>1, LimitInvariant, PTL

\* The types of the extract and of the limit; what eGARMS was told of an account
\* and what it was not add up to what was charged (getToDateForGarms).
THEOREM GarmsTypeCorrect == GarmsSpec => []GarmsTypeOK
<1>1. GarmsInit => ExtractInv
  BY ExtractInit DEF GarmsInit
<1>2. [GarmsNext]_garmsVars => [Next]_vars
  <2>1. Calm!Next => Next
    BY CalmNext DEF Next, Work
  <2> QED
    BY <2>1 DEF GarmsNext, garmsVars, extractVars
<1>3. LimitInv => Limits!TypeOK
  BY DEF LimitInv, LimitTypes, BooksAgree, OwedByTheBooks, Limits!TypeOK
<1>4. ExtractInv => TypeOK
  BY DEF ExtractInv
<1>5. ExtractInv /\ [Next]_vars => ExtractInv'
  BY ExtractStep
<1> QED
  BY <1>1, <1>2, <1>3, <1>4, <1>5, LimitInvariant, PTL DEF GarmsSpec, GarmsTypeOK

=============================================================================
