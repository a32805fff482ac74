--------------------------- MODULE CaseQueueProofs ---------------------------
(***************************************************************************)
(* Proofs about CaseQueue, for every number of applications, reviewers,    *)
(* request slots and cases: the type invariant, and the two invariants of  *)
(* the review that stale case entities cannot break.                       *)
(***************************************************************************)
EXTENDS MCCaseQueue, SequenceTheorems, FiniteSetTheorems, TLAPS

USE AmendmentsAssumption, NullsAssumption, CaseBoundsAssumption

(***************************************************************************)
(* The inductive invariant.                                                *)
(***************************************************************************)

\* A request that is under way names an application.
RequestsHaveApplications ==
    \A s \in Slots : req[s].op # "idle" => req[s].app \in Applications

\* The case a request has loaded is a case of its application, in the table
\* and in what the request remembers of it.
RequestsNameTheirCase ==
    \A s \in Slots :
        req[s].case # NoCase =>
            /\ req[s].app \in Applications
            /\ case[req[s].case].app = req[s].app
            /\ req[s].snap.app = req[s].app

\* What a claim remembers of its case is not that it is closed.
ClaimsAreOfOpenCases ==
    \A s \in Slots :
        req[s].op = "assign" /\ req[s].case # NoCase
            => req[s].snap.status # "CLOSED"

\* Paid for now or once: a receipted application may be taken out of the queue
\* by its issuance, so the receipt alone must stand for an approval.
ReviewedBeforePayment ==
    \A a \in Applications \ (Amendments \cup staffCart) :
        status[a] \in PaidFor \/ a \in receipted => Approved(a)

QueueInv ==
    /\ TypeOK
    /\ RequestsHaveApplications
    /\ RequestsNameTheirCase
    /\ ClaimsAreOfOpenCases
    /\ ReviewedBeforePayment
    /\ ClosedHasOutcome

-----------------------------------------------------------------------------

\* Empty rows and idle slots are of their types.
LEMMA ConstantTypes == NoRow \in CaseRow /\ Idle \in Requests
<1>1. NoRow \in CaseRow
  BY DEF NoRow, CaseRow
<1>2. Idle \in Requests
  BY <1>1 DEF Idle, Requests, Outcomes, NoCase
<1> QED
  BY <1>1, <1>2

\* findLatest returns a case of the application, or null.
LEMMA LatestIsOwn ==
    ASSUME NEW a, Latest(a) # NoCase
    PROVE  Latest(a) \in Cases /\ case[Latest(a)].app = a
<1>1. PICK c \in Cases : IsLatest(c, a)
  BY DEF Latest
<1>2. IsLatest(Latest(a), a) /\ Latest(a) \in Cases
  BY <1>1 DEF Latest
<1> QED
  BY <1>2 DEF IsLatest, CasesOf

\* A request that ends leaves an idle slot.
LEMMA EndType ==
    ASSUME TypeOK, NEW s \in Slots, End(s)
    PROVE  req' \in [Slots -> Requests]
  BY ConstantTypes DEF End, TypeOK

\* A request that begins leaves a well-typed one.
LEMMA BeginType ==
    ASSUME TypeOK, NEW s \in Slots, NEW op \in Outcomes \cup {"submit", "assign", "update"},
           NEW a \in Applications, NEW u \in Staff \cup {Nobody}, Begin(s, op, a, u)
    PROVE  TypeOK'
<1>1. [Idle EXCEPT !.op = op, !.app = a, !.user = u] \in Requests
  BY ConstantTypes DEF Idle, Requests
<1> QED
  BY <1>1 DEF Begin, TypeOK

\* The log of a case grows by an outcome at its end.
LEMMA LogStep ==
    ASSUME TypeOK, NEW s \in Slots, CommitOutcome(s)
    PROVE  /\ req[s].op \in Outcomes
           /\ req[s].case \in Cases
           /\ outcomes' \in [Cases -> Seq(Outcomes)]
           /\ \A c \in Cases \ {req[s].case} : outcomes'[c] = outcomes[c]
           /\ LET c == req[s].case IN
                /\ Len(outcomes[c]) \in Nat
                /\ Len(outcomes[c]) < MaxOutcomes
                /\ Len(outcomes'[c]) = Len(outcomes[c]) + 1
                /\ outcomes'[c][Len(outcomes[c]) + 1] = req[s].op
                /\ \A i \in 1..Len(outcomes[c]) : outcomes'[c][i] = outcomes[c][i]
<1> DEFINE c == req[s].case
<1>1. req[s].op \in Outcomes /\ c \in Cases /\ Len(outcomes[c]) < MaxOutcomes
  BY DEF CommitOutcome, TypeOK, Requests
<1>2. outcomes[c] \in Seq(Outcomes)
  BY <1>1 DEF TypeOK
<1>3. outcomes' = [outcomes EXCEPT ![c] = Append(outcomes[c], req[s].op)]
  BY DEF CommitOutcome
<1>4. outcomes'[c] = Append(outcomes[c], req[s].op)
  BY <1>1, <1>3 DEF TypeOK
<1>5. /\ Append(outcomes[c], req[s].op) \in Seq(Outcomes)
      /\ Len(Append(outcomes[c], req[s].op)) = Len(outcomes[c]) + 1
      /\ Append(outcomes[c], req[s].op)[Len(outcomes[c]) + 1] = req[s].op
      /\ \A i \in 1..Len(outcomes[c]) :
            Append(outcomes[c], req[s].op)[i] = outcomes[c][i]
      /\ Len(outcomes[c]) \in Nat
  BY <1>1, <1>2, AppendProperties, LenProperties
<1> QED
  BY <1>1, <1>3, <1>4, <1>5 DEF TypeOK

-----------------------------------------------------------------------------
(* Types                                                                   *)

LEMMA TypeInit == Init => TypeOK
<1> SUFFICES ASSUME Init PROVE TypeOK
  OBVIOUS
<1>1. outcomes \in [Cases -> Seq(Outcomes)]
  BY EmptySeq DEF Init
<1> QED
  BY <1>1, ConstantTypes DEF Init, TypeOK

LEMMA TypeStep ==
    ASSUME TypeOK, RequestsHaveApplications, [Next]_vars
    PROVE  TypeOK'
<1> USE DEF TypeOK
<1>1. ASSUME NEW s \in Slots, BeginSubmit(s)
      PROVE  TypeOK'
  BY <1>1, BeginType DEF BeginSubmit
<1>2. ASSUME NEW s \in Slots, CommitSubmit(s)
      PROVE  TypeOK'
  <2>1. req[s].app \in Applications \cup {Nothing}
    BY DEF Requests
  <2>2. PICK c \in Cases :
          case' = [case EXCEPT ![c] = [NoRow EXCEPT !.app = req[s].app, !.status = "OPEN"]]
    BY <1>2 DEF CommitSubmit
  <2>3. [NoRow EXCEPT !.app = req[s].app, !.status = "OPEN"] \in CaseRow
    BY <2>1 DEF NoRow, CaseRow
  <2> QED
    BY <1>2, <2>2, <2>3, EndType DEF CommitSubmit
<1>3. ASSUME NEW s \in Slots, BeginReview(s)
      PROVE  TypeOK'
  BY <1>3, BeginType DEF BeginReview, Outcomes
<1>4. ASSUME NEW s \in Slots, LoadCase(s)
      PROVE  TypeOK'
  <2> DEFINE c == Latest(req[s].app)
  <2>1. c \in Cases
    BY <1>4, LatestIsOwn DEF LoadCase
  <2>2. [req[s] EXCEPT !.case = c, !.snap = case[c]] \in Requests
    BY <2>1 DEF Requests
  <2>3. req' = [req EXCEPT ![s] = [req[s] EXCEPT !.case = c, !.snap = case[c]]]
    BY <1>4 DEF LoadCase, Requests
  <2> QED
    BY <1>4, <2>2, <2>3 DEF LoadCase
<1>5. ASSUME NEW s \in Slots, CommitAssign(s)
      PROVE  TypeOK'
  <2>1. req[s].snap \in CaseRow /\ req[s].user \in Staff \cup {Nobody}
    BY DEF Requests
  <2>2. Claimed(req[s].snap, req[s].user) \in CaseRow
    BY <2>1 DEF Claimed, CaseRow
  <2> QED
    BY <1>5, <2>2, EndType DEF CommitAssign
<1>6. ASSUME NEW s \in Slots, CommitOutcome(s)
      PROVE  TypeOK'
  <2>1. Closed(req[s].snap) \in CaseRow
    <3>1. req[s].snap \in CaseRow
      BY DEF Requests
    <3> QED
      BY <3>1 DEF Closed, CaseRow
  <2>2. case' \in [Cases -> CaseRow]
    BY <1>6, <2>1 DEF CommitOutcome
  <2>3. status' \in [Applications -> {"IN_PROGRESS", "IN_QUEUE", "IN_CART",
                                      "PAYMENT_COMPLETE", "ISSUED", "CANCELLED"}]
    BY <1>6 DEF CommitOutcome, NextStatus
  <2>4. edited' \subseteq Applications /\ UNCHANGED <<staffCart, receipted>>
    BY <1>6 DEF CommitOutcome
  <2>5. outcomes' \in [Cases -> Seq(Outcomes)]
    BY <1>6, LogStep
  <2>6. req' \in [Slots -> Requests]
    BY <1>6, EndType DEF CommitOutcome
  <2> QED
    BY <2>2, <2>3, <2>4, <2>5, <2>6
<1>7. ASSUME NEW s \in Slots, BeginUpdate(s)
      PROVE  TypeOK'
  BY <1>7, BeginType DEF BeginUpdate
<1>8. ASSUME NEW s \in Slots, CommitUpdate(s)
      PROVE  TypeOK'
  BY <1>8, EndType DEF CommitUpdate, RequestsHaveApplications
<1>9. ASSUME NEW s \in Slots, Fail(s)
      PROVE  TypeOK'
  BY <1>9, EndType DEF Fail
<1>10. ASSUME NEW a \in Applications, Elsewhere(a)
       PROVE  TypeOK'
  BY <1>10 DEF Elsewhere, AddToCart, RemoveFromCart, Delete, Pay, Refund, Issue,
               SetStatus, Unqueued
<1>11. CASE UNCHANGED vars
  BY <1>11 DEF vars
<1> QED
  BY <1>1, <1>2, <1>3, <1>4, <1>5, <1>6, <1>7, <1>8, <1>9, <1>10, <1>11
  DEF Next, Handle

-----------------------------------------------------------------------------
(* The requests                                                            *)

\* A step changes one request at most: it begins, loads its case, or ends.
LEMMA RequestStep ==
    ASSUME TypeOK, [Next]_vars, NEW s \in Slots, req'[s] # req[s]
    PROVE  \/ req'[s] = Idle
           \/ req'[s].case = NoCase /\ req'[s].app \in Applications
           \/ LoadCase(s)
<1>1. ASSUME NEW r \in Slots, NEW op, NEW a \in Applications, NEW u, Begin(r, op, a, u)
      PROVE  req'[s].case = NoCase /\ req'[s].app \in Applications
  <2>1. req'[s] = [Idle EXCEPT !.op = op, !.app = a, !.user = u]
    BY <1>1 DEF Begin, TypeOK
  <2> QED
    BY <2>1 DEF Idle
<1>2. ASSUME NEW r \in Slots,
             BeginSubmit(r) \/ BeginReview(r) \/ BeginUpdate(r)
      PROVE  req'[s].case = NoCase /\ req'[s].app \in Applications
  BY <1>1, <1>2 DEF BeginSubmit, BeginReview, BeginUpdate
<1>3. ASSUME NEW r \in Slots, LoadCase(r)
      PROVE  LoadCase(s)
  BY <1>3 DEF LoadCase, TypeOK
<1>4. ASSUME NEW r \in Slots, End(r)
      PROVE  req'[s] = Idle
  BY <1>4 DEF End, TypeOK
<1>5. ASSUME NEW a \in Applications, Elsewhere(a)
      PROVE  UNCHANGED req
  BY <1>5 DEF Elsewhere, AddToCart, RemoveFromCart, Delete, Pay, Refund, Issue, Unqueued
<1>6. CASE UNCHANGED vars
  BY <1>6 DEF vars
<1> QED
  BY <1>2, <1>3, <1>4, <1>5, <1>6
  DEF Next, Handle, CommitSubmit, CommitAssign, CommitOutcome, CommitUpdate, Fail

\* What LoadCase puts in the slot.
LEMMA LoadStep ==
    ASSUME TypeOK, NEW s \in Slots, LoadCase(s)
    PROVE  LET c == Latest(req[s].app) IN
           /\ c \in Cases /\ case[c].app = req[s].app
           /\ req'[s].case = c /\ req'[s].snap = case[c]
           /\ req'[s].app = req[s].app /\ req'[s].op = req[s].op
           /\ req[s].op \in Outcomes \cup {"assign"}
           /\ req[s].op = "assign" => case[c].status # "CLOSED"
           /\ UNCHANGED case
<1> DEFINE c == Latest(req[s].app)
<1>1. c \in Cases /\ case[c].app = req[s].app
  BY LatestIsOwn DEF LoadCase
<1>2. req'[s] = [req[s] EXCEPT !.case = c, !.snap = case[c]]
  BY DEF LoadCase, TypeOK
<1>3. req[s] \in Requests
  BY DEF TypeOK
<1>4. /\ req'[s].case = c /\ req'[s].snap = case[c]
      /\ req'[s].app = req[s].app /\ req'[s].op = req[s].op
  BY <1>2, <1>3 DEF Requests
<1> QED
  BY <1>1, <1>4 DEF LoadCase, Loadable

LEMMA ApplicationsStep ==
    ASSUME TypeOK, RequestsHaveApplications, [Next]_vars
    PROVE  RequestsHaveApplications'
<1> SUFFICES ASSUME NEW s \in Slots, req'[s].op # "idle"
             PROVE  req'[s].app \in Applications
  BY DEF RequestsHaveApplications
<1>1. CASE req'[s] = req[s]
  BY <1>1 DEF RequestsHaveApplications
<1>2. CASE LoadCase(s)
  BY <1>2, LoadStep DEF RequestsHaveApplications
<1> QED
  BY <1>1, <1>2, RequestStep DEF Idle

-----------------------------------------------------------------------------
(* The cases                                                               *)

\* A step writes at most one case row: a new case, or what a request has
\* loaded, claimed or closed.
LEMMA CaseStep ==
    ASSUME TypeOK, [Next]_vars, NEW c \in Cases, case'[c] # case[c]
    PROVE  \/ case[c] = NoRow /\ case'[c].status = "OPEN" /\ UNCHANGED outcomes
           \/ \E s \in Slots :
                /\ c = req[s].case /\ c # NoCase
                /\ \/ /\ CommitAssign(s)
                      /\ case'[c] = Claimed(req[s].snap, req[s].user)
                   \/ /\ CommitOutcome(s)
                      /\ case'[c] = Closed(req[s].snap)
<1>1. ASSUME NEW s \in Slots, CommitSubmit(s)
      PROVE  case[c] = NoRow /\ case'[c].status = "OPEN" /\ UNCHANGED outcomes
  <2>1. PICK d \in Cases :
          /\ case[d] = NoRow
          /\ case' = [case EXCEPT ![d] = [NoRow EXCEPT !.app = req[s].app, !.status = "OPEN"]]
    BY <1>1 DEF CommitSubmit
  <2>2. d = c /\ case'[c] = [NoRow EXCEPT !.app = req[s].app, !.status = "OPEN"]
    BY <2>1 DEF TypeOK
  <2> QED
    BY <1>1, <2>1, <2>2 DEF NoRow, CommitSubmit
<1>2. ASSUME NEW s \in Slots, CommitAssign(s)
      PROVE  /\ c = req[s].case /\ c # NoCase
             /\ case'[c] = Claimed(req[s].snap, req[s].user)
  BY <1>2 DEF CommitAssign, TypeOK
<1>3. ASSUME NEW s \in Slots, CommitOutcome(s)
      PROVE  c = req[s].case /\ c # NoCase /\ case'[c] = Closed(req[s].snap)
  BY <1>3 DEF CommitOutcome, TypeOK
<1>4. ASSUME NEW a \in Applications, Elsewhere(a)
      PROVE  UNCHANGED case
  BY <1>4 DEF Elsewhere, AddToCart, RemoveFromCart, Delete, Pay, Refund, Issue, Unqueued
<1>5. ASSUME NEW s \in Slots, Handle(s)
      PROVE  UNCHANGED case \/ CommitSubmit(s) \/ CommitAssign(s) \/ CommitOutcome(s)
  BY <1>5 DEF Handle, BeginSubmit, BeginReview, LoadCase, BeginUpdate, CommitUpdate,
              Begin, Fail
<1>6. CASE UNCHANGED vars
  BY <1>6 DEF vars
<1> QED
  BY <1>1, <1>2, <1>3, <1>4, <1>5, <1>6 DEF Next

\* A case keeps its application.
LEMMA CaseKeepsApp ==
    ASSUME TypeOK, RequestsNameTheirCase, [Next]_vars, NEW c \in Cases,
           case[c].app \in Applications
    PROVE  case'[c].app = case[c].app
<1>1. CASE case'[c] = case[c]
  BY <1>1
<1>2. CASE case[c] = NoRow
  BY <1>2 DEF NoRow
<1>3. ASSUME NEW s \in Slots, c = req[s].case, c # NoCase,
             \/ case'[c] = Claimed(req[s].snap, req[s].user)
             \/ case'[c] = Closed(req[s].snap)
      PROVE  case'[c].app = case[c].app
  <2>1. req[s].snap \in CaseRow
    BY DEF TypeOK, Requests
  <2>2. case'[c].app = req[s].snap.app
    BY <1>3, <2>1 DEF Claimed, Closed, CaseRow
  <2> QED
    BY <1>3, <2>2 DEF RequestsNameTheirCase
<1> QED
  BY <1>1, <1>2, <1>3, CaseStep

LEMMA NameStep ==
    ASSUME TypeOK, RequestsHaveApplications, RequestsNameTheirCase, [Next]_vars
    PROVE  RequestsNameTheirCase'
<1> SUFFICES ASSUME NEW s \in Slots, req'[s].case # NoCase
             PROVE  /\ req'[s].app \in Applications
                    /\ case'[req'[s].case].app = req'[s].app
                    /\ req'[s].snap.app = req'[s].app
  BY DEF RequestsNameTheirCase
<1>1. CASE req'[s] = req[s]
  <2>1. req[s].case \in Cases
    BY <1>1 DEF TypeOK, Requests
  <2> QED
    BY <1>1, <2>1, CaseKeepsApp DEF RequestsNameTheirCase
<1>2. CASE LoadCase(s)
  BY <1>2, LoadStep DEF RequestsHaveApplications, Outcomes
<1> QED
  BY <1>1, <1>2, RequestStep DEF Idle

LEMMA ClaimStep ==
    ASSUME TypeOK, ClaimsAreOfOpenCases, [Next]_vars
    PROVE  ClaimsAreOfOpenCases'
<1> SUFFICES ASSUME NEW s \in Slots, req'[s].op = "assign", req'[s].case # NoCase
             PROVE  req'[s].snap.status # "CLOSED"
  BY DEF ClaimsAreOfOpenCases
<1>1. CASE req'[s] = req[s]
  BY <1>1 DEF ClaimsAreOfOpenCases
<1>2. CASE LoadCase(s)
  BY <1>2, LoadStep
<1> QED
  BY <1>1, <1>2, RequestStep DEF Idle

-----------------------------------------------------------------------------
(* The outcomes                                                            *)

\* Only a committed outcome writes the log.
LEMMA OutcomeStep ==
    ASSUME [Next]_vars, outcomes' # outcomes
    PROVE  \E s \in Slots : CommitOutcome(s)
<1>1. ASSUME NEW a \in Applications, Elsewhere(a)
      PROVE  FALSE
  BY <1>1 DEF Elsewhere, AddToCart, RemoveFromCart, Delete, Pay, Refund, Issue, Unqueued
<1>2. ASSUME NEW s \in Slots, Handle(s)
      PROVE  CommitOutcome(s)
  BY <1>2 DEF Handle, BeginSubmit, CommitSubmit, BeginReview, LoadCase, CommitAssign,
              BeginUpdate, CommitUpdate, Begin, Fail
<1> QED
  BY <1>1, <1>2 DEF Next, vars

\* What is logged stays logged.
LEMMA LogKept ==
    ASSUME TypeOK, [Next]_vars, NEW c \in Cases
    PROVE  /\ Len(outcomes[c]) \in Nat /\ Len(outcomes'[c]) \in Nat
           /\ Len(outcomes[c]) <= Len(outcomes'[c])
           /\ \A i \in 1..Len(outcomes[c]) : outcomes'[c][i] = outcomes[c][i]
<1>1. Len(outcomes[c]) \in Nat
  BY LenProperties DEF TypeOK
<1>2. CASE outcomes' = outcomes
  BY <1>1, <1>2
<1>3. ASSUME NEW s \in Slots, CommitOutcome(s)
      PROVE  /\ Len(outcomes'[c]) \in Nat
             /\ Len(outcomes[c]) <= Len(outcomes'[c])
             /\ \A i \in 1..Len(outcomes[c]) : outcomes'[c][i] = outcomes[c][i]
  <2>1. CASE c = req[s].case
    BY <1>1, <1>3, <2>1, LogStep
  <2>2. CASE c # req[s].case
    BY <1>1, <1>3, <2>2, LogStep
  <2> QED
    BY <2>1, <2>2
<1> QED
  BY <1>1, <1>2, <1>3, OutcomeStep

\* An approval is never lost.
LEMMA ApprovalKept ==
    ASSUME TypeOK, RequestsNameTheirCase, [Next]_vars,
           NEW a \in Applications, Approved(a)
    PROVE  Approved(a)'
<1>1. PICK c \in CasesOf(a), i \in 1..MaxOutcomes :
        i <= Len(outcomes[c]) /\ outcomes[c][i] = "APPROVED"
  BY DEF Approved
<1>2. c \in Cases /\ case[c].app = a
  BY <1>1 DEF CasesOf
<1>3. case'[c].app = a
  BY <1>2, CaseKeepsApp
<1>4. i <= Len(outcomes'[c]) /\ outcomes'[c][i] = "APPROVED"
  BY <1>1, <1>2, LogKept
<1> QED
  BY <1>1, <1>2, <1>3, <1>4 DEF Approved, CasesOf, Cases

\* An outcome APPROVED is an approval of the application it is for.
LEMMA ApprovalLogged ==
    ASSUME TypeOK, RequestsNameTheirCase, [Next]_vars, NEW s \in Slots,
           NEW a \in Applications, a = req[s].app,
           CommitOutcome(s), req[s].op = "APPROVED"
    PROVE  Approved(a)'
<1> PICK c \in Cases : c = req[s].case
  BY LogStep
<1> PICK i \in Int : i = Len(outcomes[c]) + 1
  BY LogStep
<1>1. i \in 1..MaxOutcomes /\ i <= Len(outcomes'[c]) /\ outcomes'[c][i] = "APPROVED"
  BY LogStep
<1>2. case[c].app = a
  BY DEF CommitOutcome, RequestsNameTheirCase
<1>3. case'[c].app = a
  BY <1>2, CaseKeepsApp
<1> QED
  BY <1>1, <1>3 DEF Approved, CasesOf

\* A case is closed together with the logging of an outcome.
LEMMA ClosedStep ==
    ASSUME TypeOK, ClaimsAreOfOpenCases, ClosedHasOutcome, [Next]_vars
    PROVE  ClosedHasOutcome'
<1> SUFFICES ASSUME NEW c \in Cases, case'[c].status = "CLOSED"
             PROVE  outcomes'[c] # << >>
  BY DEF ClosedHasOutcome
<1>1. CASE case'[c] = case[c]
  <2>1. outcomes[c] # << >>
    BY <1>1 DEF ClosedHasOutcome
  <2>2. Len(outcomes[c]) > 0
    BY <2>1, EmptySeq, LenProperties DEF TypeOK
  <2>3. Len(outcomes'[c]) > 0
    BY <2>2, LogKept
  <2> QED
    BY <2>3, EmptySeq
<1>2. ASSUME NEW s \in Slots, c = req[s].case, c # NoCase, CommitAssign(s),
             case'[c] = Claimed(req[s].snap, req[s].user)
      PROVE  FALSE
  <2>1. req[s].snap \in CaseRow /\ req[s].snap.status # "CLOSED"
    BY <1>2 DEF TypeOK, Requests, ClaimsAreOfOpenCases, CommitAssign
  <2> QED
    BY <1>2, <2>1 DEF Claimed, CaseRow
<1>3. ASSUME NEW s \in Slots, c = req[s].case, CommitOutcome(s)
      PROVE  outcomes'[c] # << >>
  BY <1>3, LogStep, EmptySeq
<1> QED
  BY <1>1, <1>2, <1>3, CaseStep

\* The status of an application becomes one that is paid for by an approval, by
\* staff, or from another one that is; or else it is receipted before.
LEMMA StatusStep ==
    ASSUME TypeOK, [Next]_vars, NEW a \in Applications \ Amendments, a \notin staffCart',
           status'[a] \in PaidFor \/ a \in receipted'
    PROVE  \/ status[a] \in PaidFor \/ a \in receipted
           \/ \E s \in Slots :
                CommitOutcome(s) /\ req[s].app = a /\ req[s].op = "APPROVED"
<1>1. ASSUME NEW s \in Slots, CommitOutcome(s)
      PROVE  \/ status[a] \in PaidFor \/ a \in receipted
             \/ req[s].app = a /\ req[s].op = "APPROVED"
  BY <1>1 DEF CommitOutcome, NextStatus, PaidFor, TypeOK
<1>2. ASSUME NEW b \in Applications, Elsewhere(b)
      PROVE  status[a] \in PaidFor \/ a \in receipted
  <2>1. CASE AddToCart(b)
    BY <2>1 DEF AddToCart, SetStatus, TypeOK
  <2>2. CASE RemoveFromCart(b) \/ Delete(b)
    BY <2>2 DEF RemoveFromCart, Delete, SetStatus, TypeOK, PaidFor
  <2>3. CASE Pay(b)
    BY <2>3 DEF Pay, SetStatus, TypeOK, PaidFor
  <2>4. CASE Refund(b)
    BY <2>4 DEF Refund
  <2>5. CASE Issue(b)
    BY <2>5 DEF Issue, SetStatus, TypeOK
  <2> QED
    BY <1>2, <2>1, <2>2, <2>3, <2>4, <2>5 DEF Elsewhere
<1>3. ASSUME NEW s \in Slots, CommitSubmit(s)
      PROVE  status[a] \in PaidFor \/ a \in receipted
  BY <1>3 DEF CommitSubmit, TypeOK, PaidFor
<1>4. CASE UNCHANGED <<status, receipted>>
  BY <1>4
<1>5. ASSUME NEW s \in Slots, Handle(s)
      PROVE  \/ UNCHANGED <<status, receipted>>
             \/ CommitSubmit(s) \/ CommitOutcome(s)
  BY <1>5 DEF Handle, BeginSubmit, BeginReview, LoadCase, CommitAssign, BeginUpdate,
              CommitUpdate, Begin, Fail
<1> QED
  BY <1>1, <1>2, <1>3, <1>4, <1>5 DEF Next, vars

\* What staff put in the cart is remembered.
LEMMA StaffCartGrows ==
    ASSUME [Next]_vars
    PROVE  staffCart \subseteq staffCart'
<1>1. ASSUME NEW b \in Applications, Elsewhere(b)
      PROVE  staffCart \subseteq staffCart'
  BY <1>1 DEF Elsewhere, AddToCart, RemoveFromCart, Delete, Pay, Refund, Issue
<1>2. ASSUME NEW s \in Slots, Handle(s)
      PROVE  UNCHANGED staffCart
  BY <1>2 DEF Handle, BeginSubmit, CommitSubmit, BeginReview, LoadCase, CommitAssign,
              CommitOutcome, BeginUpdate, CommitUpdate, Begin, Fail
<1> QED
  BY <1>1, <1>2 DEF Next, vars

LEMMA ReviewStep ==
    ASSUME TypeOK, RequestsNameTheirCase, ReviewedBeforePayment, [Next]_vars
    PROVE  ReviewedBeforePayment'
<1> SUFFICES ASSUME NEW a \in Applications \ (Amendments \cup staffCart'),
                    status'[a] \in PaidFor \/ a \in receipted'
             PROVE  Approved(a)'
  BY DEF ReviewedBeforePayment
<1>1. a \notin staffCart
  BY StaffCartGrows
<1>2. CASE status[a] \in PaidFor \/ a \in receipted
  BY <1>1, <1>2, ApprovalKept DEF ReviewedBeforePayment
<1>3. ASSUME NEW s \in Slots,
             CommitOutcome(s) /\ req[s].app = a /\ req[s].op = "APPROVED"
      PROVE  Approved(a)'
  BY <1>3, ApprovalLogged
<1> QED
  BY <1>2, <1>3, StatusStep

-----------------------------------------------------------------------------
(* The theorems                                                            *)

LEMMA QueueInvCorrect == Spec => []QueueInv
<1>1. Init => QueueInv
  <2> SUFFICES ASSUME Init PROVE QueueInv
    OBVIOUS
  <2>1. RequestsHaveApplications /\ RequestsNameTheirCase /\ ClaimsAreOfOpenCases
    BY DEF Init, Idle, RequestsHaveApplications, RequestsNameTheirCase,
           ClaimsAreOfOpenCases
  <2>2. ReviewedBeforePayment
    BY DEF Init, ReviewedBeforePayment, PaidFor
  <2>3. ClosedHasOutcome
    BY DEF Init, ClosedHasOutcome, NoRow
  <2> QED
    BY <2>1, <2>2, <2>3, TypeInit DEF QueueInv
<1>2. QueueInv /\ [Next]_vars => QueueInv'
  BY TypeStep, ApplicationsStep, NameStep, ClaimStep, ReviewStep, ClosedStep DEF QueueInv
<1> QED
  BY <1>1, <1>2, PTL DEF Spec

\* The tables and the request slots of the review queue stay well typed.
THEOREM QueueTypeCorrect == Spec => []TypeOK
<1>1. QueueInv => TypeOK
  BY DEF QueueInv
<1> QED
  BY <1>1, QueueInvCorrect, PTL

\* Whatever requests overlap in updateApplicationQueueStatus and assignCase, a
\* new application that staff did not put in the cart gets there by an approval.
THEOREM CartIsReviewed == Spec => []ReviewedBeforeCart
<1>1. QueueInv => ReviewedBeforeCart
  BY DEF QueueInv, ReviewedBeforePayment, ReviewedBeforeCart
<1> QED
  BY <1>1, QueueInvCorrect, PTL

\* Whatever stale case entities are saved, closeCase never leaves a closed case
\* without its activity.
THEOREM ClosedIsLogged == Spec => []ClosedHasOutcome
<1>1. QueueInv => ClosedHasOutcome
  BY DEF QueueInv
<1> QED
  BY <1>1, QueueInvCorrect, PTL

-----------------------------------------------------------------------------
(***************************************************************************)
(* Requests that do not overlap: the queue agrees with its cases, and what *)
(* is paid for is what was approved.  The work of staff on the cart and    *)
(* the issuance still come between the steps of a request.                 *)
(***************************************************************************)

\* One request is under way at a time.
OneBusy == \A s, u \in Slots : req[s] # Idle /\ req[u] # Idle => s = u

Used(c) == case[c].app # Nothing

\* The case table fills from below, and of the cases of an application all but
\* the last are closed.
CasesInOrder ==
    \A c \in Cases :
        /\ case[c] # NoRow => Used(c)
        /\ Used(c) => case[c].status # "NONE"
        /\ \A d \in Cases :
              d < c /\ Used(c) =>
                  /\ Used(d)
                  /\ case[d].app = case[c].app => case[d].status = "CLOSED"

\* An application that has cases has a latest one.
HasLatest ==
    \A a \in Applications : \A c \in CasesOf(a) : \E d \in Cases : IsLatest(d, a)

\* Some case of the application is not closed.
Open(a) == \E c \in CasesOf(a) : case[c].status # "CLOSED"

QueueAgreesWithOpen ==
    \A a \in Applications \ receipted : status[a] = "IN_QUEUE" <=> Open(a)

\* A new application that staff did not put in the cart.
ByReview(a) == a \notin Amendments \cup staffCart

ApprovedLast(a) ==
    \E c \in Cases : IsLatest(c, a) /\ outcomes[c] = <<"APPROVED">>

PaidByApproval ==
    \A a \in Applications :
        ByReview(a) /\ status[a] \in PaidFor => ApprovedLast(a) /\ a \notin edited

\* Once paid for, such an application leaves the cart for good.
PaidStays ==
    \A a \in receipted : ByReview(a) => status[a] \in {"PAYMENT_COMPLETE", "ISSUED"}

\* What a request has read is still so: the status it began with (as far as the
\* payments of staff leave it alone), and the case it loaded.
RequestFresh(s) ==
    LET a == req[s].app  op == req[s].op  c == req[s].case IN
    /\ op \in {"assign", "APPROVED", "REJECTED"} => req[s].user # Nobody
    /\ op \in Outcomes \cup {"assign"} =>
          status[a] = "IN_QUEUE" \/ (a \in receipted /\ ~ByReview(a))
    /\ op \in {"submit", "update"} /\ ByReview(a) => status[a] \notin PaidFor
    /\ c # NoCase =>
          /\ op \in Outcomes \cup {"assign"}
          /\ IsLatest(c, a)
          /\ req[s].snap = case[c]
          /\ Loadable(op, case[c], req[s].user)

RequestsFresh == \A s \in Slots : RequestFresh(s)

TablesInv == CasesInOrder /\ HasLatest /\ OneOutcomePerCase /\ ClaimedIsInReview

SettledInv == QueueAgreesWithOpen /\ PaidByApproval /\ PaidStays

SerialInv == TablesInv /\ SettledInv /\ RequestsFresh

-----------------------------------------------------------------------------
(* The latest case                                                         *)

\* findLatest returns the latest case, if there is a case.
LEMMA LatestIsLatest ==
    ASSUME HasLatest, NEW a \in Applications
    PROVE  /\ \A c \in CasesOf(a) : Latest(a) # NoCase
           /\ Latest(a) # NoCase => IsLatest(Latest(a), a)
           /\ \A c \in Cases : IsLatest(c, a) => Latest(a) = c
<1>1. ASSUME NEW c \in Cases, IsLatest(c, a)
      PROVE  IsLatest(Latest(a), a) /\ Latest(a) = c
  <2>1. IsLatest(Latest(a), a)
    BY <1>1 DEF Latest
  <2> QED
    BY <1>1, <2>1 DEF IsLatest, CasesOf, Cases
<1>2. ASSUME Latest(a) # NoCase
      PROVE  \E c \in Cases : IsLatest(c, a)
  BY <1>2 DEF Latest
<1>3. ASSUME NEW c \in CasesOf(a)
      PROVE  Latest(a) # NoCase
  <2>1. PICK d \in Cases : IsLatest(d, a)
    BY DEF HasLatest
  <2> QED
    BY <1>1, <2>1 DEF Cases, NoCase
<1> QED
  BY <1>1, <1>2, <1>3

\* The latest case tells whether any case of the application is open.
LEMMA LatestTells ==
    ASSUME CasesInOrder, HasLatest, NEW a \in Applications
    PROVE  HasOpenCase(a) <=> Open(a)
<1>1. ASSUME HasOpenCase(a)
      PROVE  Open(a)
  BY <1>1, LatestIsLatest DEF HasOpenCase, Open, IsLatest
<1>2. ASSUME NEW c \in CasesOf(a), case[c].status # "CLOSED"
      PROVE  HasOpenCase(a)
  <2>1. PICK d \in Cases : IsLatest(d, a)
    BY DEF HasLatest
  <2>2. c \in Cases /\ c <= d /\ case[c].app = a /\ case[d].app = a
    BY <2>1 DEF IsLatest, CasesOf
  <2>3. ~(c < d)
    BY <1>2, <2>2 DEF CasesInOrder, Used
  <2>4. c = d
    BY <2>2, <2>3 DEF Cases
  <2>5. Latest(a) = c /\ Latest(a) # NoCase
    BY <2>1, <2>4, LatestIsLatest DEF Cases, NoCase
  <2> QED
    BY <1>2, <2>5 DEF HasOpenCase
<1> QED
  BY <1>1, <1>2 DEF Open

\* The serial properties in terms of the latest case.
LEMMA SerialInvImplies ==
    ASSUME SerialInv
    PROVE  /\ QueueAgreesWithCase /\ OneOutcomePerCase /\ ClaimedIsInReview
           /\ PaidAsApproved
<1>1. CasesInOrder /\ HasLatest /\ OneOutcomePerCase /\ ClaimedIsInReview
  BY DEF SerialInv, TablesInv
<1>2. QueueAgreesWithCase
  BY <1>1, LatestTells DEF SerialInv, SettledInv, QueueAgreesWithOpen, QueueAgreesWithCase
<1>3. PaidAsApproved
  <2> SUFFICES ASSUME NEW a \in Applications, ByReview(a), status[a] \in PaidFor
               PROVE  /\ Latest(a) # NoCase
                      /\ outcomes[Latest(a)] = <<"APPROVED">>
                      /\ a \notin edited
    BY DEF PaidAsApproved, ByReview
  <2>1. ApprovedLast(a) /\ a \notin edited
    BY DEF SerialInv, SettledInv, PaidByApproval
  <2>2. PICK c \in Cases : IsLatest(c, a) /\ outcomes[c] = <<"APPROVED">>
    BY <2>1 DEF ApprovedLast
  <2>3. Latest(a) = c /\ c # NoCase
    BY <1>1, <2>2, LatestIsLatest DEF Cases, NoCase
  <2> QED
    BY <2>1, <2>2, <2>3
<1> QED
  BY <1>1, <1>2, <1>3

-----------------------------------------------------------------------------
(* The steps that leave the cases alone                                    *)

LEMMA TablesKept ==
    ASSUME TablesInv, UNCHANGED <<case, outcomes>>
    PROVE  /\ TablesInv'
           /\ \A a : Open(a)' <=> Open(a)
           /\ \A a : ApprovedLast(a)' <=> ApprovedLast(a)
           /\ \A a, c : IsLatest(c, a)' <=> IsLatest(c, a)
<1>1. \A a : CasesOf(a)' = CasesOf(a)
  BY DEF CasesOf
<1>2. \A a, c : IsLatest(c, a)' <=> IsLatest(c, a)
  BY <1>1 DEF IsLatest
<1>3. CasesInOrder'
  BY DEF TablesInv, CasesInOrder, Used
<1>4. HasLatest'
  BY <1>1, <1>2 DEF TablesInv, HasLatest
<1>5. OneOutcomePerCase' /\ ClaimedIsInReview'
  BY DEF TablesInv, OneOutcomePerCase, ClaimedIsInReview
<1> QED
  BY <1>1, <1>2, <1>3, <1>4, <1>5 DEF TablesInv, Open, ApprovedLast

\* A request that ends leaves no request.
LEMMA AllIdle ==
    ASSUME TypeOK, OneBusy, NEW s \in Slots, req[s] # Idle, End(s)
    PROVE  \A u \in Slots : req'[u] = Idle
  BY DEF OneBusy, End, TypeOK

LEMMA IdleFresh ==
    ASSUME \A u \in Slots : req'[u] = Idle
    PROVE  RequestsFresh'
  BY DEF RequestsFresh, RequestFresh, Idle, Outcomes, NoCase

\* A request begins with the status that its handler has checked.
LEMMA FreshBegin ==
    ASSUME TypeOK, SerialInv, OneBusy', NEW s \in Slots, NEW a \in Applications,
           NEW op \in Outcomes \cup {"submit", "assign", "update"},
           NEW u \in Staff \cup {Nobody}, Begin(s, op, a, u),
           op \in {"assign", "APPROVED", "REJECTED"} => u # Nobody,
           op \in Outcomes \cup {"assign"} => status[a] = "IN_QUEUE",
           op \in {"submit", "update"} => status[a] \notin PaidFor
    PROVE  SerialInv'
<1>1. req'[s] = [Idle EXCEPT !.op = op, !.app = a, !.user = u]
  BY DEF Begin, TypeOK
<1>2. req'[s].op = op /\ req'[s].app = a /\ req'[s].user = u /\ req'[s].case = NoCase
  BY <1>1 DEF Idle
<1>3. req'[s] # Idle
  BY <1>2 DEF Idle, Outcomes
<1>4. \A r \in Slots \ {s} : req'[r] = Idle
  BY <1>3 DEF OneBusy
<1>5. UNCHANGED <<status, case, outcomes, edited, staffCart, receipted>>
  BY DEF Begin
<1>6. ASSUME NEW r \in Slots
      PROVE  RequestFresh(r)'
  <2>1. CASE r = s
    BY <1>2, <1>5, <2>1 DEF RequestFresh, ByReview, PaidFor
  <2>2. CASE r # s
    <3>1. req'[r] = Idle
      BY <1>4, <2>2
    <3> QED
      BY <3>1 DEF RequestFresh, Idle, Outcomes, NoCase
  <2> QED
    BY <2>1, <2>2
<1>7. TablesInv' /\ SettledInv'
  BY <1>5, TablesKept DEF SerialInv, SettledInv, QueueAgreesWithOpen, PaidByApproval,
                          PaidStays, ByReview, PaidFor
<1> QED
  BY <1>6, <1>7 DEF SerialInv, RequestsFresh

LEMMA SerialBegins ==
    ASSUME TypeOK, SerialInv, OneBusy', NEW s \in Slots,
           BeginSubmit(s) \/ BeginReview(s) \/ BeginUpdate(s)
    PROVE  SerialInv'
<1>1. CASE BeginSubmit(s)
  <2>1. PICK a \in Applications :
          status[a] = "IN_PROGRESS" /\ Begin(s, "submit", a, Nobody)
    BY <1>1 DEF BeginSubmit
  <2> QED
    BY <2>1, FreshBegin DEF PaidFor, Outcomes
<1>2. CASE BeginReview(s)
  <2>1. PICK a \in Applications :
          /\ status[a] = "IN_QUEUE"
          /\ \/ Begin(s, "WITHDRAWN", a, Nobody)
             \/ \E u \in Staff, op \in {"assign", "APPROVED", "REJECTED"} :
                  Begin(s, op, a, u)
    BY <1>2 DEF BeginReview
  <2>2. CASE Begin(s, "WITHDRAWN", a, Nobody)
    BY <2>1, <2>2, FreshBegin DEF Outcomes
  <2>3. ASSUME NEW u \in Staff, NEW op \in {"assign", "APPROVED", "REJECTED"},
               Begin(s, op, a, u)
        PROVE  SerialInv'
    <3>1. u # Nobody /\ u \in Staff \cup {Nobody}
      OBVIOUS
    <3>2. /\ op \in Outcomes \cup {"submit", "assign", "update"}
          /\ op \notin {"submit", "update"}
      BY DEF Outcomes
    <3> QED
      BY <2>1, <2>3, <3>1, <3>2, FreshBegin
  <2> QED
    BY <2>1, <2>2, <2>3
<1>3. CASE BeginUpdate(s)
  <2>1. PICK a \in Applications, u \in Staff \cup {Nobody} :
          Editable(a, u) /\ Begin(s, "update", a, u)
    BY <1>3 DEF BeginUpdate
  <2>2. status[a] \notin PaidFor
    BY <2>1 DEF Editable, PaidFor
  <2> QED
    BY <2>1, <2>2, FreshBegin DEF Outcomes
<1> QED
  BY <1>1, <1>2, <1>3

\* A review loads the latest case.
LEMMA SerialLoads ==
    ASSUME TypeOK, SerialInv, OneBusy, RequestsHaveApplications, NEW s \in Slots, LoadCase(s)
    PROVE  SerialInv'
<1>1. UNCHANGED <<status, case, outcomes, edited, staffCart, receipted>>
  BY DEF LoadCase
<1>2. TablesInv' /\ SettledInv'
  BY <1>1, TablesKept DEF SerialInv, SettledInv, QueueAgreesWithOpen, PaidByApproval,
                          PaidStays, ByReview, PaidFor
<1>3. req[s].op # "idle" /\ req[s] # Idle
  BY DEF LoadCase, Outcomes, Idle
<1>4. req[s].app \in Applications
  BY <1>3 DEF RequestsHaveApplications
<1> PICK c \in Cases : c = Latest(req[s].app)
  BY LoadStep
<1>5. /\ req'[s].case = c /\ req'[s].snap = case[c]
      /\ req'[s].app = req[s].app /\ req'[s].op = req[s].op
      /\ req[s].op \in Outcomes \cup {"assign"}
  BY LoadStep
<1>6. req'[s].user = req[s].user
  <2>1. req'[s] = [req[s] EXCEPT !.case = c, !.snap = case[c]]
    BY DEF LoadCase, TypeOK
  <2> QED
    BY <2>1 DEF TypeOK, Requests
<1>7. IsLatest(c, req[s].app) /\ Loadable(req[s].op, case[c], req[s].user)
  BY <1>4, LatestIsLatest DEF LoadCase, SerialInv, TablesInv
<1>8. \A a : IsLatest(c, a)' <=> IsLatest(c, a)
  BY <1>1, TablesKept DEF SerialInv
<1>9. RequestFresh(s)'
  <2>1. RequestFresh(s)
    BY DEF SerialInv, RequestsFresh
  <2> QED
    BY <1>1, <1>5, <1>6, <1>7, <1>8, <2>1 DEF RequestFresh, ByReview, PaidFor, Loadable
<1>10. ASSUME NEW r \in Slots, r # s
       PROVE  RequestFresh(r)'
  <2>1. req[r] = Idle
    BY <1>3, <1>10 DEF OneBusy
  <2>2. req'[r] = Idle
    BY <1>10, <2>1 DEF LoadCase, TypeOK
  <2> QED
    BY <2>2 DEF RequestFresh, Idle, Outcomes, NoCase
<1> QED
  BY <1>2, <1>9, <1>10 DEF SerialInv, RequestsFresh

-----------------------------------------------------------------------------
(* The work of staff on the cart, and the issuance                         *)

\* A request stays fresh when the status of an application changes, unless it
\* was waiting or becomes paid for.
LEMMA ElsewhereFresh ==
    ASSUME TypeOK, SerialInv, RequestsHaveApplications, UNCHANGED <<case, outcomes, req>>,
           staffCart \subseteq staffCart', receipted \subseteq receipted',
           \A a \in Applications :
              /\ status[a] = "IN_QUEUE" =>
                    status'[a] = "IN_QUEUE" \/ (a \in receipted /\ ~ByReview(a))
              /\ ByReview(a)' /\ status'[a] \in PaidFor => status[a] \in PaidFor
    PROVE  RequestsFresh'
<1> SUFFICES ASSUME NEW s \in Slots PROVE RequestFresh(s)'
  BY DEF RequestsFresh
<1>1. RequestFresh(s)
  BY DEF SerialInv, RequestsFresh
<1>2. \A a, c : IsLatest(c, a)' <=> IsLatest(c, a)
  BY TablesKept DEF SerialInv
<1>3. \A a : ByReview(a)' => ByReview(a)
  BY DEF ByReview
<1>4. CASE req[s].op = "idle"
  BY <1>1, <1>2, <1>4 DEF RequestFresh, Outcomes
<1>5. CASE req[s].op # "idle"
  <2>1. req[s].app \in Applications
    BY <1>5 DEF RequestsHaveApplications
  <2>2. PaidFor' = PaidFor
    BY DEF PaidFor
  <2> QED
    BY <1>1, <1>2, <1>3, <2>1, <2>2 DEF RequestFresh, Loadable
<1> QED
  BY <1>4, <1>5

LEMMA SerialElsewhere ==
    ASSUME TypeOK, SerialInv, RequestsHaveApplications, NEW b \in Applications, Elsewhere(b)
    PROVE  SerialInv'
<1>1. UNCHANGED <<case, outcomes, edited, req>>
  BY DEF Elsewhere, AddToCart, RemoveFromCart, Delete, Pay, Refund, Issue, Unqueued
<1>2. /\ TablesInv'
      /\ \A a : Open(a)' <=> Open(a)
      /\ \A a : ApprovedLast(a)' <=> ApprovedLast(a)
  BY <1>1, TablesKept DEF SerialInv
<1>3. staffCart \subseteq staffCart' /\ receipted \subseteq receipted'
  BY DEF Elsewhere, AddToCart, RemoveFromCart, Delete, Pay, Refund, Issue
<1>4. \A a \in Applications \ {b} :
        /\ status'[a] = status[a]
        /\ a \in receipted' <=> a \in receipted
        /\ a \in staffCart' <=> a \in staffCart
  BY DEF Elsewhere, AddToCart, RemoveFromCart, Delete, Pay, Refund, Issue, SetStatus, TypeOK
<1>5. /\ ByReview(b)' /\ b \in receipted' => status'[b] \in {"PAYMENT_COMPLETE", "ISSUED"}
      /\ ByReview(b)' /\ status'[b] \in PaidFor => status[b] \in PaidFor
      /\ b \notin receipted' => (status'[b] = "IN_QUEUE" <=> status[b] = "IN_QUEUE")
      /\ status[b] = "IN_QUEUE" =>
            status'[b] = "IN_QUEUE" \/ (b \in receipted /\ ~ByReview(b))
  <2>1. ByReview(b) /\ b \in receipted => status[b] \in {"PAYMENT_COMPLETE", "ISSUED"}
    BY DEF SerialInv, SettledInv, PaidStays
  <2>2. CASE AddToCart(b)
    BY <2>1, <2>2 DEF AddToCart, SetStatus, TypeOK, ByReview
  <2>3. CASE RemoveFromCart(b) \/ Delete(b)
    BY <2>1, <2>3 DEF RemoveFromCart, Delete, SetStatus, TypeOK, ByReview, PaidFor
  <2>4. CASE Pay(b)
    BY <2>1, <2>4 DEF Pay, SetStatus, TypeOK, ByReview, PaidFor
  <2>5. CASE Refund(b)
    BY <2>1, <2>5 DEF Refund, ByReview
  <2>6. CASE Issue(b)
    BY <2>1, <2>6 DEF Issue, SetStatus, TypeOK, ByReview, PaidFor
  <2> QED
    BY <2>2, <2>3, <2>4, <2>5, <2>6 DEF Elsewhere
<1>6. SettledInv'
  <2>1. QueueAgreesWithOpen'
    BY <1>2, <1>3, <1>4, <1>5 DEF SerialInv, SettledInv, QueueAgreesWithOpen
  <2>2. PaidByApproval'
    <3> SUFFICES ASSUME NEW a \in Applications, ByReview(a)', status'[a] \in PaidFor
                 PROVE  ApprovedLast(a)' /\ a \notin edited'
      BY DEF PaidByApproval, PaidFor
    <3>1. ByReview(a) /\ status[a] \in PaidFor
      BY <1>3, <1>4, <1>5 DEF ByReview
    <3> QED
      BY <1>1, <1>2, <3>1 DEF SerialInv, SettledInv, PaidByApproval
  <2>3. PaidStays'
    <3> SUFFICES ASSUME NEW a \in receipted', ByReview(a)'
                 PROVE  status'[a] \in {"PAYMENT_COMPLETE", "ISSUED"}
      BY DEF PaidStays
    <3>1. ByReview(a)
      BY <1>3 DEF ByReview
    <3>2. a \in Applications
      BY DEF TypeOK, Elsewhere, AddToCart, RemoveFromCart, Delete, Pay, Refund, Issue
    <3> QED
      BY <1>4, <1>5, <3>1, <3>2 DEF SerialInv, SettledInv, PaidStays
  <2> QED
    BY <2>1, <2>2, <2>3 DEF SettledInv
<1>7. RequestsFresh'
  <2>1. \A a \in Applications :
          /\ status[a] = "IN_QUEUE" =>
                status'[a] = "IN_QUEUE" \/ (a \in receipted /\ ~ByReview(a))
          /\ ByReview(a)' /\ status'[a] \in PaidFor => status[a] \in PaidFor
    BY <1>4, <1>5
  <2> QED
    BY <1>1, <1>3, <2>1, ElsewhereFresh
<1> QED
  BY <1>2, <1>6, <1>7 DEF SerialInv

-----------------------------------------------------------------------------
(* The commits                                                             *)

\* An edit is of an application that is not paid for.
LEMMA SerialUpdates ==
    ASSUME TypeOK, SerialInv, OneBusy, RequestsHaveApplications,
           NEW s \in Slots, CommitUpdate(s) \/ Fail(s)
    PROVE  SerialInv'
<1>1. UNCHANGED <<status, case, outcomes, staffCart, receipted>>
  BY DEF CommitUpdate, Fail
<1>2. RequestsFresh'
  BY AllIdle, IdleFresh DEF CommitUpdate, Fail, Idle
<1>3. \A a : ByReview(a) /\ status[a] \in PaidFor /\ a \in edited' => a \in edited
  BY DEF CommitUpdate, Fail, SerialInv, RequestsFresh, RequestFresh
<1>4. TablesInv' /\ SettledInv'
  BY <1>1, <1>3, TablesKept
  DEF SerialInv, SettledInv, QueueAgreesWithOpen, PaidByApproval, PaidStays, ByReview, PaidFor
<1> QED
  BY <1>2, <1>4 DEF SerialInv

\* addApplicationToQueue and openCase: a new case, after the closed ones.
LEMMA SerialSubmits ==
    ASSUME TypeOK, SerialInv, OneBusy, RequestsHaveApplications,
           NEW s \in Slots, CommitSubmit(s)
    PROVE  SerialInv'
<1>1. req[s].op = "submit" /\ req[s] # Idle /\ req[s].app \in Applications
  BY DEF CommitSubmit, Idle, RequestsHaveApplications
<1> PICK a \in Applications : a = req[s].app
  BY <1>1
<1>2. CasesInOrder /\ HasLatest
  BY DEF SerialInv, TablesInv
<1>3. \A d \in CasesOf(a) : case[d].status = "CLOSED"
  BY <1>2, LatestTells DEF CommitSubmit, Open
<1> PICK c \in Cases :
      /\ case[c] = NoRow
      /\ \A d \in Cases : d < c => case[d] # NoRow
      /\ case' = [case EXCEPT ![c] = [NoRow EXCEPT !.app = a, !.status = "OPEN"]]
  BY DEF CommitSubmit
<1>4. case'[c].app = a /\ case'[c].status = "OPEN" /\ case'[c].assignee = Nobody
  BY DEF TypeOK, NoRow
<1>5. \A d \in Cases \ {c} : case'[d] = case[d]
  BY DEF TypeOK
<1>6. case[c].app = Nothing /\ case[c].status = "NONE"
  BY DEF NoRow
<1>7. \A d \in Cases : Used(d) <=> d < c
  BY <1>2, <1>6 DEF CasesInOrder, Used, Cases
<1>8. \A b \in Applications \ {a} : CasesOf(b)' = CasesOf(b)
  BY <1>4, <1>5, <1>6 DEF CasesOf
<1>9. CasesOf(a)' = CasesOf(a) \cup {c}
  BY <1>4, <1>5 DEF CasesOf
<1>10. IsLatest(c, a)'
  BY <1>7, <1>9 DEF IsLatest, CasesOf, Used, Cases
<1>11. \A b \in Applications \ {a}, d \in Cases : IsLatest(d, b)' <=> IsLatest(d, b)
  BY <1>8 DEF IsLatest
<1>12. CasesInOrder'
  <2> SUFFICES ASSUME NEW e \in Cases
               PROVE  /\ case'[e] # NoRow => Used(e)'
                      /\ Used(e)' => case'[e].status # "NONE"
                      /\ \A d \in Cases :
                            d < e /\ Used(e)' =>
                              /\ Used(d)'
                              /\ case'[d].app = case'[e].app => case'[d].status = "CLOSED"
    BY DEF CasesInOrder, NoRow
  <2>1. CASE e = c
    <3>1. \A d \in Cases : d < c => d # c /\ Used(d) /\ case'[d] = case[d]
      BY <1>5, <1>7 DEF Cases
    <3>2. \A d \in Cases : d < c /\ case[d].app = a => case[d].status = "CLOSED"
      BY <1>3 DEF CasesOf
    <3> QED
      BY <1>4, <2>1, <3>1, <3>2 DEF Used
  <2>2. CASE e # c
    <3>1. \A d \in Cases : d < e /\ Used(e) => d # c
      BY <1>7 DEF Cases
    <3> QED
      BY <1>2, <1>5, <2>2, <3>1 DEF CasesInOrder, Used
  <2> QED
    BY <2>1, <2>2
<1>13. HasLatest'
  BY <1>2, <1>8, <1>10, <1>11 DEF HasLatest
<1>14. OneOutcomePerCase' /\ ClaimedIsInReview'
  <2>1. OneOutcomePerCase /\ ClaimedIsInReview /\ UNCHANGED outcomes
    BY DEF CommitSubmit, SerialInv, TablesInv
  <2>2. OneOutcomePerCase'
    BY <1>4, <1>5, <1>6, <2>1 DEF OneOutcomePerCase
  <2>3. ClaimedIsInReview'
    BY <1>4, <1>5, <2>1 DEF ClaimedIsInReview
  <2> QED
    BY <2>2, <2>3
<1>15. /\ UNCHANGED <<outcomes, edited, staffCart, receipted>>
       /\ status' = [status EXCEPT ![a] = "IN_QUEUE"]
  BY DEF CommitSubmit
<1>16. status'[a] = "IN_QUEUE" /\ \A b \in Applications \ {a} : status'[b] = status[b]
  BY <1>15 DEF TypeOK
<1>17. QueueAgreesWithOpen'
  <2>1. Open(a)'
    BY <1>4, <1>9 DEF Open
  <2>2. \A b \in Applications \ {a} : Open(b)' <=> Open(b)
    BY <1>5, <1>6, <1>8 DEF Open, CasesOf
  <2> QED
    BY <1>15, <1>16, <2>1, <2>2 DEF SerialInv, SettledInv, QueueAgreesWithOpen
<1>18. PaidByApproval'
  BY <1>11, <1>15, <1>16
  DEF SerialInv, SettledInv, PaidByApproval, ApprovedLast, ByReview, PaidFor
<1>19. PaidStays'
  <2>1. ~(ByReview(a) /\ a \in receipted)
    BY <1>1 DEF SerialInv, RequestsFresh, RequestFresh, SettledInv, PaidStays, PaidFor
  <2> QED
    BY <1>15, <1>16, <2>1 DEF SerialInv, SettledInv, PaidStays, ByReview, TypeOK
<1>20. RequestsFresh'
  BY <1>1, AllIdle, IdleFresh DEF CommitSubmit
<1> QED
  BY <1>12, <1>13, <1>14, <1>17, <1>18, <1>19, <1>20 DEF SerialInv, TablesInv, SettledInv

\* The latest case of an application is saved.
LEMMA LatestSaved ==
    ASSUME TypeOK, CasesInOrder, HasLatest, NEW a \in Applications, NEW c \in Cases,
           IsLatest(c, a), \A d \in Cases \ {c} : case'[d] = case[d],
           case'[c].app = a, case'[c].status # "NONE"
    PROVE  /\ CasesInOrder' /\ HasLatest'
           /\ \A b, d : IsLatest(d, b)' <=> IsLatest(d, b)
           /\ \A b : CasesOf(b)' = CasesOf(b)
           /\ \A d \in CasesOf(a) \ {c} : case[d].status = "CLOSED"
<1>1. case[c].app = a /\ Used(c) /\ Used(c)'
  BY DEF IsLatest, CasesOf, Used
<1>2. \A d \in Cases : case'[d].app = case[d].app
  BY <1>1
<1>3. \A b : CasesOf(b)' = CasesOf(b)
  BY <1>2 DEF CasesOf
<1>4. \A b, d : IsLatest(d, b)' <=> IsLatest(d, b)
  BY <1>3 DEF IsLatest
<1>5. HasLatest'
  BY <1>3, <1>4 DEF HasLatest
<1>6. \A d \in CasesOf(a) \ {c} : d < c /\ d \in Cases /\ case[d].app = a
  BY DEF IsLatest, CasesOf, Cases
<1>7. \A d \in CasesOf(a) \ {c} : case[d].status = "CLOSED"
  BY <1>1, <1>6 DEF CasesInOrder
<1>8. CasesInOrder'
  <2> SUFFICES ASSUME NEW e \in Cases
               PROVE  /\ case'[e] # NoRow => Used(e)'
                      /\ Used(e)' => case'[e].status # "NONE"
                      /\ \A d \in Cases :
                            d < e /\ Used(e)' =>
                              /\ Used(d)'
                              /\ case'[d].app = case'[e].app => case'[d].status = "CLOSED"
    BY DEF CasesInOrder, NoRow
  <2>1. /\ case[e] # NoRow => Used(e)
        /\ Used(e) => case[e].status # "NONE"
        /\ \A d \in Cases :
              d < e /\ Used(e) =>
                /\ Used(d)
                /\ case[d].app = case[e].app => case[d].status = "CLOSED"
    BY DEF CasesInOrder
  <2>2. \A d \in Cases : Used(d)' <=> Used(d)
    BY <1>2 DEF Used
  <2>3. /\ case'[e] # NoRow => Used(e)'
        /\ Used(e)' => case'[e].status # "NONE"
    BY <1>1, <2>1, <2>2
  <2>4. ASSUME NEW d \in Cases, d < e, Used(e)', case'[d].app = case'[e].app
        PROVE  case'[d].status = "CLOSED"
    <3>1. case[d].app = case[e].app /\ case[d].status = "CLOSED"
      BY <1>2, <2>1, <2>2, <2>4
    <3>2. d # c
      <4> SUFFICES ASSUME d = c PROVE FALSE
        OBVIOUS
      <4>1. e \in CasesOf(a)
        BY <1>1, <3>1 DEF CasesOf
      <4> QED
        BY <2>4, <4>1 DEF IsLatest, Cases
    <3> QED
      BY <3>1, <3>2
  <2> QED
    BY <2>1, <2>2, <2>3, <2>4
<1> QED
  BY <1>3, <1>4, <1>5, <1>7, <1>8

\* What a request with a loaded case knows of it.
LEMMA LoadedIsLatest ==
    ASSUME TypeOK, SerialInv, RequestsHaveApplications, NEW s \in Slots, req[s].case # NoCase
    PROVE  /\ req[s] # Idle /\ req[s].app \in Applications
           /\ req[s].op \in Outcomes \cup {"assign"}
           /\ req[s].case \in Cases
           /\ IsLatest(req[s].case, req[s].app)
           /\ case[req[s].case].app = req[s].app
           /\ req[s].snap = case[req[s].case]
           /\ req[s].snap.status \in {"OPEN", "IN_PROGRESS"}
           /\ req[s].op = "assign" => req[s].user # Nobody
<1>1. RequestFresh(s)
  BY DEF SerialInv, RequestsFresh
<1>2. /\ req[s].op \in Outcomes \cup {"assign"}
      /\ IsLatest(req[s].case, req[s].app)
      /\ req[s].snap = case[req[s].case]
      /\ Loadable(req[s].op, req[s].snap, req[s].user)
      /\ req[s].op = "assign" => req[s].user # Nobody
  BY <1>1 DEF RequestFresh
<1>3. req[s] # Idle /\ req[s].app \in Applications
  BY <1>2 DEF Idle, Outcomes, RequestsHaveApplications
<1>4. req[s].case \in Cases /\ case[req[s].case].app = req[s].app
  BY <1>2 DEF IsLatest, CasesOf
<1>5. Used(req[s].case) /\ req[s].snap.status # "NONE"
  BY <1>2, <1>3, <1>4 DEF SerialInv, TablesInv, CasesInOrder, Used
<1>6. req[s].snap.status \in {"NONE", "OPEN", "IN_PROGRESS", "CLOSED"}
  BY <1>2, <1>4 DEF TypeOK, CaseRow
<1>7. req[s].snap.status \in {"OPEN", "IN_PROGRESS"}
  BY <1>2, <1>5, <1>6 DEF Loadable, Outcomes
<1> QED
  BY <1>2, <1>3, <1>4, <1>7

\* assignCase: the review has a claimant, and starts if it had not.
LEMMA SerialAssigns ==
    ASSUME TypeOK, SerialInv, OneBusy, RequestsHaveApplications,
           NEW s \in Slots, CommitAssign(s)
    PROVE  SerialInv'
<1>1. req[s].op = "assign" /\ req[s].case # NoCase
  BY DEF CommitAssign
<1> PICK c \in Cases : c = req[s].case
  BY <1>1, LoadedIsLatest
<1> PICK a \in Applications : a = req[s].app
  BY <1>1, LoadedIsLatest
<1>2. /\ req[s] # Idle /\ IsLatest(c, a) /\ case[c].app = a
      /\ req[s].snap = case[c] /\ case[c].status \in {"OPEN", "IN_PROGRESS"}
      /\ req[s].user # Nobody
  BY <1>1, LoadedIsLatest
<1>3. case' = [case EXCEPT ![c] = Claimed(case[c], req[s].user)]
  BY <1>2 DEF CommitAssign
<1>4. case'[c] = Claimed(case[c], req[s].user) /\ case[c] \in CaseRow
  BY <1>3 DEF TypeOK
<1>5. /\ case'[c].app = a /\ case'[c].status = "IN_PROGRESS"
      /\ case'[c].assignee # Nobody
  BY <1>2, <1>4 DEF Claimed, CaseRow
<1>6. \A d \in Cases \ {c} : case'[d] = case[d]
  BY <1>3 DEF TypeOK
<1>7. UNCHANGED <<status, outcomes, edited, staffCart, receipted>>
  BY DEF CommitAssign
<1>8. /\ CasesInOrder' /\ HasLatest'
      /\ \A b, d : IsLatest(d, b)' <=> IsLatest(d, b)
      /\ \A b : CasesOf(b)' = CasesOf(b)
  BY <1>2, <1>5, <1>6, LatestSaved DEF SerialInv, TablesInv
<1>9. \A d \in Cases : case'[d].status = "CLOSED" <=> case[d].status = "CLOSED"
  BY <1>2, <1>5, <1>6
<1>10. OneOutcomePerCase'
  BY <1>7, <1>9 DEF SerialInv, TablesInv, OneOutcomePerCase
<1>11. ClaimedIsInReview'
  BY <1>5, <1>6 DEF SerialInv, TablesInv, ClaimedIsInReview
<1>12. \A b : Open(b)' <=> Open(b)
  BY <1>8, <1>9 DEF Open, CasesOf
<1>13. SettledInv'
  BY <1>7, <1>8, <1>12
  DEF SerialInv, SettledInv, QueueAgreesWithOpen, PaidByApproval, PaidStays, ApprovedLast,
      ByReview, PaidFor
<1>14. RequestsFresh'
  BY <1>2, AllIdle, IdleFresh DEF CommitAssign
<1> QED
  BY <1>8, <1>10, <1>11, <1>13, <1>14 DEF SerialInv, TablesInv

\* workflowEnd, caseWithdrawn and closeCase: one outcome closes the case, and the
\* application leaves the queue.
LEMMA SerialOutcomes ==
    ASSUME TypeOK, SerialInv, OneBusy, RequestsHaveApplications,
           NEW s \in Slots, CommitOutcome(s)
    PROVE  SerialInv'
<1>1. req[s].op \in Outcomes /\ req[s].case # NoCase
  BY DEF CommitOutcome
<1> PICK c \in Cases : c = req[s].case
  BY <1>1, LoadedIsLatest
<1> PICK a \in Applications : a = req[s].app
  BY <1>1, LoadedIsLatest
<1> PICK op \in Outcomes : op = req[s].op
  BY <1>1
<1>2. /\ req[s] # Idle /\ IsLatest(c, a) /\ case[c].app = a
      /\ req[s].snap = case[c] /\ case[c].status \in {"OPEN", "IN_PROGRESS"}
  BY <1>1, LoadedIsLatest
<1>3. case' = [case EXCEPT ![c] = Closed(case[c])]
  BY <1>2 DEF CommitOutcome
<1>4. case'[c] = Closed(case[c]) /\ case[c] \in CaseRow
  BY <1>3 DEF TypeOK
<1>5. case'[c].app = a /\ case'[c].status = "CLOSED"
  BY <1>2, <1>4 DEF Closed, CaseRow
<1>6. \A d \in Cases \ {c} : case'[d] = case[d]
  BY <1>3 DEF TypeOK
<1>7. /\ UNCHANGED <<staffCart, receipted>>
      /\ status' = [status EXCEPT ![a] = NextStatus(op)]
      /\ edited' = IF op = "APPROVED" THEN edited \ {a} ELSE edited
  BY DEF CommitOutcome
<1>8. /\ CasesInOrder' /\ HasLatest'
      /\ \A b, d : IsLatest(d, b)' <=> IsLatest(d, b)
      /\ \A b : CasesOf(b)' = CasesOf(b)
      /\ \A d \in CasesOf(a) \ {c} : case[d].status = "CLOSED"
  BY <1>2, <1>5, <1>6, LatestSaved DEF SerialInv, TablesInv
<1>9. Len(outcomes[c]) = 0
  BY <1>2 DEF SerialInv, TablesInv, OneOutcomePerCase
<1>10. /\ \A d \in Cases \ {c} : outcomes'[d] = outcomes[d]
       /\ outcomes'[c] \in Seq(Outcomes)
       /\ Len(outcomes'[c]) = 1 /\ outcomes'[c][1] = op
  <2>1. \A d \in Cases \ {c} : outcomes'[d] = outcomes[d]
    BY LogStep
  <2>2. outcomes' \in [Cases -> Seq(Outcomes)]
    BY LogStep
  <2>3. Len(outcomes'[c]) = Len(outcomes[c]) + 1
    BY LogStep
  <2>4. outcomes'[c][Len(outcomes[c]) + 1] = op
    BY LogStep
  <2>5. Len(outcomes[c]) + 1 = 1
    BY <1>9
  <2> QED
    BY <2>1, <2>2, <2>3, <2>4, <2>5
<1>11. outcomes'[c] = <<op>>
  <2>1. <<op>> \in Seq(Outcomes) /\ Len(<<op>>) = 1 /\ <<op>>[1] = op
    OBVIOUS
  <2>2. \A i \in 1..1 : outcomes'[c][i] = <<op>>[i]
    BY <1>10, <2>1
  <2> QED
    BY <1>10, <2>1, <2>2, SeqEqual
<1>12. OneOutcomePerCase'
  BY <1>5, <1>6, <1>10 DEF SerialInv, TablesInv, OneOutcomePerCase
<1>13. ClaimedIsInReview'
  BY <1>5, <1>6 DEF SerialInv, TablesInv, ClaimedIsInReview
<1>14. /\ status'[a] = NextStatus(op)
       /\ \A b \in Applications \ {a} : status'[b] = status[b]
       /\ NextStatus(op) \in {"IN_CART", "IN_PROGRESS"}
       /\ NextStatus(op) = "IN_CART" <=> op = "APPROVED"
  BY <1>7 DEF TypeOK, NextStatus
<1>15. QueueAgreesWithOpen'
  <2>1. ~Open(a)'
    BY <1>5, <1>6, <1>8 DEF Open, CasesOf
  <2>2. \A b \in Applications \ {a} : Open(b)' <=> Open(b)
    BY <1>2, <1>6, <1>8 DEF Open, CasesOf
  <2> QED
    BY <1>7, <1>14, <2>1, <2>2 DEF SerialInv, SettledInv, QueueAgreesWithOpen
<1>16. PaidByApproval'
  <2> SUFFICES ASSUME NEW b \in Applications, ByReview(b)', status'[b] \in PaidFor
               PROVE  ApprovedLast(b)' /\ b \notin edited'
    BY DEF PaidByApproval, PaidFor
  <2>1. CASE b = a
    <3>1. op = "APPROVED" /\ a \notin edited'
      BY <1>7, <1>14, <2>1 DEF PaidFor
    <3>2. IsLatest(c, a)' /\ outcomes'[c] = <<"APPROVED">>
      BY <1>2, <1>8, <1>11, <3>1
    <3> QED
      BY <2>1, <3>1, <3>2 DEF ApprovedLast
  <2>2. CASE b # a
    <3>1. ApprovedLast(b) /\ b \notin edited
      BY <1>7, <1>14, <2>2 DEF SerialInv, SettledInv, PaidByApproval, ByReview
    <3>2. PICK d \in Cases : IsLatest(d, b) /\ outcomes[d] = <<"APPROVED">>
      BY <3>1 DEF ApprovedLast
    <3>3. d # c
      BY <1>2, <2>2, <3>2 DEF IsLatest, CasesOf
    <3> QED
      BY <1>7, <1>8, <1>10, <3>1, <3>2, <3>3 DEF ApprovedLast
  <2> QED
    BY <2>1, <2>2
<1>17. PaidStays'
  <2>1. ~(ByReview(a) /\ a \in receipted)
    <3>1. status[a] = "IN_QUEUE" \/ (a \in receipted /\ ~ByReview(a))
      BY <1>1 DEF SerialInv, RequestsFresh, RequestFresh
    <3> QED
      BY <3>1 DEF SerialInv, SettledInv, PaidStays
  <2> QED
    BY <1>7, <1>14, <2>1 DEF SerialInv, SettledInv, PaidStays, ByReview, TypeOK
<1>18. RequestsFresh'
  BY <1>2, AllIdle, IdleFresh DEF CommitOutcome
<1> QED
  BY <1>8, <1>12, <1>13, <1>15, <1>16, <1>17, <1>18 DEF SerialInv, TablesInv, SettledInv

-----------------------------------------------------------------------------
(* The theorems about requests that do not overlap                         *)

LEMMA SerialStep ==
    ASSUME QueueInv, SerialInv, OneBusy, OneBusy', [Next]_vars
    PROVE  SerialInv'
<1>1. TypeOK /\ RequestsHaveApplications
  BY DEF QueueInv
<1>2. ASSUME NEW s \in Slots, Handle(s)
      PROVE  SerialInv'
  BY <1>1, <1>2, SerialBegins, SerialSubmits, SerialLoads, SerialAssigns, SerialOutcomes,
     SerialUpdates DEF Handle
<1>3. ASSUME NEW a \in Applications, Elsewhere(a)
      PROVE  SerialInv'
  BY <1>1, <1>3, SerialElsewhere
<1>4. CASE UNCHANGED vars
  <2>1. TablesInv' /\ SettledInv'
    BY <1>4, TablesKept
    DEF vars, SerialInv, SettledInv, QueueAgreesWithOpen, PaidByApproval, PaidStays,
        ByReview, PaidFor
  <2>2. \A a, c : IsLatest(c, a)' <=> IsLatest(c, a)
    BY <1>4, TablesKept DEF vars, SerialInv
  <2>3. RequestsFresh'
    BY <1>4, <2>2
    DEF vars, SerialInv, RequestsFresh, RequestFresh, ByReview, PaidFor, Loadable
  <2> QED
    BY <2>1, <2>3 DEF SerialInv
<1> QED
  BY <1>2, <1>3, <1>4 DEF Next

LEMMA SerialInit ==
    ASSUME Init
    PROVE  SerialInv /\ OneBusy
<1>1. \A a \in Applications : CasesOf(a) = {}
  BY DEF Init, CasesOf, NoRow
<1>2. CasesInOrder
  BY DEF Init, CasesInOrder, Used, NoRow
<1>3. HasLatest
  BY <1>1 DEF HasLatest
<1>4. OneOutcomePerCase /\ ClaimedIsInReview
  BY EmptySeq DEF Init, OneOutcomePerCase, ClaimedIsInReview, NoRow
<1>5. SettledInv
  BY <1>1 DEF Init, SettledInv, QueueAgreesWithOpen, PaidByApproval, PaidStays, PaidFor, Open
<1>6. RequestsFresh /\ OneBusy
  BY DEF Init, RequestsFresh, RequestFresh, OneBusy, Idle, Outcomes, NoCase
<1> QED
  BY <1>2, <1>3, <1>4, <1>5, <1>6 DEF SerialInv, TablesInv

\* Two requests under way would be two slots that are not idle.
LEMMA AtMostOneIsOneBusy ==
    ASSUME IsFiniteSet(Slots)
    PROVE  AtMostOne => OneBusy
<1> SUFFICES ASSUME AtMostOne, NEW s \in Slots, NEW u \in Slots,
                    req[s] # Idle, req[u] # Idle, s # u
             PROVE  FALSE
  BY DEF OneBusy
<1> DEFINE busy == {r \in Slots : req[r] # Idle}
           one == {s}
           two == one \cup {u}
<1>1. IsFiniteSet(busy)
  BY FS_Subset
<1>2. IsFiniteSet(one) /\ Cardinality(one) = 1 /\ u \notin one
  BY FS_Singleton
<1>3. two \subseteq busy
  OBVIOUS
<1>4. IsFiniteSet(two) /\ Cardinality(two) = 2
  <2> HIDE DEF one
  <2>1. IsFiniteSet(two) /\ Cardinality(two) = Cardinality(one) + 1
    BY <1>2, FS_AddElement
  <2> QED
    BY <1>2, <2>1
<1> HIDE DEF two
<1>5. Cardinality(two) <= Cardinality(busy) /\ Cardinality(busy) \in Nat
  BY <1>1, <1>3, FS_Subset, FS_CardinalityType
<1> QED
  BY <1>4, <1>5 DEF AtMostOne

\* What holds of the runs that the initial state has chosen to be serial.
ChosenInv ==
    /\ QueueInv
    /\ serial => SerialInv /\ OneBusy

LEMMA ChosenInvCorrect ==
    ASSUME IsFiniteSet(Slots)
    PROVE  ChosenSpec => []ChosenInv
<1>1. ChosenSpec => Spec
  <2>1. ChosenInit => Init
    BY DEF ChosenInit
  <2>2. [ChosenNext]_ChosenVars => [Next]_vars
    BY DEF ChosenNext, ChosenVars
  <2> QED
    BY <2>1, <2>2, PTL DEF ChosenSpec, Spec
<1>2. ChosenInit => (serial => SerialInv /\ OneBusy)
  BY SerialInit DEF ChosenInit
<1>3. AtMostOne => OneBusy
  BY AtMostOneIsOneBusy
<1>4. AtMostOne' => OneBusy'
  BY <1>3, PTL
<1>5. QueueInv /\ (serial => SerialInv /\ OneBusy) /\ [ChosenNext]_ChosenVars
        => (serial => SerialInv /\ OneBusy)'
  <2> SUFFICES ASSUME QueueInv, serial => SerialInv /\ OneBusy, [ChosenNext]_ChosenVars,
                      serial'
               PROVE  SerialInv' /\ OneBusy'
    OBVIOUS
  <2>1. serial /\ SerialInv /\ OneBusy /\ [Next]_vars
    BY DEF ChosenNext, ChosenVars
  <2>2. OneBusy'
    <3>1. CASE ChosenNext
      <4>1. AtMostOne'
        BY <2>1, <3>1 DEF ChosenNext
      <4> QED
        BY <1>4, <4>1
    <3>2. CASE UNCHANGED ChosenVars
      BY <2>1, <3>2 DEF ChosenVars, vars, OneBusy
    <3> QED
      BY <3>1, <3>2
  <2> QED
    BY <2>1, <2>2, SerialStep
<1> QED
  BY <1>1, <1>2, <1>5, QueueInvCorrect, PTL DEF ChosenSpec, ChosenInv

\* As long as requests do not overlap, an application waits exactly when its
\* latest case is open or in progress, a case is closed with one outcome, and a
\* review has a claimant: for any number of slots, applications and cases.
THEOREM QueueAndCasesAgree ==
    ASSUME IsFiniteSet(Slots)
    PROVE  ChosenSpec => []SerialQueueAgrees
<1>1. ChosenInv => SerialQueueAgrees
  BY SerialInvImplies DEF ChosenInv, SerialQueueAgrees
<1> QED
  BY <1>1, ChosenInvCorrect, PTL

\* As long as requests do not overlap, a client pays for what staff approved, as
\* it was when they approved it.
THEOREM PaidForIsApproved ==
    ASSUME IsFiniteSet(Slots)
    PROVE  ChosenSpec => []SerialPaidAsApproved
<1>1. ChosenInv => SerialPaidAsApproved
  BY SerialInvImplies DEF ChosenInv, SerialPaidAsApproved
<1> QED
  BY <1>1, ChosenInvCorrect, PTL

=============================================================================
