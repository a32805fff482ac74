------------------------ MODULE PermitRegisterProofs ------------------------
(***************************************************************************)
(* Proofs about PermitRegister, for every set of rows and of numbers: what *)
(* a reader of the permit tables may rely on.  PermitPayment implements    *)
(* the register while requests run one at a time, so what is proved here   *)
(* holds of the tables then.                                               *)
(***************************************************************************)
EXTENDS PermitRegister, TLAPS

\* Only what was in force is revised; a row that does not exist revises nothing.
RevisesNumbered ==
    \A p \in Permits :
        /\ stage[p] = "none" => prev[p] = NoPermit
        /\ prev[p] # NoPermit => prev[p] \in Numbered

RegisterInv ==
    /\ TypeOK
    /\ RevisesNumbered
    /\ InForcePaid
    /\ OneOfTwoInForce

-----------------------------------------------------------------------------

LEMMA InitInv == Init => RegisterInv
BY DEF Init, RegisterInv, TypeOK, Stages, RevisesNumbered, InForcePaid, OneOfTwoInForce

LEMMA OpenInv ==
    ASSUME RegisterInv, NEW p \in Permits, NEW q \in Permits \cup {NoPermit}, Open(p, q)
    PROVE  RegisterInv'
<1>1. TypeOK'
  BY DEF RegisterInv, TypeOK, Stages, Open, Numbered
<1>2. \A r \in Permits : stage'[r] = IF r = p THEN "open" ELSE stage[r]
  BY DEF RegisterInv, TypeOK, Open
<1>3. \A r \in Permits : prev'[r] = IF r = p THEN q ELSE prev[r]
  BY DEF RegisterInv, TypeOK, Open
<1>4. Numbered' = Numbered
  BY <1>2 DEF Open, Numbered
<1>5. RevisesNumbered'
  BY <1>2, <1>3, <1>4 DEF RegisterInv, RevisesNumbered, Open
<1>6. InForcePaid'
  BY <1>2 DEF RegisterInv, InForcePaid, Open
<1>7. OneOfTwoInForce'
  \* p is not yet in force, and nothing revises a row that was never in force.
  BY <1>2, <1>3 DEF RegisterInv, RevisesNumbered, Numbered, OneOfTwoInForce, Open
<1> QED
  BY <1>1, <1>5, <1>6, <1>7 DEF RegisterInv

LEMMA PayInv ==
    ASSUME RegisterInv, NEW S \in SUBSET Permits, Pay(S)
    PROVE  RegisterInv'
BY DEF RegisterInv, TypeOK, RevisesNumbered, Numbered, InForcePaid, OneOfTwoInForce, Pay

LEMMA EnterInv ==
    ASSUME RegisterInv, NEW p \in Permits, NEW n \in Numbers, Enter(p, n)
    PROVE  RegisterInv'
<1>1. TypeOK'
  BY DEF RegisterInv, TypeOK, Stages, Enter
<1>2. \A r \in Permits : stage'[r] = IF r = p THEN "inForce"
                                     ELSE IF r = prev[p] THEN "replaced"
                                     ELSE stage[r]
  BY DEF Enter
<1>3. Numbered \subseteq Numbered'
  BY <1>2 DEF Numbered
<1>4. RevisesNumbered'
  <2> SUFFICES ASSUME NEW r \in Permits
               PROVE  /\ stage'[r] = "none" => prev'[r] = NoPermit
                      /\ prev'[r] # NoPermit => prev'[r] \in Numbered'
    BY DEF RevisesNumbered
  <2>1. stage'[r] = "none" => stage[r] = "none"
    BY <1>2
  <2> QED
    BY <2>1, <1>3 DEF RegisterInv, RevisesNumbered, Enter
<1>5. InForcePaid'
  BY <1>2 DEF RegisterInv, InForcePaid, Enter
<1>6. OneOfTwoInForce'
  <2> SUFFICES ASSUME NEW r \in Permits,
                      stage'[r] \in {"inForce", "voided"}, prev'[r] # NoPermit
               PROVE  stage'[prev'[r]] = "replaced"
    BY DEF OneOfTwoInForce
  <2>1. prev'[r] = prev[r] /\ prev[r] \in Permits
    BY DEF RegisterInv, TypeOK, Enter
  <2>2. CASE r = p
    \* p revises a numbered row, which is not p: p was open.
    <3>1. prev[p] # p
      BY <2>1, <2>2 DEF RegisterInv, RevisesNumbered, Numbered, Enter
    <3> QED
      BY <2>1, <2>2, <3>1, <1>2
  <2>3. CASE r # p
    <3>1. stage[r] \in {"inForce", "voided"}
      BY <2>3, <1>2
    <3>2. stage[prev[r]] = "replaced"
      BY <3>1, <2>1 DEF RegisterInv, OneOfTwoInForce
    <3> QED
      BY <3>2, <2>1, <1>2 DEF Enter
  <2> QED
    BY <2>2, <2>3
<1> QED
  BY <1>1, <1>4, <1>5, <1>6 DEF RegisterInv

LEMMA VoidInv ==
    ASSUME RegisterInv, NEW p \in Permits, NEW q \in Permits, NEW n \in Numbers,
           Void(p, q, n)
    PROVE  RegisterInv'
<1>1. TypeOK'
  BY DEF RegisterInv, TypeOK, Stages, Void
<1>2. \A r \in Permits : stage'[r] = IF r = q THEN "voided"
                                     ELSE IF r = p THEN "replaced" ELSE stage[r]
  BY DEF RegisterInv, TypeOK, Void
<1>3. \A r \in Permits : prev'[r] = IF r = q THEN p ELSE prev[r]
  BY DEF RegisterInv, TypeOK, Void
<1>4. p # q
  BY DEF Void
<1>5. Numbered \subseteq Numbered' /\ p \in Numbered'
  BY <1>2, <1>4 DEF Numbered
<1>6. RevisesNumbered'
  <2> SUFFICES ASSUME NEW r \in Permits
               PROVE  /\ stage'[r] = "none" => prev'[r] = NoPermit
                      /\ prev'[r] # NoPermit => prev'[r] \in Numbered'
    BY DEF RevisesNumbered
  <2>1. CASE r = q
    BY <2>1, <1>2, <1>3, <1>5
  <2>2. CASE r # q
    BY <2>2, <1>2, <1>3, <1>5 DEF RegisterInv, RevisesNumbered
  <2> QED
    BY <2>1, <2>2
<1>7. InForcePaid'
  BY <1>2 DEF RegisterInv, InForcePaid, Void
<1>8. OneOfTwoInForce'
  <2> SUFFICES ASSUME NEW r \in Permits,
                      stage'[r] \in {"inForce", "voided"}, prev'[r] # NoPermit
               PROVE  stage'[prev'[r]] = "replaced"
    BY DEF OneOfTwoInForce
  <2>1. CASE r = q
    BY <2>1, <1>2, <1>3, <1>4
  <2>2. CASE r # q
    <3>1. /\ stage[r] \in {"inForce", "voided"}
          /\ prev'[r] = prev[r] /\ prev[r] # NoPermit
      BY <2>2, <1>2, <1>3
    <3>2. stage[prev[r]] = "replaced"
      BY <3>1 DEF RegisterInv, OneOfTwoInForce
    <3>3. prev[r] \in Permits /\ prev[r] # q
      BY <3>1, <3>2 DEF RegisterInv, TypeOK, Void
    <3> QED
      BY <3>1, <3>2, <3>3, <1>2
  <2> QED
    BY <2>1, <2>2
<1> QED
  BY <1>1, <1>6, <1>7, <1>8 DEF RegisterInv

LEMMA NextInv == RegisterInv /\ [Next]_vars => RegisterInv'
<1> SUFFICES ASSUME RegisterInv, [Next]_vars PROVE RegisterInv'
  OBVIOUS
<1>1. CASE \E p \in Permits : \E q \in Permits \cup {NoPermit} : Open(p, q)
  BY <1>1, OpenInv
<1>2. CASE \E S \in SUBSET Permits : Pay(S)
  BY <1>2, PayInv
<1>3. CASE \E p \in Permits : \E n \in Numbers : Enter(p, n)
  BY <1>3, EnterInv
<1>4. CASE \E p, q \in Permits : \E n \in Numbers : Void(p, q, n)
  BY <1>4, VoidInv
<1>5. CASE UNCHANGED vars
  BY <1>5 DEF vars, RegisterInv, TypeOK, RevisesNumbered, Numbered, InForcePaid,
             OneOfTwoInForce
<1> QED
  BY <1>1, <1>2, <1>3, <1>4, <1>5 DEF Next

LEMMA AlwaysRegisterInv == Spec => []RegisterInv
<1> QED
  BY InitInv, NextInv, PTL DEF Spec

\* The register keeps its type: every row that revises revises a row.
THEOREM RegisterTypeCorrect == Spec => []TypeOK
<1>1. RegisterInv => TypeOK
  BY DEF RegisterInv
<1> QED
  BY <1>1, AlwaysRegisterInv, PTL

\* No permit is in force without a receipt, whatever is opened, paid, entered
\* and voided in whatever order.
THEOREM OnlyPaidInForce == Spec => []InForcePaid
<1>1. RegisterInv => InForcePaid
  BY DEF RegisterInv
<1> QED
  BY <1>1, AlwaysRegisterInv, PTL

\* A permit and the revision that replaced it, or the row that voids it, are
\* never in force together.
THEOREM RevisionReplaces == Spec => []OneOfTwoInForce
<1>1. RegisterInv => OneOfTwoInForce
  BY DEF RegisterInv
<1> QED
  BY <1>1, AlwaysRegisterInv, PTL

\* A permit that left force never returns to it, and no numbered row ever
\* changes its number.
THEOREM NeverBackInForce == Spec => ReplacedForGood
<1>1. RegisterInv /\ [Next]_vars =>
        [\A p \in Permits :
            /\ stage[p] = "inForce" => stage'[p] \in {"inForce", "replaced"}
            /\ stage[p] = "replaced" => stage'[p] = "replaced"
            /\ p \in Numbered => number'[p] = number[p]]_vars
  <2> SUFFICES ASSUME RegisterInv, Next, NEW r \in Permits
               PROVE  /\ stage[r] = "inForce" => stage'[r] \in {"inForce", "replaced"}
                      /\ stage[r] = "replaced" => stage'[r] = "replaced"
                      /\ r \in Numbered => number'[r] = number[r]
    OBVIOUS
  <2>1. CASE \E p \in Permits : \E q \in Permits \cup {NoPermit} : Open(p, q)
    BY <2>1 DEF RegisterInv, TypeOK, Open
  <2>2. CASE \E S \in SUBSET Permits : Pay(S)
    BY <2>2 DEF Pay
  <2>3. CASE \E p \in Permits : \E n \in Numbers : Enter(p, n)
    BY <2>3 DEF RegisterInv, TypeOK, Enter, Numbered
  <2>4. CASE \E p, q \in Permits : \E n \in Numbers : Void(p, q, n)
    BY <2>4 DEF RegisterInv, TypeOK, Void, Numbered
  <2> QED
    BY <2>1, <2>2, <2>3, <2>4 DEF Next
<1> QED
  BY <1>1, AlwaysRegisterInv, PTL DEF Spec, ReplacedForGood
=============================================================================
