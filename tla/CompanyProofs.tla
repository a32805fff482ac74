---------------------------- MODULE CompanyProofs ----------------------------
(***************************************************************************)
(* Proofs about what the permits of a company depend on, as MCCompany runs *)
(* it: the policy configuration in use, the company's users, letters of    *)
(* authorization, the money of a permit and the application form, for      *)
(* every number of rows, pods, validations, people and dates.              *)
(***************************************************************************)
EXTENDS MCCompany, SumTheorems, SequenceTheorems, TLAPS

USE PolicyAssumption

(***************************************************************************)
(* Policy: validations that overlap                                        *)
(***************************************************************************)

\* A configuration by which a permit may be priced.
Usable(c) ==
    /\ c \in Configs
    /\ table[c].published /\ ~table[c].draft
    /\ table[c].effective <= now

\* What a pod has loaded was in effect then, and still is.
CachedIsUsable == \A p \in Pods : pod[p].policy # NoConfig => Usable(pod[p].policy)

\* A validation runs in a pod that is up; what it holds, or is about to read
\* from the cache, may be used.
ValidationOK(r) ==
    /\ req[r].pc # "idle" => pod[req[r].pod].up
    /\ req[r].pc = "reread" => pod[req[r].pod].policy # NoConfig
    /\ req[r].pc \in {"store", "commodities", "fill", "validate"} => Usable(req[r].got)

PolicyInv ==
    /\ TypeOK
    /\ CachedIsUsable
    /\ \A r \in Requests : ValidationOK(r)

\* The configuration that the query returns is in effect: there is a first one
\* in the order of the query.
LEMMA CurrentIsUsable ==
    ASSUME Current # NoConfig, TypeOK
    PROVE  Usable(Current)
<1> DEFINE S == InEffect
           IsFirst(c, T) == \A d \in T \ {c} : Later(c, d)
           Good == {T \in SUBSET S : T # {} => \E c \in T : IsFirst(c, T)}
<1>1. S \subseteq Configs /\ IsFiniteSet(S) /\ \A c \in S : Usable(c)
  <2>1. S \subseteq Configs /\ \A c \in S : Usable(c)
    BY DEF InEffect, Active, Usable
  <2> QED
    BY <2>1, FS_Subset
<1>2. /\ \A c, d \in S : c # d => Later(c, d) \/ Later(d, c)
      /\ \A c, d, e \in S : Later(c, d) /\ Later(d, e) => Later(c, e)
  <2>1. \A c \in S : c \in Nat /\ table[c].effective \in Nat
    BY <1>1 DEF TypeOK, Row
  <2> HIDE DEF S
  <2> QED
    BY <2>1 DEF Later
<1>3. {} \in Good
  OBVIOUS
<1>4. ASSUME NEW T \in SUBSET S, T # {}, \A x \in T : T \ {x} \in Good
      PROVE  T \in Good
  <2>1. PICK x \in T : TRUE
    BY <1>4
  <2>2. CASE T = {x}
    BY <2>2
  <2>3. CASE T # {x}
    <3>1. PICK c \in T \ {x} : IsFirst(c, T \ {x})
      BY <1>4, <2>1, <2>3
    <3>2. CASE Later(c, x)
      BY <3>1, <3>2
    <3>3. CASE Later(x, c)
      BY <1>2, <2>1, <3>1, <3>3
    <3> QED
      BY <1>2, <3>1, <3>2, <3>3
  <2> QED
    BY <2>2, <2>3
<1>5. S \in Good
  <2> HIDE DEF Good, S
  <2> QED
    BY <1>1, <1>3, <1>4, SubsetInduction
<1>6. S # {}
  BY DEF Current
<1>7. \E c \in S : \A d \in S \ {c} : Later(c, d)
  BY <1>5, <1>6
<1>8. Current \in S
  BY <1>6, <1>7 DEF Current
<1> QED
  BY <1>1, <1>8

LEMMA InitPolicy == Init => PolicyInv
<1> SUFFICES ASSUME Init PROVE PolicyInv
  OBVIOUS
<1>1. AnyPod \in Pods
  BY DEF AnyPod
<1>2. TypeOK
  BY <1>1 DEF Init, TypeOK, Row, Pod, Down, Request, Idle, Maybe
<1> QED
  BY <1>2 DEF Init, PolicyInv, CachedIsUsable, ValidationOK, Down, Idle

\* A configuration that was usable stays so: rows are inserted, never changed.
LEMMA UsableStays ==
    ASSUME TypeOK,
           \/ UNCHANGED <<table, now>>
           \/ Tick
           \/ \E c \in Configs : Publish(c)
    PROVE  \A c \in Configs : Usable(c) => Usable(c)'
<1>1. CASE UNCHANGED <<table, now>>
  BY <1>1 DEF Usable
<1>2. CASE Tick
  <2>1. \A c \in Configs : table[c].effective \in Nat /\ now \in Nat
    BY DEF TypeOK, Row
  <2> QED
    BY <1>2, <2>1 DEF Usable, Tick
<1>3. ASSUME NEW c \in Configs, Publish(c)
      PROVE  \A d \in Configs : Usable(d) => Usable(d)'
  BY <1>3 DEF Usable, Publish, TypeOK
<1> QED
  BY <1>1, <1>2, <1>3

\* A step of one validation: the others go on as they did, since the pods stay
\* up and keep a configuration.
LEMMA ValidationMoves ==
    ASSUME PolicyInv, NEW r \in Requests, NEW new \in Request,
           req' = [req EXCEPT ![r] = new], UNCHANGED <<table, now>>,
           pod' \in [Pods -> Pod],
           \A p \in Pods : /\ pod'[p].up = pod[p].up
                           /\ ~pod'[p].up => pod'[p] = Down
                           /\ pod'[p].policy # pod[p].policy => Usable(pod'[p].policy),
           new.pc # "idle" => pod'[new.pod].up,
           new.pc = "reread" => pod'[new.pod].policy # NoConfig,
           new.pc \in {"store", "commodities", "fill", "validate"} => Usable(new.got)
    PROVE  PolicyInv'
<1> USE DEF PolicyInv
<1>1. /\ req'[r] = new /\ \A s \in Requests \ {r} : req'[s] = req[s]
      /\ req' \in [Requests -> Request]
      /\ \A s \in Requests : req[s].pod \in Pods
  BY DEF TypeOK, Request
<1>2. \A c : Usable(c) <=> Usable(c)'
  BY DEF Usable
<1>3. TypeOK'
  BY <1>1 DEF TypeOK
<1>4. CachedIsUsable'
  BY <1>2 DEF CachedIsUsable
<1>5. ~Usable(NoConfig)
  BY DEF Usable
<1>6. ASSUME NEW s \in Requests
      PROVE  ValidationOK(s)'
  <2>1. CASE s = r
    BY <1>1, <1>2, <2>1 DEF ValidationOK
  <2>2. CASE s # r
    <3>1. req'[s] = req[s] /\ ValidationOK(s) /\ req[s].pod \in Pods
      BY <1>1, <2>2
    <3> QED
      BY <1>2, <1>5, <3>1 DEF ValidationOK
  <2> QED
    BY <2>1, <2>2
<1> QED
  BY <1>3, <1>4, <1>6

LEMMA PolicyStep ==
    ASSUME PolicyInv, [Next]_vars
    PROVE  PolicyInv'
<1> USE DEF PolicyInv
<1>1. CASE Tick
  <2>1. TypeOK'
    BY <1>1 DEF Tick, TypeOK
  <2>2. \A c : Usable(c) => Usable(c)'
    BY <1>1, UsableStays DEF Usable
  <2> QED
    BY <1>1, <2>1, <2>2 DEF Tick, CachedIsUsable, ValidationOK
<1>2. ASSUME NEW c \in Configs, Publish(c)
      PROVE  PolicyInv'
  <2>1. TypeOK'
    <3>1. PICK draft \in BOOLEAN, e \in now..MaxTime :
             table' = [table EXCEPT ![c] = [published |-> TRUE, draft |-> draft,
                                            effective |-> e]]
      BY <1>2 DEF Publish
    <3>2. e \in 0..MaxTime
      BY DEF TypeOK
    <3>3. [published |-> TRUE, draft |-> draft, effective |-> e] \in Row
      BY <3>2 DEF Row
    <3> QED
      BY <1>2, <3>1, <3>3 DEF Publish, TypeOK
  <2>2. \A d : Usable(d) => Usable(d)'
    BY <1>2, UsableStays DEF Usable
  <2> QED
    BY <1>2, <2>1, <2>2 DEF Publish, CachedIsUsable, ValidationOK
<1>3. ASSUME NEW p \in Pods, Start(p)
      PROVE  PolicyInv'
  <2>1. PICK loaded \in BOOLEAN :
           pod' = [pod EXCEPT ![p] = [Down EXCEPT !.up = TRUE, !.flags = loaded]]
    BY <1>3 DEF Start
  <2>2. pod[p] = Down
    BY <1>3 DEF Start, TypeOK
  <2>3. TypeOK'
    BY <1>3, <2>1 DEF Start, TypeOK, Pod, Down, Maybe
  <2>4. /\ pod'[p].up /\ pod'[p].policy = NoConfig
        /\ \A q \in Pods \ {p} : pod'[q] = pod[q]
    BY <2>1 DEF TypeOK, Down
  <2>5. CachedIsUsable' /\ \A r \in Requests : ValidationOK(r)'
    BY <1>3, <2>2, <2>4 DEF Start, CachedIsUsable, ValidationOK, Usable, TypeOK, Request, Down
  <2> QED
    BY <2>3, <2>5
<1>4. ASSUME NEW p \in Pods, Stop(p)
      PROVE  PolicyInv'
  <2>1. /\ pod'[p] = Down
        /\ \A q \in Pods \ {p} : pod'[q] = pod[q]
        /\ \A r \in Requests : req'[r] = IF req[r].pod = p THEN Idle ELSE req[r]
    BY <1>4 DEF Stop, TypeOK
  <2>2. AnyPod \in Pods
    BY DEF AnyPod
  <2>3. TypeOK'
    BY <1>4, <2>2 DEF Stop, TypeOK, Pod, Down, Maybe, Idle, Request
  <2>4. CachedIsUsable'
    BY <1>4, <2>1 DEF Stop, CachedIsUsable, Usable, Down
  <2>5. ASSUME NEW r \in Requests
        PROVE  ValidationOK(r)'
    BY <1>4, <2>1 DEF Stop, ValidationOK, Usable, Idle, TypeOK, Request
  <2> QED
    BY <2>3, <2>4, <2>5
<1>5. ASSUME NEW r \in Requests,
             \/ \E p \in Pods : Begin(r, p)
             \/ Fetch(r) \/ Store(r) \/ Reread(r)
             \/ Commodities(r) \/ Fill(r) \/ Validate(r)
      PROVE  PolicyInv'
  <2> USE DEF Maybe
  <2>1. /\ req[r] \in Request /\ ValidationOK(r) /\ pod[req[r].pod] \in Pod
        /\ Idle \in Request
        /\ UNCHANGED <<table, now>> /\ \A c : Usable(c) <=> Usable(c)'
    <3>1. AnyPod \in Pods
      BY DEF AnyPod
    <3>2. UNCHANGED <<table, now>>
      BY <1>5 DEF Begin, Fetch, Store, Reread, Commodities, Fill, Validate
    <3> QED
      BY <3>1, <3>2 DEF TypeOK, Idle, Request, Usable
  <2>2. CASE \E p \in Pods : Begin(r, p)
    <3>1. PICK p \in Pods : Begin(r, p)
      BY <2>2
    <3> DEFINE new == [pc |-> IF pod[p].policy = NoConfig THEN "fetch" ELSE "reread",
                       pod |-> p, got |-> NoConfig]
    <3>2. new \in Request
      BY DEF Request
    <3>3. /\ new.pod = p /\ new.pc \in {"fetch", "reread"}
          /\ new.pc = "reread" => pod[p].policy # NoConfig
      OBVIOUS
    <3>4. req' = [req EXCEPT ![r] = new] /\ pod' = pod /\ pod[p].up
      BY <3>1 DEF Begin
    <3> HIDE DEF new
    <3> QED
      BY <2>1, <3>2, <3>3, <3>4, ValidationMoves DEF TypeOK
  <2>3. CASE Fetch(r)
    <3> DEFINE new == IF Current = NoConfig THEN Idle
                      ELSE [req[r] EXCEPT !.pc = "store", !.got = Current]
    <3>1. Current # NoConfig => Usable(Current) /\ Current \in Configs
      BY CurrentIsUsable DEF Usable
    <3>2. /\ new \in Request
          /\ new.pc # "idle" => /\ new.pc = "store" /\ new.got = Current
                                /\ new.pod = req[r].pod /\ Usable(Current)
      BY <2>1, <3>1 DEF Request, Idle
    <3>3. req' = [req EXCEPT ![r] = new] /\ pod' = pod /\ pod[req[r].pod].up
      BY <2>1, <2>3 DEF Fetch, ValidationOK
    <3> HIDE DEF new
    <3> QED
      BY <2>1, <3>2, <3>3, ValidationMoves DEF TypeOK
  <2>4. CASE Store(r)
    <3> DEFINE new == [req[r] EXCEPT !.pc = "reread"]
               q == req[r].pod
    <3>1. Usable(req[r].got) /\ pod[q].up /\ q \in Pods /\ req[r].got \in Configs
      BY <2>1, <2>4 DEF Store, ValidationOK, Usable, Request
    <3>2. new \in Request /\ new.pc = "reread" /\ new.pod = q
      BY <2>1 DEF Request
    <3>3. req' = [req EXCEPT ![r] = new]
      BY <2>4 DEF Store, Goto
    <3>4. /\ pod' = [pod EXCEPT ![q] = [pod[q] EXCEPT !.policy = req[r].got]]
          /\ pod' \in [Pods -> Pod]
      BY <2>4, <3>1 DEF Store, TypeOK, Pod
    <3>5. \A p \in Pods : pod'[p] = IF p = q THEN [pod[q] EXCEPT !.policy = req[r].got]
                                    ELSE pod[p]
      BY <3>4 DEF TypeOK
    <3>6. /\ pod'[q].up /\ pod'[q].policy = req[r].got
          /\ \A p \in Pods \ {q} : pod'[p] = pod[p]
      BY <2>1, <3>1, <3>5 DEF Pod
    <3> HIDE DEF new, q
    <3> QED
      BY <2>1, <3>1, <3>2, <3>3, <3>4, <3>6, ValidationMoves DEF TypeOK
  <2>5. CASE Reread(r)
    <3> DEFINE got == pod[req[r].pod].policy
               new == [req[r] EXCEPT !.pc = "commodities", !.got = got]
    <3>1. Usable(got) /\ got \in Maybe /\ pod[req[r].pod].up
      BY <2>1, <2>5 DEF Reread, ValidationOK, CachedIsUsable, Request, Pod
    <3>2. new \in Request /\ new.pc = "commodities" /\ new.pod = req[r].pod /\ new.got = got
      BY <2>1, <3>1 DEF Request
    <3>3. req' = [req EXCEPT ![r] = new] /\ pod' = pod
      BY <2>1, <2>5 DEF Reread, TypeOK, Request
    <3> HIDE DEF new, got
    <3> QED
      BY <2>1, <3>1, <3>2, <3>3, ValidationMoves DEF TypeOK
  <2>6. CASE Commodities(r)
    <3> DEFINE pc == IF pod[req[r].pod].commodities = NoConfig THEN "fill" ELSE "validate"
               new == [req[r] EXCEPT !.pc = pc]
    <3>1. Usable(req[r].got) /\ pod[req[r].pod].up
      BY <2>1, <2>6 DEF Commodities, ValidationOK
    <3>2. /\ new \in Request /\ new.pod = req[r].pod /\ new.got = req[r].got
          /\ new.pc # "reread"
      BY <2>1 DEF Request
    <3>3. req' = [req EXCEPT ![r] = new] /\ pod' = pod
      BY <2>6 DEF Commodities, Goto
    <3> HIDE DEF new
    <3> QED
      BY <2>1, <3>1, <3>2, <3>3, ValidationMoves DEF TypeOK
  <2>7. CASE Fill(r)
    <3> DEFINE new == [req[r] EXCEPT !.pc = "validate"]
               q == req[r].pod
    <3>1. Usable(req[r].got) /\ pod[q].up /\ q \in Pods /\ req[r].got \in Configs
      BY <2>1, <2>7 DEF Fill, ValidationOK, Usable, Request
    <3>2. /\ new \in Request /\ new.pc = "validate" /\ new.pod = q
          /\ new.got = req[r].got
      BY <2>1 DEF Request
    <3>3. req' = [req EXCEPT ![r] = new]
      BY <2>7 DEF Fill, Goto
    <3>4. pod' \in [Pods -> Pod]
      BY <2>7, <3>1 DEF Fill, TypeOK, Pod
    <3>5. \A p \in Pods : pod'[p] = IF p = q THEN [pod[q] EXCEPT !.commodities = req[r].got]
                                    ELSE pod[p]
      BY <2>7 DEF Fill, TypeOK
    <3>6. /\ pod'[q].up /\ pod'[q].policy = pod[q].policy
          /\ \A p \in Pods \ {q} : pod'[p] = pod[p]
      BY <2>1, <3>1, <3>5 DEF Pod
    <3>7. \A p \in Pods : /\ pod'[p].up = pod[p].up
                          /\ ~pod'[p].up => pod'[p] = Down
                          /\ pod'[p].policy # pod[p].policy => Usable(pod'[p].policy)
      <4> SUFFICES ASSUME NEW p \in Pods
                   PROVE  /\ pod'[p].up = pod[p].up
                          /\ ~pod'[p].up => pod'[p] = Down
                          /\ pod'[p].policy = pod[p].policy
        OBVIOUS
      <4>1. CASE p = q
        BY <3>1, <3>6, <4>1
      <4>2. CASE p # q
        BY <3>6, <4>2 DEF TypeOK
      <4> QED
        BY <4>1, <4>2
    <3>8. /\ new.pc # "idle" => pod'[new.pod].up
          /\ new.pc = "reread" => pod'[new.pod].policy # NoConfig
          /\ new.pc \in {"store", "commodities", "fill", "validate"} => Usable(new.got)
      BY <3>1, <3>2, <3>6
    <3> HIDE DEF new, q
    <3> QED
      BY <2>1, <3>2, <3>3, <3>4, <3>7, <3>8, ValidationMoves
  <2>8. CASE Validate(r)
    <3>1. Idle.pc = "idle"
      BY DEF Idle
    <3>2. req' = [req EXCEPT ![r] = Idle] /\ pod' = pod
      BY <2>8 DEF Validate
    <3> QED
      BY <2>1, <3>1, <3>2, ValidationMoves DEF TypeOK
  <2> QED
    BY <1>5, <2>2, <2>3, <2>4, <2>5, <2>6, <2>7, <2>8
<1>6. CASE UNCHANGED vars
  BY <1>6 DEF vars, TypeOK, CachedIsUsable, ValidationOK, Usable
<1> QED
  BY <1>1, <1>2, <1>3, <1>4, <1>5, <1>6 DEF Next

\* A step of the company's parts is one of the policy's, or leaves the policy alone.
LEMMA PolicyMoves == [CompanyNext]_companyVars => [Next]_vars
BY DEF CompanyNext, companyVars, policyVars

LEMMA PolicyInvariant == CompanySpec => []PolicyInv
<1>1. CompanyInit => PolicyInv
  BY InitPolicy DEF CompanyInit
<1>2. PolicyInv /\ [CompanyNext]_companyVars => PolicyInv'
  BY PolicyMoves, PolicyStep
<1> QED
  BY <1>1, <1>2, PTL DEF CompanySpec

\* However many pods, validations and configurations there are and however they
\* overlap, a permit is priced by a configuration that is published, not a
\* draft, and in effect (PolicyService.initPolicyEngineAndLoadCache).
THEOREM ValidationsUsePolicyInEffect == CompanySpec => []AlwaysInEffect
<1>1. PolicyInv => AlwaysInEffect
  BY DEF PolicyInv, ValidationOK, Usable, AlwaysInEffect, UsedIsInEffect
<1> QED
  BY <1>1, PolicyInvariant, PTL

(***************************************************************************)
(* Policy: one validation at a time                                        *)
(***************************************************************************)

\* The pod of the one validation has no configuration until the validation
\* stores one, and then keeps the one that the validation uses.
SerialOK(r) ==
    /\ req[r].pc \in {"fetch", "store"} => pod[req[r].pod].policy = NoConfig
    /\ req[r].pc \in {"commodities", "fill", "validate"} =>
           req[r].got = pod[req[r].pod].policy

SerialInv ==
    part = "onePolicy" => /\ OneValidation
                          /\ CommoditiesAgree
                          /\ \A r \in Requests : SerialOK(r)

\* A step of one validation that leaves the pods alone.
LEMMA SerialKept ==
    ASSUME CommoditiesAgree, \A r \in Requests : SerialOK(r), pod' = pod,
           NEW r \in Requests, \A s \in Requests \ {r} : req'[s] = req[s], SerialOK(r)'
    PROVE  CommoditiesAgree' /\ \A s \in Requests : SerialOK(s)'
<1>1. CommoditiesAgree'
  BY DEF CommoditiesAgree
<1>2. ASSUME NEW s \in Requests, s # r
      PROVE  SerialOK(s)'
  <2>1. SerialOK(s) /\ req'[s] = req[s]
    BY <1>2
  <2> QED
    BY <2>1 DEF SerialOK
<1> QED
  BY <1>1, <1>2

LEMMA SerialStep ==
    ASSUME PolicyInv, OneValidation, CommoditiesAgree,
           \A r \in Requests : SerialOK(r),
           [Next]_vars, OneValidation'
    PROVE  CommoditiesAgree' /\ \A r \in Requests : SerialOK(r)'
<1> USE DEF PolicyInv
<1>1. CASE Tick \/ \E c \in Configs : Publish(c)
  BY <1>1 DEF Tick, Publish, CommoditiesAgree, SerialOK
<1>2. ASSUME NEW p \in Pods, Start(p)
      PROVE  CommoditiesAgree' /\ \A r \in Requests : SerialOK(r)'
  <2>1. PICK loaded :
           pod' = [pod EXCEPT ![p] = [Down EXCEPT !.up = TRUE, !.flags = loaded]]
    BY <1>2, Zenon DEF Start
  <2>2. /\ pod'[p].commodities = NoConfig
        /\ \A q \in Pods \ {p} : pod'[q] = pod[q]
    BY <2>1 DEF TypeOK, Down
  <2>3. \A r \in Requests : req[r].pod \in Pods /\ (req[r].pod = p => req[r].pc = "idle")
    BY <1>2 DEF Start, ValidationOK, TypeOK, Request
  <2> QED
    BY <1>2, <2>2, <2>3 DEF Start, CommoditiesAgree, SerialOK
<1>3. ASSUME NEW p \in Pods, Stop(p)
      PROVE  CommoditiesAgree' /\ \A r \in Requests : SerialOK(r)'
  <2>1. /\ pod'[p].commodities = NoConfig
        /\ \A q \in Pods \ {p} : pod'[q] = pod[q]
        /\ \A r \in Requests : req'[r] = IF req[r].pod = p THEN Idle ELSE req[r]
    BY <1>3 DEF Stop, TypeOK, Down
  <2>2. CommoditiesAgree'
    BY <2>1 DEF CommoditiesAgree
  <2>3. ASSUME NEW r \in Requests
        PROVE  SerialOK(r)'
    <3>1. CASE req[r].pod = p
      BY <2>1, <3>1 DEF SerialOK, Idle
    <3>2. CASE req[r].pod # p
      <4>1. req[r].pod \in Pods \ {p} /\ SerialOK(r) /\ req'[r] = req[r]
        BY <2>1, <3>2 DEF TypeOK, Request
      <4> QED
        BY <2>1, <4>1 DEF SerialOK
    <3> QED
      BY <3>1, <3>2
  <2> QED
    BY <2>2, <2>3
<1>4. ASSUME NEW r \in Requests,
             \/ \E p \in Pods : Begin(r, p)
             \/ Fetch(r) \/ Store(r) \/ Reread(r)
             \/ Commodities(r) \/ Fill(r) \/ Validate(r)
      PROVE  CommoditiesAgree' /\ \A s \in Requests : SerialOK(s)'
  <2> DEFINE q == req[r].pod
  <2>1. req[r] \in Request /\ q \in Pods /\ pod[q] \in Pod /\ SerialOK(r)
    BY DEF TypeOK, Request
  <2>2. CASE \E p \in Pods : Begin(r, p)
    <3>1. PICK p \in Pods : Begin(r, p)
      BY <2>2
    <3>2. /\ pod' = pod /\ \A s \in Requests \ {r} : req'[s] = req[s]
          /\ req'[r].pc = IF pod[p].policy = NoConfig THEN "fetch" ELSE "reread"
          /\ req'[r].pod = p
      BY <3>1 DEF Begin, TypeOK
    <3> QED
      BY <3>2 DEF CommoditiesAgree, SerialOK
  <2>3. CASE Fetch(r)
    <3>1. /\ pod' = pod /\ \A s \in Requests \ {r} : req'[s] = req[s]
          /\ \/ req'[r] = Idle
             \/ req'[r] = [req[r] EXCEPT !.pc = "store", !.got = Current]
      BY <2>3 DEF Fetch, TypeOK
    <3>2. \/ req'[r].pc = "idle"
          \/ req'[r].pc = "store" /\ req'[r].pod = q
      <4>1. CASE req'[r] = Idle
        BY <4>1 DEF Idle
      <4>2. CASE req'[r] = [req[r] EXCEPT !.pc = "store", !.got = Current]
        BY <2>1, <4>2 DEF Request
      <4> QED
        BY <3>1, <4>1, <4>2
    <3>3. pod[q].policy = NoConfig /\ pod' = pod
      BY <2>1, <2>3, <3>1 DEF Fetch, SerialOK
    <3>4. SerialOK(r)'
      BY <3>2, <3>3 DEF SerialOK
    <3> QED
      BY <3>1, <3>4, SerialKept
  <2>4. CASE Store(r)
    <3>1. /\ pod' = [pod EXCEPT ![q] = [pod[q] EXCEPT !.policy = req[r].got]]
          /\ req' = [req EXCEPT ![r] = [req[r] EXCEPT !.pc = "reread"]]
          /\ pod[q].policy = NoConfig
      BY <2>1, <2>4 DEF Store, Goto, SerialOK, TypeOK
    <3>2. /\ pod'[q].commodities = NoConfig
          /\ \A p \in Pods \ {q} : pod'[p] = pod[p]
          /\ req'[r].pc = "reread"
      BY <2>1, <3>1 DEF TypeOK, CommoditiesAgree, Pod, Request
    <3>3. \A s \in Requests \ {r} : req'[s].pc = "idle"
      BY <2>4, <3>1 DEF OneValidation, Store, TypeOK
    <3> QED
      BY <3>2, <3>3 DEF CommoditiesAgree, SerialOK
  <2>5. CASE Reread(r)
    <3>1. /\ pod' = pod /\ \A s \in Requests \ {r} : req'[s] = req[s]
          /\ req'[r] = [req[r] EXCEPT !.pc = "commodities", !.got = pod[q].policy]
      BY <2>5 DEF Reread, TypeOK
    <3>2. req'[r].pc = "commodities" /\ req'[r].pod = q /\ req'[r].got = pod[q].policy
      BY <2>1, <3>1 DEF Request
    <3>3. SerialOK(r)'
      BY <3>1, <3>2 DEF SerialOK
    <3> QED
      BY <3>1, <3>3, SerialKept
  <2>6. CASE Commodities(r)
    <3>1. /\ pod' = pod /\ \A s \in Requests \ {r} : req'[s] = req[s]
          /\ \E pc \in {"fill", "validate"} : req'[r] = [req[r] EXCEPT !.pc = pc]
      BY <2>6 DEF Commodities, Goto, TypeOK
    <3>2. /\ req'[r].pc \in {"fill", "validate"}
          /\ req'[r].pod = q /\ req'[r].got = req[r].got
      BY <2>1, <3>1 DEF Request
    <3>3. req[r].got = pod[q].policy
      BY <2>1, <2>6 DEF Commodities, SerialOK
    <3>4. SerialOK(r)'
      BY <3>1, <3>2, <3>3 DEF SerialOK
    <3> QED
      BY <3>1, <3>4, SerialKept
  <2>7. CASE Fill(r)
    <3>1. /\ pod' = [pod EXCEPT ![q] = [pod[q] EXCEPT !.commodities = req[r].got]]
          /\ req' = [req EXCEPT ![r] = [req[r] EXCEPT !.pc = "validate"]]
          /\ req[r].got = pod[q].policy
      BY <2>1, <2>7 DEF Fill, Goto, SerialOK, TypeOK
    <3>2. /\ pod'[q].commodities = pod[q].policy /\ pod'[q].policy = pod[q].policy
          /\ \A p \in Pods \ {q} : pod'[p] = pod[p]
          /\ req'[r].pc = "validate" /\ req'[r].pod = q /\ req'[r].got = req[r].got
      BY <2>1, <3>1 DEF TypeOK, Pod, Request
    <3>3. \A s \in Requests \ {r} : req'[s].pc = "idle"
      BY <2>7, <3>1 DEF OneValidation, Fill, TypeOK
    <3> QED
      BY <3>1, <3>2, <3>3 DEF CommoditiesAgree, SerialOK
  <2>8. CASE Validate(r)
    <3>1. /\ pod' = pod /\ \A s \in Requests \ {r} : req'[s] = req[s]
          /\ req'[r].pc = "idle"
      BY <2>8 DEF Validate, TypeOK, Idle
    <3> QED
      BY <3>1 DEF CommoditiesAgree, SerialOK
  <2> QED
    BY <1>4, <2>2, <2>3, <2>4, <2>5, <2>6, <2>7, <2>8
<1>5. CASE UNCHANGED vars
  BY <1>5 DEF vars, CommoditiesAgree, SerialOK
<1> QED
  BY <1>1, <1>2, <1>3, <1>4, <1>5 DEF Next

\* With one validation at a time, the commodities that a pod names are those of
\* the configuration it prices by (loadPolicyEngineAttributesToCache).
THEOREM CommoditiesOfThePolicy == CompanySpec => []SerialCommoditiesAgree
<1>1. CompanyInit => SerialInv
  BY DEF CompanyInit, Init, Idle, Down, SerialInv, OneValidation, CommoditiesAgree, SerialOK
<1>2. PolicyInv /\ SerialInv /\ [CompanyNext]_companyVars => SerialInv'
  <2> SUFFICES ASSUME PolicyInv, SerialInv, [CompanyNext]_companyVars, part' = "onePolicy"
               PROVE  SerialInv'
    BY DEF SerialInv
  <2>1. part = "onePolicy"
    BY DEF CompanyNext, companyVars
  <2>2. OneValidation'
    BY <2>1 DEF SerialInv, CompanyNext, companyVars, policyVars, vars, OneValidation
  <2> QED
    BY <2>1, <2>2, PolicyMoves, SerialStep DEF SerialInv
<1>3. SerialInv => SerialCommoditiesAgree
  BY DEF SerialInv, SerialCommoditiesAgree
<1> QED
  BY <1>1, <1>2, <1>3, PolicyInvariant, PTL DEF CompanySpec

(***************************************************************************)
(* Users: one call at a time                                               *)
(***************************************************************************)

UserRows == {Users!NoRow} \cup [company : Companies, role : Users!Roles, active : BOOLEAN]

UserCalls ==
    [step : {"idle", "invite", "accept", "claim", "update", "remove"},
     company : Companies \cup {Users!NoCompany}, person : SUBSET People,
     role : Users!Roles \cup {Users!NoRole}, left : [People -> Users!Roles \cup {Users!NoRole}]]

\* What a call has checked stays so until it writes: nobody else writes.
UserCallOK(k) ==
    /\ k.step # "idle" => k.company \in Companies
    /\ k.step \in {"invite", "accept", "claim", "update"} =>
          (\E u \in People : k.person = {u}) /\ k.role \in Users!Roles
    /\ k.step \in {"update", "remove"} =>
          /\ k.person # {}
          /\ k.person \subseteq Users!ActiveIn(k.company)
    /\ k.step = "update" =>
          \/ k.role = "ADMIN"
          \/ Users!OtherAdmins(k.company, k.person) # {}
          \/ k.person \cap Users!Admins(k.company) = {}
    /\ k.step = "remove" =>
          /\ Users!OtherAdmins(k.company, k.person) # {}
          /\ \A u \in k.person : k.left[u] = member[u].role

UsersInv ==
    /\ member \in [People -> UserRows]
    /\ pending \in [Companies -> [People -> Users!Roles \cup {Users!NoRole}]]
    /\ call \in [Calls -> UserCalls]
    /\ \A p \in Calls : UserCallOK(call[p])

LEMMA IdleCall == Users!Idle \in UserCalls /\ Users!Idle.step = "idle" /\ UserCallOK(Users!Idle)
BY DEF Users!Idle, UserCalls, UserCallOK

LEMMA InitUsers == Users!Init => UsersInv
BY IdleCall DEF Users!Init, UsersInv, UserRows

\* The call that may run is the only one.
LEMMA OneCallMoves ==
    ASSUME UsersInv, NEW p \in Calls, NEW k \in UserCalls,
           call' = [call EXCEPT ![p] = k],
           member' \in [People -> UserRows],
           pending' \in [Companies -> [People -> Users!Roles \cup {Users!NoRole}]],
           UserCallOK(k)'
    PROVE  UsersInv'
<1>1. \A q \in Calls : q = p
  BY CompanyAssumption DEF CompanyAssumption
<1>2. call'[p] = k /\ call' \in [Calls -> UserCalls]
  BY DEF UsersInv
<1>3. \A q \in Calls : UserCallOK(call[q])'
  BY <1>1, <1>2 DEF UserCallOK
<1> QED
  BY <1>2, <1>3 DEF UsersInv

\* A call that ends leaves nothing to keep.
LEMMA CallReturns ==
    ASSUME UsersInv, NEW p \in Calls, Users!Return(p),
           member' \in [People -> UserRows],
           pending' \in [Companies -> [People -> Users!Roles \cup {Users!NoRole}]]
    PROVE  UsersInv'
<1>1. UserCallOK(Users!Idle)'
  BY DEF UserCallOK, Users!Idle
<1> QED
  BY <1>1, IdleCall, OneCallMoves DEF Users!Return

LEMMA UsersStep ==
    ASSUME UsersInv, [Users!Next]_userVars
    PROVE  /\ UsersInv'
           /\ \A c \in Companies :
                 (Users!Admins(c) # {} /\ \E p \in Calls : call[p].step \in {"update", "remove"})
                 => Users!Admins(c)' # {}
<1> DEFINE Kept == \A c \in Companies :
                     (/\ Users!Admins(c) # {}
                      /\ \E p \in Calls : call[p].step \in {"update", "remove"})
                     => Users!Admins(c)' # {}
<1>a. \A p, q \in Calls : p = q
  BY CompanyAssumption DEF CompanyAssumption
<1>b. ASSUME member' = member
      PROVE  /\ Kept
             /\ \A k : UserCallOK(k) => UserCallOK(k)'
  BY <1>b DEF Users!Admins, Users!ActiveIn, Users!RowsOf, Users!OtherAdmins, UserCallOK
<1>1. ASSUME NEW p \in Calls, NEW c \in Companies, NEW u \in People, NEW role \in Users!Roles,
             Users!InviteRead(p, c, u, role)
      PROVE  UsersInv' /\ Kept
  <2> DEFINE k == [step |-> "invite", company |-> c, person |-> {u}, role |-> role,
                   left |-> Users!Idle.left]
  <2>1. k \in UserCalls /\ UserCallOK(k)
    BY DEF UserCalls, UserCallOK, Users!Idle
  <2>2. call' = [call EXCEPT ![p] = k] /\ UNCHANGED <<member, pending>>
    BY <1>1 DEF Users!InviteRead, Users!Begin
  <2> HIDE DEF k
  <2> QED
    BY <1>b, <2>1, <2>2, OneCallMoves DEF UsersInv
<1>2. ASSUME NEW p \in Calls, NEW c \in Companies, NEW u \in People, Users!AcceptRead(p, c, u)
      PROVE  UsersInv' /\ Kept
  <2> DEFINE k == [step |-> "accept", company |-> c, person |-> {u}, role |-> pending[c][u],
                   left |-> Users!Idle.left]
  <2>1. pending[c][u] \in Users!Roles
    BY <1>2 DEF Users!AcceptRead, Users!Invited, UsersInv
  <2>2. k \in UserCalls /\ UserCallOK(k)
    BY <2>1 DEF UserCalls, UserCallOK, Users!Idle
  <2>3. call' = [call EXCEPT ![p] = k] /\ UNCHANGED <<member, pending>>
    BY <1>2 DEF Users!AcceptRead, Users!Begin
  <2> HIDE DEF k
  <2> QED
    BY <1>b, <2>2, <2>3, OneCallMoves DEF UsersInv
<1>3. ASSUME NEW p \in Calls, NEW c \in Companies, NEW u \in People, Users!ClaimRead(p, c, u)
      PROVE  UsersInv' /\ Kept
  <2> DEFINE k == [step |-> "claim", company |-> c, person |-> {u}, role |-> "ADMIN",
                   left |-> Users!Idle.left]
  <2>1. k \in UserCalls /\ UserCallOK(k)
    BY DEF UserCalls, UserCallOK, Users!Idle, Users!Roles
  <2>2. call' = [call EXCEPT ![p] = k] /\ UNCHANGED <<member, pending>>
    BY <1>3 DEF Users!ClaimRead, Users!Begin
  <2> HIDE DEF k
  <2> QED
    BY <1>b, <2>1, <2>2, OneCallMoves DEF UsersInv
<1>4. ASSUME NEW p \in Calls, NEW c \in Companies, NEW u \in People, NEW role \in Users!Roles,
             Users!UpdateRead(p, c, u, role)
      PROVE  UsersInv' /\ Kept
  <2> DEFINE k == [step |-> "update", company |-> c, person |-> {u}, role |-> role,
                   left |-> Users!Idle.left]
  <2>1. /\ u \in Users!ActiveIn(c)
        /\ \/ role = "ADMIN" \/ Users!OtherAdmins(c, {u}) # {}
           \/ {u} \cap Users!Admins(c) = {}
    BY <1>4 DEF Users!UpdateRead
  <2>2. k \in UserCalls /\ UserCallOK(k)
    BY <2>1 DEF UserCalls, UserCallOK, Users!Idle
  <2>3. call' = [call EXCEPT ![p] = k] /\ UNCHANGED <<member, pending>>
    BY <1>4 DEF Users!UpdateRead, Users!Begin
  <2> HIDE DEF k
  <2> QED
    BY <1>b, <2>2, <2>3, OneCallMoves DEF UsersInv
<1>5. ASSUME NEW p \in Calls, NEW c \in Companies, NEW us \in SUBSET People,
             Users!RemoveRead(p, c, us)
      PROVE  UsersInv' /\ Kept
  <2> DEFINE found == us \cap Users!ActiveIn(c)
             left == [u \in People |-> IF u \in found THEN member[u].role ELSE Users!NoRole]
             k == [step |-> "remove", company |-> c, person |-> found, role |-> Users!NoRole,
                   left |-> left]
  <2>1. \A u \in found : member[u].role \in Users!Roles
    BY DEF UsersInv, UserRows, Users!NoRow, Users!ActiveIn, Users!RowsOf
  <2>2. left \in [People -> Users!Roles \cup {Users!NoRole}]
    BY <2>1
  <2>3. found # {} /\ Users!OtherAdmins(c, found) # {}
    BY <1>5 DEF Users!RemoveRead, Users!OtherAdmins
  <2>4. k \in UserCalls
    BY <2>2 DEF UserCalls
  <2>5. UserCallOK(k)
    BY <2>3 DEF UserCallOK
  <2>6. call' = [call EXCEPT ![p] = k] /\ UNCHANGED <<member, pending>>
    BY <1>5 DEF Users!RemoveRead, Users!Begin
  <2> HIDE DEF k
  <2> QED
    BY <1>b, <2>4, <2>5, <2>6, OneCallMoves DEF UsersInv
<1>6. ASSUME NEW c \in Companies, NEW u \in People,
             \/ \E role \in Users!Roles : Users!ChangeInvitation(c, u, role)
             \/ Users!Withdraw(c, u)
      PROVE  UsersInv' /\ Kept
  <2>1. UNCHANGED <<member, call>>
    BY <1>6 DEF Users!ChangeInvitation, Users!Withdraw
  <2>2. pending' \in [Companies -> [People -> Users!Roles \cup {Users!NoRole}]]
    BY <1>6 DEF Users!ChangeInvitation, Users!Withdraw, UsersInv
  <2> QED
    BY <1>b, <2>1, <2>2 DEF UsersInv
<1>7. ASSUME NEW p \in Calls, Users!InviteWrite(p)
      PROVE  UsersInv' /\ Kept
  <2>1. PICK u \in People : call[p].person = {u}
    BY <1>7 DEF Users!InviteWrite, UsersInv, UserCallOK
  <2>2. Users!Person(p) = u /\ call[p].role \in Users!Roles
    BY <1>7, <2>1 DEF Users!Person, Users!InviteWrite, UsersInv, UserCallOK
  <2>3. pending' \in [Companies -> [People -> Users!Roles \cup {Users!NoRole}]]
    BY <1>7, <2>2 DEF Users!InviteWrite, UsersInv
  <2>4. member' = member /\ Users!Return(p)
    BY <1>7 DEF Users!InviteWrite
  <2> QED
    BY <1>b, <2>3, <2>4, CallReturns DEF UsersInv
<1>8. ASSUME NEW p \in Calls, Users!AcceptWrite(p)
      PROVE  UsersInv' /\ Kept
  <2>1. PICK u \in People : call[p].person = {u}
    BY <1>8 DEF Users!AcceptWrite, UsersInv, UserCallOK
  <2>2. /\ Users!Person(p) = u /\ call[p].role \in Users!Roles
        /\ call[p].company \in Companies /\ call[p].step = "accept"
    BY <1>8, <2>1 DEF Users!Person, Users!AcceptWrite, UsersInv, UserCallOK
  <2>3. Users!Row(call[p].company, call[p].role) \in UserRows
    BY <2>2 DEF Users!Row, UserRows
  <2>4. member' \in [People -> UserRows]
    BY <1>8, <2>2, <2>3 DEF Users!AcceptWrite, UsersInv
  <2>5. pending' \in [Companies -> [People -> Users!Roles \cup {Users!NoRole}]]
    BY <1>8, <2>2 DEF Users!AcceptWrite, UsersInv
  <2>6. UsersInv'
    BY <1>8, <2>4, <2>5, CallReturns DEF Users!AcceptWrite
  <2> QED
    BY <1>a, <2>2, <2>6
<1>9. ASSUME NEW p \in Calls, Users!ClaimWrite(p)
      PROVE  UsersInv' /\ Kept
  <2>1. call[p].step = "claim" /\ call[p].company \in Companies
    BY <1>9 DEF Users!ClaimWrite, UsersInv, UserCallOK
  <2>2. Users!Row(call[p].company, "ADMIN") \in UserRows
    BY <2>1 DEF Users!Row, UserRows, Users!Roles
  <2>3. member' \in [People -> UserRows]
    BY <1>9, <2>2 DEF Users!ClaimWrite, UsersInv
  <2>4. UsersInv'
    BY <1>9, <2>3, CallReturns DEF Users!ClaimWrite, UsersInv
  <2> QED
    BY <1>a, <2>1, <2>4
<1>10. ASSUME NEW p \in Calls, Users!UpdateWrite(p)
       PROVE  UsersInv' /\ Kept
  <2> DEFINE cc == call[p].company
  <2>1. PICK u \in People : call[p].person = {u}
    BY <1>10 DEF Users!UpdateWrite, UsersInv, UserCallOK
  <2>2. /\ Users!Person(p) = u /\ call[p].role \in Users!Roles
        /\ u \in Users!ActiveIn(cc)
        /\ \/ call[p].role = "ADMIN" \/ Users!OtherAdmins(cc, {u}) # {}
           \/ u \notin Users!Admins(cc)
    BY <1>10, <2>1 DEF Users!Person, Users!UpdateWrite, UsersInv, UserCallOK
  <2>3. /\ member[u].active /\ member[u].company = cc
        /\ member[u] \in [company : Companies, role : Users!Roles, active : BOOLEAN]
    BY <2>2 DEF UsersInv, UserRows, Users!NoRow, Users!ActiveIn, Users!RowsOf
  <2>4. /\ member' = [member EXCEPT ![u] = [member[u] EXCEPT !.role = call[p].role]]
        /\ [member[u] EXCEPT !.role = call[p].role] \in UserRows
    BY <1>10, <2>2, <2>3 DEF Users!UpdateWrite, UserRows
  <2>5. member' \in [People -> UserRows]
    BY <2>4 DEF UsersInv
  <2>6. UsersInv'
    BY <1>10, <2>5, CallReturns DEF Users!UpdateWrite, UsersInv
  <2>7. /\ member'[u].role = call[p].role /\ member'[u].company = cc /\ member'[u].active
        /\ \A v \in People \ {u} : member'[v] = member[v]
    BY <2>3, <2>4 DEF UsersInv
  <2>8. ASSUME NEW c \in Companies, Users!Admins(c) # {}
        PROVE  Users!Admins(c)' # {}
    <3> USE DEF Users!Admins, Users!ActiveIn, Users!RowsOf
    <3>1. CASE c # cc
      BY <2>3, <2>7, <2>8, <3>1
    <3>2. CASE c = cc /\ call[p].role = "ADMIN"
      BY <2>7, <3>2
    <3>3. CASE c = cc /\ Users!OtherAdmins(cc, {u}) # {}
      BY <2>7, <3>3 DEF Users!OtherAdmins
    <3>4. CASE c = cc /\ u \notin Users!Admins(cc)
      BY <2>7, <2>8, <3>4
    <3> QED
      BY <2>2, <3>1, <3>2, <3>3, <3>4
  <2> QED
    BY <2>6, <2>8
<1>11. ASSUME NEW p \in Calls, NEW u \in People, Users!RemoveWrite(p, u)
       PROVE  UsersInv' /\ Kept
  <2>0. PICK cc \in Companies : cc = call[p].company
    BY <1>11 DEF Users!RemoveWrite, UsersInv, UserCallOK
  <2>1. /\ call[p] \in UserCalls /\ call[p].step = "remove" /\ u \in call[p].person
        /\ call[p].person \subseteq Users!ActiveIn(cc)
        /\ Users!OtherAdmins(cc, call[p].person) # {}
        /\ \A v \in call[p].person : call[p].left[v] = member[v].role
    BY <1>11, <2>0 DEF Users!RemoveWrite, UsersInv, UserCallOK
  <2>2. /\ member[u].company = cc
        /\ member[u] \in [company : Companies, role : Users!Roles, active : BOOLEAN]
    BY <2>1 DEF UsersInv, UserRows, Users!NoRow, Users!ActiveIn, Users!RowsOf
  <2>3. /\ member' = [member EXCEPT ![u] = [member[u] EXCEPT !.active = FALSE,
                                                            !.role = call[p].left[u]]]
        /\ [member[u] EXCEPT !.active = FALSE, !.role = call[p].left[u]] \in UserRows
    BY <1>11, <2>1, <2>2 DEF Users!RemoveWrite, UserRows, UsersInv
  <2>4. member' \in [People -> UserRows] /\ pending' = pending
    BY <1>11, <2>3 DEF Users!RemoveWrite, UsersInv
  <2>5. \A v \in People \ {u} : member'[v] = member[v]
    BY <2>3 DEF UsersInv
  <2>6. PICK a \in Users!Admins(cc) : a \notin call[p].person
    BY <2>1 DEF Users!OtherAdmins
  <2>7. a \in Users!Admins(cc)'
    BY <2>1, <2>5, <2>6 DEF Users!Admins, Users!ActiveIn, Users!RowsOf
  <2>8. Kept
    <3>1. ASSUME NEW c \in Companies, Users!Admins(c) # {}, c # cc
          PROVE  Users!Admins(c)' # {}
      BY <2>2, <2>5, <3>1 DEF Users!Admins, Users!ActiveIn, Users!RowsOf
    <3> QED
      BY <2>7, <3>1
  <2>9. CASE call[p].person = {u}
    BY <1>11, <2>4, <2>8, <2>9, CallReturns DEF Users!RemoveWrite, UsersInv
  <2>10. CASE call[p].person # {u}
    <3>1. PICK k \in UserCalls :
             /\ k = [call[p] EXCEPT !.person = call[p].person \ {u}]
             /\ k.step = "remove" /\ k.company = cc
             /\ k.person = call[p].person \ {u} /\ k.left = call[p].left
      <4> DEFINE k == [call[p] EXCEPT !.person = call[p].person \ {u}]
      <4>1. /\ k \in UserCalls /\ k.step = "remove" /\ k.company = cc
            /\ k.person = call[p].person \ {u} /\ k.left = call[p].left
        BY <2>0, <2>1 DEF UserCalls
      <4> QED
        BY <4>1
    <3>2. call' = [call EXCEPT ![p] = k]
      BY <1>11, <2>10, <3>1 DEF Users!RemoveWrite
    <3>3. k.person # {} /\ k.person \subseteq Users!ActiveIn(cc)'
      BY <2>1, <2>5, <2>10, <3>1 DEF Users!ActiveIn, Users!RowsOf
    <3>4. Users!OtherAdmins(cc, k.person)' # {}
      BY <2>6, <2>7, <3>1 DEF Users!OtherAdmins
    <3>5. \A v \in k.person : k.left[v] = member'[v].role
      BY <2>1, <2>5, <3>1 DEF UserCalls
    <3>6. UserCallOK(k)'
      BY <2>1, <3>1, <3>3, <3>4, <3>5 DEF UserCallOK
    <3> QED
      BY <2>4, <2>8, <3>1, <3>2, <3>6, OneCallMoves DEF UsersInv
  <2> QED
    BY <2>9, <2>10
<1>12. ASSUME NEW p \in Calls, Users!Fail(p)
       PROVE  UsersInv' /\ Kept
  BY <1>b, <1>12, CallReturns DEF Users!Fail, UsersInv
<1>13. CASE UNCHANGED userVars
  <2>1. member' = member
    BY <1>13 DEF userVars
  <2> QED
    BY <1>b, <1>13, <2>1 DEF userVars, UsersInv
<1> QED
  BY <1>1, <1>2, <1>3, <1>4, <1>5, <1>6, <1>7, <1>8, <1>9, <1>10, <1>11, <1>12, <1>13
  DEF Users!Next

LEMMA UsersMove == [CompanyNext]_companyVars => [Users!Next]_userVars
BY DEF CompanyNext, companyVars

LEMMA UsersInvariant == CompanySpec => []UsersInv
<1>1. CompanyInit => UsersInv
  BY InitUsers DEF CompanyInit
<1>2. UsersInv /\ [CompanyNext]_companyVars => UsersInv'
  BY UsersMove, UsersStep
<1> QED
  BY <1>1, <1>2, PTL DEF CompanySpec

\* In any company, with any number of people: demoting and removing users, one
\* call at a time, takes no last active administrator away (UsersService.update
\* and removeAll), though the rows are saved one by one and a call may end
\* between two of them.
THEOREM ManagingUsersKeepsAdmin == CompanySpec => ManagingKeepsAdmin
<1>1. UsersInv /\ [CompanyNext]_companyVars
      => [\A c \in Companies :
            (Users!Admins(c) # {} /\ \E p \in Calls : call[p].step \in {"update", "remove"})
            => Users!Admins(c)' # {}]_(Users!vars)
  BY UsersMove, UsersStep DEF Users!vars
<1> QED
  BY <1>1, UsersInvariant, PTL DEF CompanySpec, ManagingKeepsAdmin, Users!ManagingKeepsAdmin

(***************************************************************************)
(* Letters of authorization: one request at a time                         *)
(***************************************************************************)

\* A row of the table: its number is that of a first row, and the row that it
\* revises is before it, is active no more, and has its number and original.
LoaRowOK(i) ==
    /\ ~loa[i].exists => loa[i] = Loas!NoRow
    /\ loa[i].exists =>
         /\ \A j \in Ids : j < i => loa[j].exists
         /\ loa[i].number \in Ids /\ loa[loa[i].number].exists
         /\ loa[i].original \in {loa[i].number, NoId}
    /\ loa[i].previous # NoId =>
         /\ loa[i].previous < i
         /\ loa[loa[i].previous].exists /\ ~loa[loa[i].previous].active
         /\ loa[loa[i].previous].number = loa[i].number
         /\ loa[loa[i].previous].original = loa[i].original

LoaRows ==
    /\ loa \in [Ids -> Loas!Row]
    /\ \A i \in Ids : LoaRowOK(i)
    /\ \A i, j \in Ids :
         loa[i].previous # NoId /\ loa[i].previous = loa[j].previous => i = j
    /\ Loas!OneActivePerNumber

\* The row that a request is about is the last of its chain, and the only one of
\* its number that may be active; it is as it was read, but for a deletion.
LoaRequestOK(r) ==
    /\ r.op # "idle" => /\ r.id \in Ids /\ loa[r.id].exists
                       /\ \A k \in Ids : loa[k].previous # r.id
    /\ r.op = "create" => loa[r.id].number = r.id /\ loa[r.id].previous = NoId
    /\ r.op = "update" =>
         /\ r.row.exists
         /\ r.row.number = loa[r.id].number /\ r.row.original = loa[r.id].original
         /\ \A k \in Ids : loa[k].active /\ loa[k].number = r.row.number => k = r.id

LoaInv ==
    /\ LoaRows
    /\ loaReq \in [Slots -> Loas!Request]
    /\ \A s \in Slots : LoaRequestOK(loaReq[s])
    /\ app \in Loas!Application

LEMMA NoLoaRow == /\ Loas!NoRow \in Loas!Row /\ ~Loas!NoRow.exists /\ ~Loas!NoRow.active
                  /\ Loas!NoRow.previous = NoId
                  /\ Loas!Idle \in Loas!Request /\ Loas!Idle.op = "idle"
<1>1. (CHOOSE t \in Terms : TRUE) \in Terms
  BY CompanyAssumption DEF CompanyAssumption, Loas!LoaAssumption
<1> QED
  BY <1>1 DEF Loas!NoRow, Loas!Row, Loas!Idle, Loas!Request

LEMMA InitLoa == Loas!Init => LoaInv
<1> SUFFICES ASSUME Loas!Init PROVE LoaInv
  OBVIOUS
<1>1. loa \in [Ids -> Loas!Row] /\ \A i \in Ids : loa[i] = Loas!NoRow
  BY NoLoaRow DEF Loas!Init
<1>2. LoaRows
  BY <1>1, NoLoaRow DEF LoaRows, LoaRowOK, Loas!OneActivePerNumber, Loas!Active, Loas!Exists
<1>3. app \in Loas!Application
  BY NoLoaRow DEF Loas!Init, Loas!Application, Loas!Row
<1> QED
  BY <1>2, <1>3, NoLoaRow DEF LoaInv, Loas!Init, LoaRequestOK

\* Rows may become inactive, or lose their document, at any time.
LEMMA LoaFieldsStay ==
    ASSUME LoaInv, loa' \in [Ids -> Loas!Row],
           \A k \in Ids : /\ loa'[k].exists = loa[k].exists
                          /\ loa'[k].number = loa[k].number
                          /\ loa'[k].original = loa[k].original
                          /\ loa'[k].previous = loa[k].previous
                          /\ loa'[k].active => loa[k].active
                          /\ ~loa[k].exists => loa'[k] = loa[k]
    PROVE  /\ LoaRows'
           /\ \A r \in Loas!Request : LoaRequestOK(r) => LoaRequestOK(r)'
<1>1. \A k \in Ids : loa[k].previous \in Ids \cup {NoId}
  BY DEF LoaInv, LoaRows, Loas!Row
<1>2. ASSUME NEW i \in Ids
      PROVE  LoaRowOK(i)'
  <2>1. LoaRowOK(i)
    BY DEF LoaInv, LoaRows
  <2> QED
    BY <1>1, <2>1 DEF LoaRowOK
<1>3. Loas!OneActivePerNumber'
  BY DEF LoaInv, LoaRows, Loas!OneActivePerNumber, Loas!Active, Loas!Exists
<1>4. LoaRows'
  BY <1>2, <1>3 DEF LoaInv, LoaRows
<1>5. ASSUME NEW r \in Loas!Request, LoaRequestOK(r)
      PROVE  LoaRequestOK(r)'
  BY <1>5 DEF LoaRequestOK
<1> QED
  BY <1>4, <1>5

\* The request that may run is the only one.
LEMMA OneRequestMoves ==
    ASSUME LoaInv, NEW s \in Slots, NEW r \in Loas!Request,
           loaReq' = [loaReq EXCEPT ![s] = r],
           LoaRows', LoaRequestOK(r)', UNCHANGED app
    PROVE  LoaInv'
<1>1. \A t \in Slots : t = s
  BY CompanyAssumption DEF CompanyAssumption
<1>2. loaReq' \in [Slots -> Loas!Request] /\ loaReq'[s] = r
  BY DEF LoaInv
<1> QED
  BY <1>1, <1>2 DEF LoaInv, LoaRequestOK

LEMMA LoaStep ==
    ASSUME LoaInv, [Loas!Next]_loaVars
    PROVE  LoaInv'
<1>i. Ids \subseteq Nat /\ NoId \notin Ids
  BY CompanyAssumption DEF CompanyAssumption, Loas!LoaAssumption
<1>t. /\ loa \in [Ids -> Loas!Row]
      /\ \A k \in Ids : /\ loa[k].previous \in Ids \cup {NoId}
                         /\ loa[k].number \in Ids \cup {NoId}
  BY DEF LoaInv, LoaRows, Loas!Row
<1>0. LoaRequestOK(Loas!Idle)'
  BY DEF LoaRequestOK, Loas!Idle
<1>s. ASSUME UNCHANGED loa
      PROVE  LoaRows' /\ \A r \in Loas!Request : LoaRequestOK(r) => LoaRequestOK(r)'
  BY <1>s, <1>t, LoaFieldsStay
<1>1. ASSUME NEW s \in Slots, NEW i \in Ids, NEW t \in Terms, Loas!Create(s, i, t)
      PROVE  LoaInv'
  <2> DEFINE new == [Loas!NoRow EXCEPT !.exists = TRUE, !.active = TRUE, !.number = i,
                                       !.terms = t, !.document = TRUE]
             r == [Loas!Idle EXCEPT !.op = "create", !.id = i]
  <2>1. /\ new \in Loas!Row /\ new.exists /\ new.active /\ new.number = i
        /\ new.original = NoId /\ new.previous = NoId
    BY NoLoaRow DEF Loas!Row, Loas!NoRow
  <2>2. r \in Loas!Request /\ r.op = "create" /\ r.id = i
    BY NoLoaRow DEF Loas!Request, Loas!Idle
  <2>3. /\ loa' = [loa EXCEPT ![i] = new] /\ loaReq' = [loaReq EXCEPT ![s] = r]
        /\ UNCHANGED app
        /\ ~loa[i].exists /\ \A j \in Ids : j < i => loa[j].exists
    BY <1>1 DEF Loas!Create, Loas!IsNext, Loas!Exists
  <2> HIDE DEF new, r
  <2>4. /\ loa' \in [Ids -> Loas!Row] /\ loa'[i] = new
        /\ \A k \in Ids \ {i} : loa'[k] = loa[k]
    BY <1>t, <2>1, <2>3
  <2>5. /\ \A k \in Ids : loa[k].previous # i
        /\ \A k \in Ids : loa[k].active => loa[k].exists /\ loa[k].number # i
        /\ loa[i].previous = NoId
    BY <1>i, <1>t, <2>3, NoLoaRow DEF LoaInv, LoaRows, LoaRowOK
  <2>6. ASSUME NEW k \in Ids
        PROVE  LoaRowOK(k)'
    <3>1. LoaRowOK(k)
      BY DEF LoaInv, LoaRows
    <3>2. CASE k = i
      BY <1>i, <2>1, <2>3, <2>4, <3>2 DEF LoaRowOK
    <3>3. CASE k # i
      BY <1>i, <1>t, <2>3, <2>4, <2>5, <3>1, <3>3 DEF LoaRowOK
    <3> QED
      BY <3>2, <3>3
  <2>7. Loas!OneActivePerNumber'
    BY <2>1, <2>4, <2>5
    DEF LoaInv, LoaRows, Loas!OneActivePerNumber, Loas!Active, Loas!Exists
  <2>8. \A k, j \in Ids :
          loa'[k].previous # NoId /\ loa'[k].previous = loa'[j].previous => k = j
    BY <2>1, <2>4 DEF LoaInv, LoaRows
  <2>9. LoaRows'
    BY <2>4, <2>6, <2>7, <2>8 DEF LoaRows
  <2>10. LoaRequestOK(r)'
    BY <1>i, <2>1, <2>2, <2>4, <2>5 DEF LoaRequestOK
  <2> QED
    BY <2>2, <2>3, <2>9, <2>10, OneRequestMoves
<1>2. ASSUME NEW s \in Slots, NEW i \in Ids, Loas!ReadForUpdate(s, i)
      PROVE  LoaInv'
  <2>1. PICK r \in Loas!Request : /\ r = [op |-> "update", id |-> i, row |-> loa[i]]
                                  /\ r.op = "update" /\ r.id = i /\ r.row = loa[i]
    <3> DEFINE r == [op |-> "update", id |-> i, row |-> loa[i]]
    <3>1. r \in Loas!Request /\ r.op = "update" /\ r.id = i /\ r.row = loa[i]
      BY <1>t DEF Loas!Request
    <3> QED
      BY <3>1
  <2>2. /\ loaReq' = [loaReq EXCEPT ![s] = r] /\ UNCHANGED <<loa, app>>
        /\ loa[i].exists /\ loa[i].active
    BY <1>2, <2>1 DEF Loas!ReadForUpdate, Loas!Named, Loas!Exists
  <2>3. \A k \in Ids : loa[k].previous # i
    BY <1>i, <2>2 DEF LoaInv, LoaRows, LoaRowOK
  <2>4. \A k \in Ids : loa[k].active /\ loa[k].number = loa[i].number => k = i
    BY <2>2, NoLoaRow
    DEF LoaInv, LoaRows, LoaRowOK, Loas!OneActivePerNumber, Loas!Active, Loas!Exists
  <2>5. LoaRequestOK(r)
    BY <2>1, <2>2, <2>3, <2>4 DEF LoaRequestOK
  <2> QED
    BY <1>s, <2>2, <2>5, OneRequestMoves
<1>3. ASSUME NEW s \in Slots, Loas!SetOriginal(s)
      PROVE  LoaInv'
  <2>1. PICK i \in Ids : /\ i = loaReq[s].id /\ loa[i].exists
                         /\ \A k \in Ids : loa[k].previous # i
                         /\ loa[i].number = i /\ loa[i].previous = NoId
    BY <1>3 DEF Loas!SetOriginal, LoaInv, LoaRequestOK
  <2>2. /\ loa' = [loa EXCEPT ![i] = [loa[i] EXCEPT !.original = i]]
        /\ loaReq' = [loaReq EXCEPT ![s] = Loas!Idle] /\ UNCHANGED app
    BY <1>3, <2>1 DEF Loas!SetOriginal
  <2>3. /\ loa' \in [Ids -> Loas!Row] /\ loa'[i].original = i
        /\ loa'[i].exists = loa[i].exists /\ loa'[i].active = loa[i].active
        /\ loa'[i].number = i /\ loa'[i].previous = NoId
        /\ \A k \in Ids \ {i} : loa'[k] = loa[k]
    <3> DEFINE new == [loa[i] EXCEPT !.original = i]
    <3>1. /\ new \in Loas!Row /\ new.original = i
          /\ new.exists = loa[i].exists /\ new.active = loa[i].active
          /\ new.number = i /\ new.previous = NoId
      <4>1. loa[i] \in Loas!Row
        BY <1>t
      <4>2. new \in Loas!Row
        BY <4>1 DEF Loas!Row
      <4>3. /\ new.original = i /\ new.exists = loa[i].exists
            /\ new.active = loa[i].active
            /\ new.number = loa[i].number /\ new.previous = loa[i].previous
        BY <4>1 DEF Loas!Row
      <4> QED
        BY <2>1, <4>2, <4>3
    <3> HIDE DEF new
    <3> QED
      BY <1>t, <2>1, <2>2, <3>1 DEF new
  <2>4. ASSUME NEW k \in Ids
        PROVE  LoaRowOK(k)'
    <3>1. LoaRowOK(k)
      BY DEF LoaInv, LoaRows
    <3>2. CASE k = i
      BY <1>i, <2>1, <2>3, <3>1, <3>2 DEF LoaRowOK
    <3>3. CASE k # i
      <4>1. /\ loa'[k] = loa[k] /\ \A m \in Ids : loa'[m].exists = loa[m].exists
            /\ loa[k].previous # NoId => loa'[loa[k].previous] = loa[loa[k].previous]
        BY <1>t, <2>1, <2>3, <3>3
      <4> QED
        BY <3>1, <4>1 DEF LoaRowOK
    <3> QED
      BY <3>2, <3>3
  <2>5. Loas!OneActivePerNumber'
    BY <2>1, <2>3 DEF LoaInv, LoaRows, Loas!OneActivePerNumber, Loas!Active, Loas!Exists
  <2>6. \A k, j \in Ids :
          loa'[k].previous # NoId /\ loa'[k].previous = loa'[j].previous => k = j
    BY <2>1, <2>3 DEF LoaInv, LoaRows
  <2>7. LoaRows'
    BY <2>3, <2>4, <2>5, <2>6 DEF LoaRows
  <2> QED
    BY <1>0, <2>2, <2>7, NoLoaRow, OneRequestMoves
<1>4. ASSUME NEW s \in Slots, Loas!Crash(s)
      PROVE  LoaInv'
  <2>1. loaReq' = [loaReq EXCEPT ![s] = Loas!Idle] /\ UNCHANGED <<loa, app>>
    BY <1>4 DEF Loas!Crash
  <2> QED
    BY <1>0, <1>s, <2>1, NoLoaRow, OneRequestMoves
<1>5. ASSUME NEW s \in Slots, Loas!WriteUpdate(s)
      PROVE  LoaInv'
  <2>1. PICK i \in Ids, old \in Loas!Row :
           /\ i = loaReq[s].id /\ old = loaReq[s].row
           /\ loa[i].exists /\ old.exists
           /\ \A k \in Ids : loa[k].previous # i
           /\ old.number = loa[i].number /\ old.original = loa[i].original
           /\ \A k \in Ids : loa[k].active /\ loa[k].number = old.number => k = i
    BY <1>5 DEF Loas!WriteUpdate, LoaInv, LoaRequestOK, Loas!Request
  <2>2. PICK j \in Ids, t \in Terms, file \in BOOLEAN :
           /\ ~loa[j].exists /\ \A k \in Ids : k < j => loa[k].exists
           /\ loa' = Loas!AfterRevision(i, j, old, t, file \/ old.document)
    BY <1>5, <2>1 DEF Loas!WriteUpdate, Loas!IsNext, Loas!Exists
  <2>3. loaReq' = [loaReq EXCEPT ![s] = Loas!Idle] /\ UNCHANGED app
    BY <1>5 DEF Loas!WriteUpdate
  <2> DEFINE last == [loa[i] EXCEPT !.active = FALSE]
             new == [old EXCEPT !.active = TRUE, !.previous = i, !.terms = t,
                                !.document = (file \/ old.document)]
  <2>4. /\ last \in Loas!Row /\ last.exists /\ ~last.active
        /\ last.number = loa[i].number /\ last.original = loa[i].original
        /\ last.previous = loa[i].previous
    BY <1>t, <2>1 DEF Loas!Row
  <2>5. /\ new \in Loas!Row /\ new.exists /\ new.active
        /\ new.number = old.number /\ new.original = old.original /\ new.previous = i
    BY <2>1, <2>2 DEF Loas!Row
  <2>6. /\ i # j /\ i < j
        /\ loa' = [loa EXCEPT ![i] = last, ![j] = new]
    <3>1. i # j
      BY <2>1, <2>2
    <3>2. i < j
      BY <1>i, <2>1, <2>2, <3>1 DEF LoaInv, LoaRows, LoaRowOK
    <3> QED
      BY <2>2, <3>1, <3>2 DEF Loas!AfterRevision
  <2> HIDE DEF last, new
  <2>7. /\ loa' \in [Ids -> Loas!Row] /\ loa'[i] = last /\ loa'[j] = new
        /\ \A k \in Ids \ {i, j} : loa'[k] = loa[k]
    BY <1>t, <2>4, <2>5, <2>6
  <2>8. /\ \A k \in Ids : loa[k].previous # j
        /\ loa[j].previous = NoId
        /\ loa[i].number \in Ids \ {j} /\ loa[loa[i].number].exists
        /\ loa[i].original \in {loa[i].number, NoId}
    BY <1>i, <1>t, <2>1, <2>2, NoLoaRow DEF LoaInv, LoaRows, LoaRowOK
  <2>9. ASSUME NEW k \in Ids
        PROVE  LoaRowOK(k)'
    <3>1. LoaRowOK(k)
      BY DEF LoaInv, LoaRows
    <3>2. \A m \in Ids : loa[m].exists => loa'[m].exists
      BY <2>4, <2>5, <2>7
    <3>3. \A m \in Ids : loa[m].previous \notin {i, j}
      BY <2>1, <2>8
    <3>4. CASE k = i
      <4>1. /\ loa'[k] = last /\ loa[k].exists
            /\ loa[k].previous # NoId => loa'[loa[k].previous] = loa[loa[k].previous]
        BY <1>t, <2>1, <2>7, <3>3, <3>4
      <4> QED
        BY <2>4, <3>1, <3>2, <3>4, <4>1 DEF LoaRowOK
    <3>5. CASE k = j
      <4>1. /\ loa'[k] = new /\ loa'[i] = last
            /\ \A m \in Ids : m < k => loa'[m].exists
        BY <2>2, <2>7, <3>2, <3>5
      <4>2. /\ loa'[k].exists /\ loa'[k].previous = i /\ i \in Ids /\ i # NoId /\ i < k
            /\ loa'[k].number = loa[i].number /\ loa'[k].original = loa[i].original
            /\ loa'[i].exists /\ ~loa'[i].active
            /\ loa'[i].number = loa[i].number /\ loa'[i].original = loa[i].original
        BY <1>i, <2>1, <2>4, <2>5, <2>6, <3>5, <4>1
      <4>3. /\ loa'[k].number \in Ids /\ loa'[loa'[k].number].exists
            /\ loa'[k].original \in {loa'[k].number, NoId}
        BY <2>8, <3>2, <4>2
      <4> QED
        BY <4>1, <4>2, <4>3 DEF LoaRowOK
    <3>6. CASE k \notin {i, j}
      <4>1. /\ loa'[k] = loa[k]
            /\ loa[k].previous # NoId => loa'[loa[k].previous] = loa[loa[k].previous]
        BY <1>t, <2>7, <3>3, <3>6
      <4> QED
        BY <3>1, <3>2, <4>1 DEF LoaRowOK
    <3> QED
      BY <3>4, <3>5, <3>6
  <2>10. Loas!OneActivePerNumber'
    <3>1. ASSUME NEW k \in Ids, NEW l \in Ids, loa'[k].exists, loa'[k].active,
                 loa'[l].exists, loa'[l].active, loa'[k].number = loa'[l].number
          PROVE  k = l
      BY <2>1, <2>2, <2>4, <2>5, <2>7, <3>1
      DEF LoaInv, LoaRows, Loas!OneActivePerNumber, Loas!Active, Loas!Exists
    <3> QED
      BY <3>1 DEF Loas!OneActivePerNumber, Loas!Active, Loas!Exists
  <2>11. \A k, l \in Ids :
           loa'[k].previous # NoId /\ loa'[k].previous = loa'[l].previous => k = l
    BY <2>1, <2>4, <2>5, <2>7 DEF LoaInv, LoaRows
  <2>12. LoaRows'
    BY <2>7, <2>9, <2>10, <2>11 DEF LoaRows
  <2> QED
    BY <1>0, <2>3, <2>12, NoLoaRow, OneRequestMoves
<1>6. ASSUME NEW i \in Ids, Loas!Delete(i)
      PROVE  LoaInv'
  <2>1. /\ loa' = [loa EXCEPT ![i] = [loa[i] EXCEPT !.active = FALSE]]
        /\ UNCHANGED <<loaReq, app>> /\ loa[i].exists
    BY <1>6 DEF Loas!Delete, Loas!Named, Loas!Exists
  <2>2. /\ loa' \in [Ids -> Loas!Row]
        /\ \A k \in Ids : loa'[k] = IF k = i THEN [loa[i] EXCEPT !.active = FALSE] ELSE loa[k]
    BY <1>t, <2>1 DEF Loas!Row
  <2>3. /\ loa'[i].exists = loa[i].exists /\ loa'[i].number = loa[i].number
        /\ loa'[i].original = loa[i].original /\ loa'[i].previous = loa[i].previous
        /\ ~loa'[i].active
    BY <1>t, <2>2 DEF Loas!Row
  <2> QED
    BY <2>1, <2>2, <2>3, LoaFieldsStay DEF LoaInv
<1>7. ASSUME NEW i \in Ids, Loas!DeleteDocument(i)
      PROVE  LoaInv'
  <2>1. /\ loa' = [loa EXCEPT ![i] = [loa[i] EXCEPT !.document = FALSE]]
        /\ UNCHANGED <<loaReq, app>> /\ loa[i].exists
    BY <1>7 DEF Loas!DeleteDocument, Loas!Named, Loas!Exists
  <2>2. /\ loa' \in [Ids -> Loas!Row]
        /\ \A k \in Ids : loa'[k] = IF k = i THEN [loa[i] EXCEPT !.document = FALSE] ELSE loa[k]
    BY <1>t, <2>1 DEF Loas!Row
  <2>3. /\ loa'[i].exists = loa[i].exists /\ loa'[i].number = loa[i].number
        /\ loa'[i].original = loa[i].original /\ loa'[i].previous = loa[i].previous
        /\ loa'[i].active = loa[i].active
    BY <1>t, <2>2 DEF Loas!Row
  <2> QED
    BY <2>1, <2>2, <2>3, LoaFieldsStay DEF LoaInv
<1>8. ASSUME NEW i \in Ids, Loas!Apply(i)
      PROVE  LoaInv'
  <2>1. app' \in Loas!Application /\ UNCHANGED <<loa, loaReq>>
    BY <1>8, <1>t DEF Loas!Apply, Loas!Application, Loas!Row
  <2> QED
    BY <1>s, <2>1 DEF LoaInv
<1>9. CASE Loas!Pay
  <2>1. app' \in Loas!Application /\ UNCHANGED <<loa, loaReq>>
    BY <1>9 DEF Loas!Pay, Loas!Application, LoaInv
  <2> QED
    BY <1>s, <2>1 DEF LoaInv
<1>10. CASE UNCHANGED loaVars
  BY <1>10, <1>s DEF loaVars, LoaInv
<1> QED
  BY <1>1, <1>2, <1>3, <1>4, <1>5, <1>6, <1>7, <1>8, <1>9, <1>10 DEF Loas!Next

LEMMA LoaInvariant == CompanySpec => []LoaInv
<1>1. CompanyInit => LoaInv
  BY InitLoa DEF CompanyInit
<1>2. LoaInv /\ [CompanyNext]_companyVars => LoaInv'
  <2>1. [CompanyNext]_companyVars => [Loas!Next]_loaVars
    BY DEF CompanyNext, companyVars
  <2> QED
    BY <2>1, LoaStep
<1> QED
  BY <1>1, <1>2, PTL DEF CompanySpec

\* For a table of any length and any terms: when requests do not overlap, each
\* revision of an LOA continues the chain of its number, and one is active at
\* most, deletions and crashes of create in between (LoaService).
THEOREM RevisionsFormOneChain == CompanySpec => []OneChain
<1>1. LoaInv => OneChain
  <2> SUFFICES ASSUME LoaInv PROVE Loas!OneChain /\ Loas!OneActivePerNumber
    BY DEF OneChain
  <2>1. ASSUME NEW i \in Ids, loa[i].exists, loa[i].previous # NoId
        PROVE  /\ loa[loa[i].previous].number = loa[i].number
               /\ loa[loa[i].previous].original = loa[i].original
               /\ loa[i].original \in {loa[i].number, NoId}
               /\ \A j \in Ids \ {i} : loa[j].exists => loa[j].previous # loa[i].previous
    BY <2>1 DEF LoaInv, LoaRows, LoaRowOK
  <2> QED
    BY <2>1 DEF LoaInv, LoaRows, Loas!OneChain, Loas!Exists
<1> QED
  BY <1>1, LoaInvariant, PTL

(***************************************************************************)
(* The form: what its operators return                                     *)
(***************************************************************************)

\* The form's constants are those of a permit type.
LEMMA FormConstants ==
    /\ Starts \subseteq Nat
    /\ Durations \subseteq Nat \ {0} /\ IsFiniteSet(Durations)
    /\ MinDuration \in Durations /\ Year \in Durations
    /\ \A d \in Durations : MinDuration <= d /\ d <= Year
    /\ IsFiniteSet(Subtypes) /\ Subtypes \subseteq Nat
    /\ NoSubtype \in Nat \ Subtypes /\ Eligible \subseteq Subtypes
    /\ MaxFetches \in Nat /\ LeapUntil \in Nat /\ NoExpiry \in Nat
    /\ NoVehicle \notin Vehicles /\ SubtypeOf \in [Vehicles -> Subtypes]
    /\ \A list \in LoaLists :
         /\ list \subseteq Forms!Loa
         /\ \A a, b \in list : a.number = b.number => a = b
<1>1. Forms!FormAssumption
  BY CompanyAssumption DEF CompanyAssumption
<1>2. /\ {MinDuration, Year} \subseteq Durations
      /\ {LeapUntil, NoExpiry} \subseteq Nat
  BY <1>1, Zenon DEF Forms!FormAssumption
<1> QED
  <2>1. /\ Starts \subseteq Nat /\ Durations \subseteq Nat \ {0} /\ IsFiniteSet(Durations)
        /\ \A d \in Durations : MinDuration <= d /\ d <= Year
    BY <1>1, Zenon DEF Forms!FormAssumption, Forms!IsFiniteSet, IsFiniteSet
  <2>4. /\ IsFiniteSet(Subtypes) /\ Subtypes \subseteq Nat
        /\ Eligible \subseteq Subtypes
    BY <1>1, Zenon DEF Forms!FormAssumption, Forms!IsFiniteSet, IsFiniteSet
  <2>5. NoSubtype \in Nat \ Subtypes
    BY <1>1, Zenon DEF Forms!FormAssumption
  <2>2. /\ MaxFetches \in Nat /\ NoVehicle \notin Vehicles
        /\ SubtypeOf \in [Vehicles -> Subtypes]
        /\ \A list \in LoaLists :
             /\ list \subseteq Forms!Loa
             /\ \A a, b \in list : a.number = b.number => a = b
    BY <1>1, Zenon DEF Forms!FormAssumption
  <2>3. MinDuration \in Durations /\ Year \in Durations /\ LeapUntil \in Nat /\ NoExpiry \in Nat
    BY <1>2
  <2> QED
    BY <2>1, <2>2, <2>3, <2>4, <2>5, Zenon

\* A finite set of numbers has a greatest and a least member.
LEMMA MaxAndMin ==
    ASSUME NEW S \in SUBSET Int, IsFiniteSet(S), S # {}
    PROVE  /\ Forms!Max(S) \in S /\ \A x \in S : x <= Forms!Max(S)
           /\ Forms!Min(S) \in S /\ \A x \in S : Forms!Min(S) <= x
<1> DEFINE Top(T) == \E m \in T : \A x \in T : m >= x
           Bottom(T) == \E m \in T : \A x \in T : m <= x
           Good == {T \in SUBSET S : T # {} => Top(T) /\ Bottom(T)}
<1>1. {} \in Good
  OBVIOUS
<1>2. ASSUME NEW T \in SUBSET S, T # {}, \A x \in T : T \ {x} \in Good
      PROVE  T \in Good
  <2>1. PICK x \in T : TRUE
    BY <1>2
  <2>2. CASE T = {x}
    BY <2>2
  <2>3. CASE T # {x}
    <3>1. Top(T \ {x}) /\ Bottom(T \ {x})
      BY <1>2, <2>1, <2>3
    <3>2. Top(T)
      <4>1. PICK m \in T \ {x} : \A y \in T \ {x} : m >= y
        BY <3>1
      <4>2. CASE m >= x
        BY <4>1, <4>2
      <4>3. CASE x >= m
        BY <4>1, <4>3
      <4> QED
        BY <4>2, <4>3
    <3>3. Bottom(T)
      <4>1. PICK m \in T \ {x} : \A y \in T \ {x} : m <= y
        BY <3>1
      <4>2. CASE m <= x
        BY <4>1, <4>2
      <4>3. CASE x <= m
        BY <4>1, <4>3
      <4> QED
        BY <4>2, <4>3
    <3> QED
      BY <3>2, <3>3
  <2> QED
    BY <2>2, <2>3
<1>3. S \in Good
  <2> HIDE DEF Good
  <2> QED
    BY <1>1, <1>2, SubsetInduction
<1>4. \E m \in S : \A x \in S : m >= x
  BY <1>3
<1>5. \E m \in S : \A x \in S : m <= x
  BY <1>3
<1>6. Forms!Max(S) \in S /\ \A x \in S : Forms!Max(S) >= x
  BY <1>4 DEF Forms!Max
<1>7. Forms!Min(S) \in S /\ \A x \in S : Forms!Min(S) <= x
  BY <1>5 DEF Forms!Min
<1> QED
  BY <1>6, <1>7

\* The LOAs that a form may have.
FormLoas == (UNION LoaLists) \cup {Forms!NoLoa}

LEMMA LoasOfLists ==
    /\ \A l \in UNION LoaLists : l \in Forms!Loa /\ l # Forms!NoLoa
    /\ Forms!NoLoa.number = 0 /\ Forms!NoLoa.expiry = NoExpiry
    /\ \A l \in FormLoas : l.number = 0 <=> l = Forms!NoLoa
<1>1. Forms!NoLoa.number = 0 /\ Forms!NoLoa.expiry = NoExpiry
  BY DEF Forms!NoLoa
<1>2. \A l \in UNION LoaLists : l \in Forms!Loa /\ l.number # 0
  BY FormConstants DEF Forms!Loa
<1> QED
  BY <1>1, <1>2 DEF FormLoas

\* An LOA of the list goes on being selected.
LoaKept(list, loaOf, start) ==
    \E l \in list : l.number = loaOf.number /\ Forms!MayBeUsed(l, start)

LEMMA SelectionIs ==
    ASSUME NEW list \in SUBSET UNION LoaLists, NEW l \in FormLoas, NEW start
    PROVE  /\ LoaKept(list, l, start) =>
                /\ Forms!Selection(list, l, start) \in list
                /\ Forms!Selection(list, l, start).number = l.number
                /\ Forms!MayBeUsed(Forms!Selection(list, l, start), start)
           /\ ~LoaKept(list, l, start) => Forms!Selection(list, l, start) = Forms!NoLoa
           /\ Forms!Selection(list, l, start).number # l.number
                <=> l # Forms!NoLoa /\ ~LoaKept(list, l, start)
<1> DEFINE kept == {k \in list : k.number = l.number /\ Forms!MayBeUsed(k, start)}
<1>1. LoaKept(list, l, start) <=> kept # {}
  BY DEF LoaKept
<1>2. Forms!Selection(list, l, start)
        = IF kept = {} THEN Forms!NoLoa ELSE CHOOSE k \in kept : TRUE
  BY DEF Forms!Selection
<1>3. kept # {} => (CHOOSE k \in kept : TRUE) \in kept
  OBVIOUS
<1> QED
  BY <1>1, <1>2, <1>3, LoasOfLists

\* The duration that the form is set to, if it has one that is too long.
LEMMA UpdatedDurationIs ==
    ASSUME NEW d \in Durations, NEW options \in SUBSET Durations
    PROVE  /\ Forms!UpdatedDuration(d, options) \in Durations
           /\ Forms!UpdatedDuration(Forms!UpdatedDuration(d, options), options)
                = Forms!UpdatedDuration(d, options)
           /\ d \in options => Forms!UpdatedDuration(d, options) = d
           /\ options = {} => Forms!UpdatedDuration(d, options) = MinDuration
           /\ Forms!UpdatedDuration(d, options) = d /\ options # {} =>
                \E e \in options : d <= e
<1>1. Durations \subseteq Nat /\ IsFiniteSet(options) /\ MinDuration \in Durations
  BY FormConstants, FS_Subset
<1>2. CASE options = {}
  BY <1>1, <1>2 DEF Forms!UpdatedDuration
<1>3. CASE options # {}
  <2>1. /\ Forms!Max(options) \in options /\ \A e \in options : e <= Forms!Max(options)
    BY <1>1, <1>3, MaxAndMin
  <2>2. Forms!UpdatedDuration(d, options)
          = IF \A e \in options : d > e THEN Forms!Max(options) ELSE d
    BY <1>3 DEF Forms!UpdatedDuration
  <2>3. \A e \in options : Forms!UpdatedDuration(e, options) = e
    BY <1>1, <1>3 DEF Forms!UpdatedDuration
  <2>4. \A e \in options : d > e \/ d <= e
    BY <1>1
  <2>5. CASE \A e \in options : d > e
    <3>1. d \notin options
      BY <1>1, <2>5
    <3> QED
      BY <1>1, <1>3, <2>1, <2>2, <2>3, <2>5, <3>1
  <2>6. CASE ~ \A e \in options : d > e
    <3>1. Forms!UpdatedDuration(d, options) = d /\ \E e \in options : d <= e
      BY <2>2, <2>4, <2>6
    <3> QED
      BY <1>3, <3>1
  <2> QED
    BY <2>5, <2>6
<1> QED
  BY <1>2, <1>3

\* Without an LOA every duration is an option.
LEMMA AllAvailable ==
    ASSUME NEW start PROVE Forms!Available(Forms!NoLoa, start) = Durations
BY LoasOfLists DEF Forms!Available, Forms!ExpiresBefore

\* A longer duration ends later.
LEMMA ExpiryGrows ==
    ASSUME NEW start \in Starts, NEW d \in Durations, NEW e \in Durations, d <= e
    PROVE  /\ Forms!ExpiryDate(start, d) \in Nat
           /\ Forms!ExpiryDate(start, d) <= Forms!ExpiryDate(start, e)
<1>1. /\ start \in Nat /\ d \in Nat \ {0} /\ e \in Nat \ {0} /\ e <= Year /\ Year \in Nat
      /\ LeapUntil \in Nat
  BY FormConstants
<1> QED
  BY <1>1 DEF Forms!ExpiryDate

FormVehicles == [id : Vehicles \cup {NoVehicle}, kind : Forms!Kinds,
                 subtype : Subtypes \cup {NoSubtype}]

\* A vehicle of the inventory is of the kind of its subtype, as far as it has one.
Consistent(v) ==
    v.id # NoVehicle => v.subtype = NoSubtype \/ v.kind = Forms!KindOf(v.subtype)

FormVehicle(v) == v \in FormVehicles /\ Consistent(v)

LEMMA UpdatedVehicleIs ==
    ASSUME NEW l \in FormLoas, NEW v, FormVehicle(v)
    PROVE  /\ FormVehicle(Forms!UpdatedVehicle(l, v))
           /\ l # Forms!NoLoa =>
                /\ Forms!UpdatedVehicle(l, v).kind = Forms!KindOf(l.subtype)
                /\ Forms!UpdatedVehicle(l, v).subtype = l.subtype
                /\ v.kind = Forms!KindOf(l.subtype) /\ v.subtype = l.subtype =>
                     Forms!UpdatedVehicle(l, v) = v
           /\ l = Forms!NoLoa =>
                Forms!UpdatedVehicle(l, v)
                  = IF v.id # NoVehicle /\ v.subtype \notin Eligible
                    THEN Forms!EmptyVehicle ELSE v
<1>1. /\ Forms!EmptyVehicle \in FormVehicles /\ Forms!EmptyVehicle.id = NoVehicle
      /\ \A k : Forms!KindOf(k) \in Forms!Kinds
  BY DEF Forms!EmptyVehicle, FormVehicles, Forms!Kinds, Forms!KindOf
<1>2. CASE l = Forms!NoLoa
  BY <1>1, <1>2 DEF Forms!UpdatedVehicle, Forms!UsesLoa, FormVehicle, Consistent
<1>3. CASE l # Forms!NoLoa
  <2> DEFINE kept == IF v.id # NoVehicle /\ v.subtype \notin {l.subtype}
                     THEN Forms!EmptyVehicle ELSE v
             u == [kept EXCEPT !.kind = Forms!KindOf(l.subtype), !.subtype = l.subtype]
  <2>1. l.subtype \in Subtypes
    BY <1>3, LoasOfLists DEF FormLoas, Forms!Loa
  <2>2. kept \in FormVehicles /\ Forms!KindOf(l.subtype) \in Forms!Kinds
    BY <1>1 DEF FormVehicle
  <2>3. /\ u \in FormVehicles
        /\ u.kind = Forms!KindOf(l.subtype) /\ u.subtype = l.subtype
    <3> HIDE DEF kept
    <3> QED
      BY <2>1, <2>2 DEF FormVehicles
  <2>4. Forms!UpdatedVehicle(l, v) = u
    BY <1>3 DEF Forms!UpdatedVehicle, Forms!UsesLoa
  <2>5. v.kind = Forms!KindOf(l.subtype) /\ v.subtype = l.subtype => u = v
    BY DEF FormVehicle, FormVehicles
  <2> HIDE DEF u
  <2> QED
    BY <1>3, <2>3, <2>4, <2>5 DEF FormVehicle, Consistent
<1> QED
  BY <1>2, <1>3

\* The first subtype of a menu.
LEMMA MenuHasFirst ==
    ASSUME NEW l \in FormLoas, NEW k,
           Forms!SubtypeOptions(l, k) # {}
    PROVE  /\ Forms!Min(Forms!SubtypeOptions(l, k)) \in Forms!SubtypeOptions(l, k)
           /\ Forms!SubtypeOptions(l, k) \subseteq Subtypes
<1>1. /\ IsFiniteSet(Subtypes) /\ Subtypes \subseteq Int /\ Eligible \subseteq Subtypes
  BY FormConstants
<1>2. l # Forms!NoLoa => l.subtype \in Subtypes
  BY LoasOfLists DEF FormLoas, Forms!Loa
<1>3. Forms!SubtypeOptions(l, k) \subseteq Subtypes
  BY <1>1, <1>2 DEF Forms!SubtypeOptions, Forms!UsesLoa
<1>4. IsFiniteSet(Forms!SubtypeOptions(l, k))
  BY <1>1, <1>3, FS_Subset
<1> QED
  BY <1>1, <1>3, <1>4, MaxAndMin

\* The vehicle that an effect leaves on the form.
LEMMA VehicleOnMenuIs ==
    ASSUME NEW l \in FormLoas, NEW v, FormVehicle(v)
    PROVE  /\ FormVehicle(Forms!VehicleOnMenu(l, v))
           /\ l # Forms!NoLoa =>
                /\ Forms!VehicleOnMenu(l, v).kind = Forms!KindOf(l.subtype)
                /\ v.kind = Forms!KindOf(l.subtype) =>
                     Forms!VehicleOnMenu(l, v).subtype = l.subtype
                /\ v.kind = Forms!KindOf(l.subtype) /\ v.subtype = l.subtype =>
                     Forms!VehicleOnMenu(l, v) = v
           /\ l = Forms!NoLoa =>
                /\ Forms!VehicleOnMenu(l, v).subtype \in Eligible \cup {NoSubtype}
                /\ Forms!VehicleOnMenu(l, v).id = NoVehicle \/ Forms!VehicleOnMenu(l, v) = v
                /\ v.id = NoVehicle =>
                     LET options == Forms!SubtypeOptions(l, v.kind)
                         w == Forms!VehicleOnMenu(l, v)
                     IN  /\ w.kind = v.kind
                         /\ w.subtype \in options \/ (options = {} /\ w.subtype = NoSubtype)
                         /\ v.subtype \in options \/ (options = {} /\ v.subtype = NoSubtype)
                              => w = v
<1> DEFINE u == Forms!UpdatedVehicle(l, v)
           options == Forms!SubtypeOptions(l, v.kind)
           s == IF options = {} THEN NoSubtype ELSE Forms!Min(options)
           r == [u EXCEPT !.subtype = s]
           w == Forms!VehicleOnMenu(l, v)
<1>1. w = IF u.subtype \in options THEN u ELSE r
  BY DEF Forms!VehicleOnMenu
<1>2. FormVehicle(u)
  BY UpdatedVehicleIs
<1>3. /\ options # {} => s \in options /\ options \subseteq Subtypes
      /\ options = {} => s = NoSubtype
      /\ s \in Subtypes \cup {NoSubtype}
  BY MenuHasFirst
<1>4. /\ \A o \in options : Forms!KindOf(o) = v.kind
      /\ l # Forms!NoLoa => options \subseteq {l.subtype}
                            /\ (v.kind = Forms!KindOf(l.subtype) => options = {l.subtype})
      /\ l = Forms!NoLoa => options = {o \in Eligible : Forms!KindOf(o) = v.kind}
  BY DEF Forms!SubtypeOptions, Forms!UsesLoa
<1>5. /\ r \in FormVehicles /\ r.id = u.id /\ r.kind = u.kind /\ r.subtype = s
      /\ s = u.subtype => r = u
  <2>1. u \in FormVehicles /\ s \in Subtypes \cup {NoSubtype}
    BY <1>2, <1>3 DEF FormVehicle
  <2> HIDE DEF u, s
  <2> QED
    BY <2>1 DEF FormVehicles
<1>6. CASE l # Forms!NoLoa
  <2>1. /\ u.kind = Forms!KindOf(l.subtype) /\ u.subtype = l.subtype
        /\ v.kind = Forms!KindOf(l.subtype) /\ v.subtype = l.subtype => u = v
    BY <1>6, UpdatedVehicleIs
  <2>2. u.subtype \notin options => options = {}
    BY <1>4, <1>6, <2>1
  <2>3. FormVehicle(w)
    <3> HIDE DEF u, r, s, options, w
    <3> QED
      BY <1>1, <1>2, <1>3, <1>5, <2>2 DEF FormVehicle, Consistent
  <2>4. /\ w.kind = Forms!KindOf(l.subtype)
        /\ v.kind = Forms!KindOf(l.subtype) => w = u
    <3> HIDE DEF u, r, s, options, w
    <3> QED
      BY <1>1, <1>4, <1>5, <1>6, <2>1
  <2> QED
    BY <1>6, <2>1, <2>3, <2>4
<1>7. CASE l = Forms!NoLoa
  <2>1. u = IF v.id # NoVehicle /\ v.subtype \notin Eligible THEN Forms!EmptyVehicle ELSE v
    BY <1>7, UpdatedVehicleIs
  <2>2. NoSubtype \notin Eligible /\ Forms!EmptyVehicle.id = NoVehicle
    BY FormConstants DEF Forms!EmptyVehicle
  <2>3. CASE v.id # NoVehicle /\ v.subtype \in Eligible
    <3>1. u = v /\ v.subtype \in options
      BY <1>4, <1>7, <2>1, <2>2, <2>3 DEF FormVehicle, Consistent
    <3> QED
      BY <1>1, <1>2, <1>7, <2>3, <3>1
  <2>4. CASE ~(v.id # NoVehicle /\ v.subtype \in Eligible)
    <3>1. u.id = NoVehicle /\ w.id = NoVehicle
      <4> HIDE DEF r, s, options, w
      <4> QED
        BY <1>1, <1>5, <2>1, <2>2, <2>4
    <3>2. FormVehicle(w)
      <4> HIDE DEF u, r, s, options, w
      <4> QED
        BY <1>1, <1>2, <1>5, <3>1 DEF FormVehicle, Consistent
    <3>3. w.subtype \in options \/ (options = {} /\ w.subtype = NoSubtype)
      <4> HIDE DEF u, r, s, options, w
      <4> QED
        BY <1>1, <1>3, <1>5
    <3>4. options \subseteq Eligible
      BY <1>4, <1>7
    <3>5. v.id = NoVehicle => u = v
      BY <2>1
    <3>6. ASSUME v.id = NoVehicle
          PROVE  /\ w.kind = v.kind
                 /\ v.subtype \in options \/ (options = {} /\ v.subtype = NoSubtype) => w = v
      <4> HIDE DEF u, r, s, options, w
      <4> QED
        BY <1>1, <1>3, <1>5, <3>5, <3>6
    <3> QED
      BY <1>7, <3>1, <3>2, <3>3, <3>4, <3>6
  <2> QED
    BY <2>3, <2>4
<1> QED
  BY <1>6, <1>7

\* After two renders with the same LOA, the vehicle stays as it is.
LEMMA VehicleSettles ==
    ASSUME NEW l \in FormLoas, NEW v, FormVehicle(v)
    PROVE  LET w == Forms!VehicleOnMenu(l, Forms!VehicleOnMenu(l, v))
           IN  Forms!VehicleOnMenu(l, w) = w
<1> DEFINE u == Forms!VehicleOnMenu(l, v)
           w == Forms!VehicleOnMenu(l, u)
<1>1. FormVehicle(u)
  BY VehicleOnMenuIs
<1>2. FormVehicle(w)
  <2> HIDE DEF u
  <2> QED
    BY <1>1, VehicleOnMenuIs
<1>3. CASE l # Forms!NoLoa
  <2>1. u.kind = Forms!KindOf(l.subtype)
    BY <1>3, VehicleOnMenuIs
  <2>2. w.kind = Forms!KindOf(l.subtype) /\ w.subtype = l.subtype
    <3> HIDE DEF u
    <3> QED
      BY <1>1, <1>3, <2>1, VehicleOnMenuIs
  <2> HIDE DEF w
  <2> QED
    BY <1>2, <1>3, <2>2, VehicleOnMenuIs
<1>4. CASE l = Forms!NoLoa
  <2>1. u.id = NoVehicle \/ u = v
    BY <1>4, VehicleOnMenuIs
  <2>2. CASE u.id # NoVehicle
    BY <1>4, <2>1, <2>2
  <2>3. CASE u.id = NoVehicle
    <3> DEFINE options == Forms!SubtypeOptions(l, u.kind)
    <3>1. /\ w.id = NoVehicle /\ w.kind = u.kind
          /\ w.subtype \in options \/ (options = {} /\ w.subtype = NoSubtype)
      <4> HIDE DEF u
      <4> QED
        BY <1>1, <1>4, <2>3, VehicleOnMenuIs
    <3> HIDE DEF w
    <3> QED
      BY <1>2, <1>4, <3>1, VehicleOnMenuIs
  <2> QED
    BY <2>2, <2>3
<1> QED
  BY <1>3, <1>4

(***************************************************************************)
(* The form: its invariant                                                 *)
(***************************************************************************)

FormMemos ==
    [start : Starts, loa : FormLoas, list : SUBSET UNION LoaLists, options : SUBSET Durations,
     updated : Durations, dates : Starts \X Durations]

Fits(d, options) == Forms!UpdatedDuration(d, options) = d

FormTypes ==
    /\ form \in Forms!Form /\ FormVehicle(form.vehicle)
    /\ saved \in Forms!Form /\ FormVehicle(saved.vehicle)
    /\ memo \in FormMemos
    /\ fetched \in LoaLists
    /\ fetches \in 0..MaxFetches

\* The effects of a render have set the duration, or the user has picked one of
\* the menu, or the form has just been filled.
DurationOK ==
    \/ form.duration = memo.updated
    \/ form.duration \in memo.options
    \/ Fits(form.duration, Forms!Available(form.loa, form.start))

\* The expiry is that of the dates that the effect saw last, or the form has just
\* been filled, or the next render computes the expiry anew.
ExpiryOK ==
    \/ form.expiry = Forms!ExpiryDate(memo.dates[1], memo.dates[2])
    \/ form.expiry = Forms!ExpiryDate(form.start, form.duration)
    \/ memo.dates # <<memo.start, form.duration>>

FormInv ==
    /\ FormTypes
    /\ form.loa \in fetched \cup {Forms!NoLoa}
    /\ DurationOK
    /\ ExpiryOK

LEMMA FormFields ==
    ASSUME FormTypes
    PROVE  /\ form.start \in Starts /\ form.duration \in Durations /\ form.expiry \in Nat
           /\ form.loa \in FormLoas /\ form.vehicle \in FormVehicles
           /\ memo.start \in Starts /\ memo.loa \in FormLoas
           /\ memo.list \in SUBSET UNION LoaLists
           /\ memo.options \in SUBSET Durations /\ memo.updated \in Durations
           /\ memo.dates \in Starts \X Durations
BY DEF FormTypes, Forms!Form, FormLoas, FormVehicles, FormMemos

\* Lists and options of LOAs are of their types.
LEMMA FormSets ==
    ASSUME NEW list \in LoaLists, NEW l, NEW start
    PROVE  /\ Forms!NonExpired(list, start) \in SUBSET UNION LoaLists
           /\ Forms!NonExpired(list, start) \subseteq list
           /\ Forms!Available(l, start) \in SUBSET Durations
BY DEF Forms!NonExpired, Forms!Available

\* The form as filled with an application and a list of LOAs.
LEMMA FilledIs ==
    ASSUME NEW f \in Forms!Form, FormVehicle(f.vehicle), NEW list \in LoaLists
    PROVE  LET g == Forms!Filled(f, list) IN
           /\ g \in Forms!Form /\ FormVehicle(g.vehicle)
           /\ g.start = f.start
           /\ g.loa \in list \cup {Forms!NoLoa}
           /\ Fits(g.duration, Forms!Available(g.loa, g.start))
           /\ g.expiry = Forms!ExpiryDate(g.start, g.duration)
<1> DEFINE valid == Forms!NonExpired(list, f.start)
           l == Forms!Selection(valid, f.loa, f.start)
           options == Forms!Available(l, f.start)
           d == Forms!UpdatedDuration(f.duration, options)
           v == Forms!UpdatedVehicle(l, f.vehicle)
           g == Forms!Filled(f, list)
<1>1. /\ f.start \in Starts /\ f.duration \in Durations /\ f.loa \in FormLoas
  BY DEF Forms!Form, FormLoas
<1>2. l \in list \cup {Forms!NoLoa} /\ l \in FormLoas
  BY <1>1, FormSets, SelectionIs DEF FormLoas
<1>3. d \in Durations /\ Fits(d, options)
  BY <1>1, FormSets, UpdatedDurationIs DEF Fits
<1>4. FormVehicle(v)
  BY <1>2, UpdatedVehicleIs
<1>5. Forms!ExpiryDate(f.start, d) \in Nat
  <2> HIDE DEF d
  <2> QED
    BY <1>1, <1>3, FormConstants, ExpiryGrows
<1>6. g = [start |-> f.start, duration |-> d, expiry |-> Forms!ExpiryDate(f.start, d),
           loa |-> l, vehicle |-> v]
  BY DEF Forms!Filled
<1> HIDE DEF l, d, v, g
<1>7. g \in Forms!Form
  BY <1>1, <1>2, <1>3, <1>4, <1>5, <1>6 DEF Forms!Form, FormLoas, FormVehicle, FormVehicles
<1> QED
  BY <1>2, <1>3, <1>4, <1>6, <1>7 DEF g

\* What a render and its effects do, field by field.
LEMMA EffectsAre ==
    ASSUME FormTypes
    PROVE  LET f == Forms!AfterEffects
               m == Forms!AfterRender(fetched) IN
           /\ f \in Forms!Form /\ FormVehicle(f.vehicle)
           /\ f.start = form.start
           /\ f.duration = IF Forms!Updated # memo.updated THEN Forms!Updated ELSE form.duration
           /\ f.expiry = IF <<memo.start, form.duration>> # memo.dates
                         THEN Forms!ExpiryDate(memo.start, form.duration) ELSE form.expiry
           /\ f.loa = IF memo.loa # Forms!NoLoa /\ ~LoaKept(memo.list, memo.loa, memo.start)
                      THEN Forms!NoLoa ELSE form.loa
           /\ f.vehicle = Forms!VehicleOnMenu(memo.loa, form.vehicle)
           /\ f = [start |-> f.start, duration |-> f.duration, expiry |-> f.expiry,
                   loa |-> f.loa, vehicle |-> f.vehicle]
           /\ Forms!Updated \in Durations
<1> DEFINE checked == Forms!Selection(memo.list, memo.loa, memo.start)
           d == IF Forms!Updated # memo.updated THEN Forms!Updated ELSE form.duration
           e == IF <<memo.start, form.duration>> # memo.dates
                THEN Forms!ExpiryDate(memo.start, form.duration) ELSE form.expiry
           l == IF checked.number # memo.loa.number THEN checked ELSE form.loa
           v == Forms!VehicleOnMenu(memo.loa, form.vehicle)
           f == Forms!AfterEffects
<1>1. l = IF memo.loa # Forms!NoLoa /\ ~LoaKept(memo.list, memo.loa, memo.start)
          THEN Forms!NoLoa ELSE form.loa
  BY FormFields, SelectionIs
<1>2. l \in FormLoas
  <2> HIDE DEF l
  <2> QED
    BY <1>1, FormFields DEF FormLoas
<1>3. Forms!Updated \in Durations
  BY FormFields, UpdatedDurationIs DEF Forms!Updated
<1>4. FormVehicle(v)
  BY FormFields, VehicleOnMenuIs DEF FormTypes
<1>5. e \in Nat
  BY FormFields, FormConstants, ExpiryGrows
<1>6. f = [start |-> form.start, duration |-> d, expiry |-> e, loa |-> l, vehicle |-> v]
  BY DEF Forms!AfterEffects
<1>7. d \in Durations
  BY <1>3, FormFields
<1> HIDE DEF l, d, e, v, f
<1>8. f \in Forms!Form
  BY <1>2, <1>4, <1>5, <1>6, <1>7, FormFields
  DEF Forms!Form, FormLoas, FormVehicle, FormVehicles
<1> QED
  BY <1>1, <1>3, <1>4, <1>6, <1>8 DEF f, d, e, v

LEMMA RenderIs ==
    ASSUME FormTypes, NEW list \in LoaLists
    PROVE  LET m == Forms!AfterRender(list) IN
           /\ m \in FormMemos
           /\ m.start = form.start /\ m.loa = form.loa
           /\ m.list = Forms!NonExpired(list, form.start)
           /\ m.options = Forms!Available(memo.loa, memo.start)
           /\ m.updated = Forms!Updated
           /\ m.dates = <<memo.start, form.duration>>
<1>1. /\ Forms!Updated \in Durations
      /\ Forms!NonExpired(list, form.start) \in SUBSET UNION LoaLists
      /\ Forms!Available(memo.loa, memo.start) \in SUBSET Durations
  BY EffectsAre, FormSets
<1> QED
  BY <1>1, FormFields DEF Forms!AfterRender, FormMemos

\* A form that has settled shows what its hooks have seen.
LEMMA SettledIs ==
    ASSUME FormInv, Forms!Settled
    PROVE  /\ memo.start = form.start /\ memo.loa = form.loa
           /\ memo.list = Forms!NonExpired(fetched, form.start)
           /\ memo.options = Forms!Available(form.loa, form.start)
           /\ form.duration = memo.updated /\ Fits(form.duration, memo.options)
           /\ memo.dates = <<form.start, form.duration>>
           /\ form.expiry = Forms!ExpiryDate(form.start, form.duration)
           /\ form.loa # Forms!NoLoa => LoaKept(memo.list, form.loa, form.start)
           /\ form.vehicle = Forms!VehicleOnMenu(form.loa, form.vehicle)
<1>1. FormTypes /\ fetched \in LoaLists
  BY DEF FormInv, FormTypes
<1>2. /\ memo.start = form.start /\ memo.loa = form.loa
      /\ memo.list = Forms!NonExpired(fetched, form.start)
      /\ memo.options = Forms!Available(memo.loa, memo.start)
      /\ memo.updated = Forms!Updated
      /\ memo.dates = <<memo.start, form.duration>>
  BY <1>1, RenderIs DEF Forms!Settled
<1>3. /\ form.loa = IF memo.loa # Forms!NoLoa /\ ~LoaKept(memo.list, memo.loa, memo.start)
                    THEN Forms!NoLoa ELSE form.loa
      /\ form.vehicle = Forms!VehicleOnMenu(memo.loa, form.vehicle)
  BY <1>1, EffectsAre DEF Forms!Settled
<1>4. form.duration = memo.updated /\ Fits(form.duration, memo.options)
  <2>1. form.duration \in Durations /\ memo.options \in SUBSET Durations
    BY <1>1, FormFields
  <2>2. memo.updated = Forms!UpdatedDuration(form.duration, memo.options)
    BY <1>2 DEF Forms!Updated
  <2>3. Fits(memo.updated, memo.options)
    BY <2>1, <2>2, UpdatedDurationIs DEF Fits
  <2>4. CASE form.duration \in memo.options
    BY <2>1, <2>2, <2>4, UpdatedDurationIs DEF Fits
  <2>5. CASE Fits(form.duration, Forms!Available(form.loa, form.start))
    BY <1>2, <2>2, <2>5 DEF Fits
  <2> QED
    BY <2>3, <2>4, <2>5 DEF FormInv, DurationOK
<1>5. form.expiry = Forms!ExpiryDate(form.start, form.duration)
  BY <1>2 DEF FormInv, ExpiryOK
<1> QED
  BY <1>2, <1>3, <1>4, <1>5

LEMMA InitForm == Forms!Init => FormInv
<1> SUFFICES ASSUME Forms!Init PROVE FormInv
  OBVIOUS
<1>1. fetched \in LoaLists /\ fetches \in 0..MaxFetches
  BY FormConstants DEF Forms!Init
<1>2. PICK start \in Starts : saved = Forms!NewApplication(start)
  BY DEF Forms!Init
<1>3. saved \in Forms!Form /\ FormVehicle(saved.vehicle)
  <2>1. Forms!ExpiryDate(start, MinDuration) \in Nat /\ MinDuration \in Durations
    BY FormConstants, ExpiryGrows
  <2>2. /\ Forms!EmptyVehicle \in FormVehicles /\ Forms!EmptyVehicle.id = NoVehicle
    BY DEF Forms!EmptyVehicle, FormVehicles, Forms!Kinds
  <2> QED
    BY <1>2, <2>1, <2>2
    DEF Forms!NewApplication, Forms!Form, FormVehicles, FormVehicle, Consistent
<1>4. /\ form \in Forms!Form /\ FormVehicle(form.vehicle)
      /\ form.loa \in fetched \cup {Forms!NoLoa}
      /\ Fits(form.duration, Forms!Available(form.loa, form.start))
  BY <1>1, <1>3, FilledIs DEF Forms!Init
<1>5. form.expiry = Forms!ExpiryDate(form.start, form.duration)
  BY <1>1, <1>3, FilledIs DEF Forms!Init
<1>6. memo \in FormMemos
  <2>1. /\ form.start \in Starts /\ form.duration \in Durations /\ form.loa \in FormLoas
    BY <1>4 DEF Forms!Form, FormLoas
  <2>2. /\ Forms!NonExpired(fetched, form.start) \in SUBSET UNION LoaLists
        /\ Forms!Available(form.loa, form.start) \in SUBSET Durations
    BY <1>1, FormSets
  <2>3. Forms!UpdatedDuration(form.duration, Forms!Available(form.loa, form.start)) \in Durations
    BY <2>1, <2>2, UpdatedDurationIs
  <2>4. memo = Forms!Memorized(form, fetched)
    BY DEF Forms!Init
  <2> QED
    BY <2>1, <2>2, <2>3, <2>4 DEF Forms!Memorized, FormMemos
<1> QED
  BY <1>1, <1>3, <1>4, <1>5, <1>6 DEF FormInv, FormTypes, DurationOK, ExpiryOK

\* The user changes one field of a settled form: the effects still have to see it.
LEMMA EditKeeps ==
    ASSUME FormInv, Forms!Settled, UNCHANGED <<memo, fetched, saved, fetches>>,
           form' \in Forms!Form, FormVehicle(form'.vehicle),
           form'.loa \in fetched \cup {Forms!NoLoa},
           form'.expiry = form.expiry,
           form'.duration = form.duration \/ form'.duration \in memo.options
    PROVE  FormInv'
<1>1. FormTypes'
  BY DEF FormInv, FormTypes
<1>2. DurationOK'
  BY SettledIs DEF DurationOK
<1>3. ExpiryOK'
  BY SettledIs DEF ExpiryOK
<1> QED
  BY <1>1, <1>2, <1>3 DEF FormInv

LEMMA FilledKeeps ==
    ASSUME FormInv, NEW f \in Forms!Form, FormVehicle(f.vehicle), NEW list \in LoaLists,
           form' = Forms!Filled(f, list), fetched' = list,
           memo' \in FormMemos, saved' \in Forms!Form, FormVehicle(saved'.vehicle),
           fetches' \in 0..MaxFetches
    PROVE  FormInv'
<1>1. /\ form' \in Forms!Form /\ FormVehicle(form'.vehicle)
      /\ form'.loa \in list \cup {Forms!NoLoa}
      /\ Fits(form'.duration, Forms!Available(form'.loa, form'.start))
      /\ form'.expiry = Forms!ExpiryDate(form'.start, form'.duration)
  BY FilledIs
<1>2. FormTypes'
  BY <1>1 DEF FormTypes
<1>3. DurationOK' /\ ExpiryOK'
  BY <1>1 DEF DurationOK, ExpiryOK
<1> QED
  BY <1>1, <1>2, <1>3 DEF FormInv

LEMMA RenderKeeps ==
    ASSUME FormInv, Forms!Render
    PROVE  FormInv'
<1>1. FormTypes /\ fetched \in LoaLists /\ UNCHANGED <<fetched, saved, fetches>>
  BY DEF FormInv, FormTypes, Forms!Render
<1>2. /\ form' \in Forms!Form /\ FormVehicle(form'.vehicle)
      /\ form'.start = form.start
      /\ form'.duration = IF Forms!Updated # memo.updated THEN Forms!Updated
                          ELSE form.duration
      /\ form'.expiry = IF <<memo.start, form.duration>> # memo.dates
                        THEN Forms!ExpiryDate(memo.start, form.duration) ELSE form.expiry
      /\ form'.loa \in {form.loa, Forms!NoLoa}
  BY <1>1, EffectsAre DEF Forms!Render
<1>3. /\ memo' \in FormMemos /\ memo'.start = form.start
      /\ memo'.updated = Forms!Updated
      /\ memo'.dates = <<memo.start, form.duration>>
  BY <1>1, RenderIs DEF Forms!Render
<1>4. FormTypes'
  BY <1>1, <1>2, <1>3 DEF FormTypes
<1>5. DurationOK'
  <2>1. /\ form.duration \in Durations /\ memo.options \in SUBSET Durations
        /\ form'.duration \in Durations
    BY <1>1, <1>4, FormFields DEF Forms!Form, FormTypes
  <2>2. CASE Forms!Updated # memo.updated \/ form.duration = memo.updated
    BY <1>2, <1>3, <2>2 DEF DurationOK
  <2>3. CASE form.duration \in memo.options /\ Forms!Updated = memo.updated
    <3>1. Forms!Updated = form.duration
      BY <2>1, <2>3, UpdatedDurationIs DEF Forms!Updated
    <3> QED
      BY <1>2, <1>3, <2>3, <3>1 DEF DurationOK
  <2>4. CASE /\ Fits(form.duration, Forms!Available(form.loa, form.start))
             /\ Forms!Updated = memo.updated
    <3>1. form'.duration = form.duration /\ form'.start = form.start
      BY <1>2, <2>4
    <3>2. CASE form'.loa = form.loa
      BY <2>4, <3>1, <3>2 DEF DurationOK
    <3>3. CASE form'.loa = Forms!NoLoa
      <4>1. Forms!Available(form'.loa, form'.start) = Durations
        BY <3>3, AllAvailable
      <4>2. Fits(form'.duration, Durations)
        BY <2>1, UpdatedDurationIs DEF Fits
      <4> QED
        BY <4>1, <4>2 DEF DurationOK
    <3> QED
      BY <1>2, <3>2, <3>3
  <2> QED
    BY <2>2, <2>3, <2>4 DEF FormInv, DurationOK
<1>6. ExpiryOK'
  <2>1. CASE memo.dates # <<memo.start, form.duration>>
    BY <1>2, <1>3, <2>1 DEF ExpiryOK
  <2>2. CASE memo.dates = <<memo.start, form.duration>>
    <3>1. form'.expiry = form.expiry /\ memo'.dates = memo.dates
      BY <1>2, <1>3, <2>2
    <3>2. CASE form.expiry = Forms!ExpiryDate(memo.dates[1], memo.dates[2])
      BY <3>1, <3>2 DEF ExpiryOK
    <3>3. CASE form.expiry = Forms!ExpiryDate(form.start, form.duration)
      <4>1. CASE form'.duration = form.duration
        BY <1>2, <3>1, <3>3, <4>1 DEF ExpiryOK
      <4>2. CASE form'.duration # form.duration
        BY <1>3, <4>2 DEF ExpiryOK
      <4> QED
        BY <4>1, <4>2
    <3> QED
      BY <2>2, <3>2, <3>3 DEF FormInv, ExpiryOK
  <2> QED
    BY <2>1, <2>2
<1>7. form'.loa \in fetched' \cup {Forms!NoLoa}
  BY <1>1, <1>2 DEF FormInv
<1> QED
  BY <1>4, <1>5, <1>6, <1>7 DEF FormInv

LEMMA FormStep ==
    ASSUME FormInv, [Forms!Next]_formVars
    PROVE  FormInv'
<1>t. /\ FormTypes /\ form \in Forms!Form /\ FormVehicle(form.vehicle)
      /\ fetched \in LoaLists /\ form.loa \in fetched \cup {Forms!NoLoa}
  BY DEF FormInv, FormTypes
<1>l. /\ form.loa \in FormLoas /\ memo.loa \in FormLoas /\ form.vehicle \in FormVehicles
      /\ memo.options \in SUBSET Durations
  BY <1>t, FormFields
<1>m. memo.loa # Forms!NoLoa => memo.loa.subtype \in Subtypes
  BY <1>l, LoasOfLists DEF FormLoas, Forms!Loa
<1>k. \A s : Forms!KindOf(s) \in Forms!Kinds
  BY DEF Forms!KindOf, Forms!Kinds
<1>1. CASE Forms!Render
  BY <1>1, RenderKeeps
<1>2. CASE Forms!Fetch
  <2>1. PICK list \in LoaLists :
           /\ fetched' = list /\ form' = Forms!Filled(saved, list)
           /\ memo' = Forms!AfterRender(list)
    BY <1>2 DEF Forms!Fetch
  <2>2. saved' = saved /\ fetches' \in 0..MaxFetches
    BY <1>2, FormConstants DEF Forms!Fetch, FormInv, FormTypes
  <2>3. memo' \in FormMemos
    BY <1>t, <2>1, RenderIs
  <2>4. saved \in Forms!Form /\ FormVehicle(saved.vehicle)
    BY DEF FormInv, FormTypes
  <2> QED
    BY <2>1, <2>2, <2>3, <2>4, FilledKeeps
<1>3. CASE Forms!PickStart
  <2>1. PICK d \in Starts : Forms!Edit([form EXCEPT !.start = d])
    BY <1>3 DEF Forms!PickStart
  <2> DEFINE f == [form EXCEPT !.start = d]
  <2>2. /\ f \in Forms!Form /\ f.vehicle = form.vehicle /\ f.loa = form.loa
        /\ f.expiry = form.expiry /\ f.duration = form.duration
    BY <1>t DEF Forms!Form
  <2> QED
    BY <1>t, <2>1, <2>2, EditKeeps DEF Forms!Edit
<1>4. CASE Forms!PickDuration
  <2>1. PICK d \in memo.options : Forms!Edit([form EXCEPT !.duration = d])
    BY <1>4 DEF Forms!PickDuration
  <2> DEFINE f == [form EXCEPT !.duration = d]
  <2>2. /\ f \in Forms!Form /\ f.vehicle = form.vehicle /\ f.loa = form.loa
        /\ f.expiry = form.expiry /\ f.duration = d
    BY <1>t, <1>l DEF Forms!Form
  <2> QED
    BY <1>t, <2>1, <2>2, EditKeeps DEF Forms!Edit
<1>5. CASE Forms!PickLoa
  <2>1. PICK l \in memo.list \cup {Forms!NoLoa} : Forms!Edit([form EXCEPT !.loa = l])
    BY <1>5 DEF Forms!PickLoa
  <2>2. l \in fetched \cup {Forms!NoLoa}
    BY <1>t, <2>1, SettledIs, FormSets DEF Forms!Edit
  <2> DEFINE f == [form EXCEPT !.loa = l]
  <2>3. /\ f \in Forms!Form /\ f.vehicle = form.vehicle /\ f.loa = l
        /\ f.expiry = form.expiry /\ f.duration = form.duration
    BY <1>t, <2>2 DEF Forms!Form
  <2> QED
    BY <1>t, <2>1, <2>2, <2>3, EditKeeps DEF Forms!Edit
<1>6. ASSUME NEW v, FormVehicle(v), Forms!Edit([form EXCEPT !.vehicle = v])
      PROVE  FormInv'
  <2> DEFINE f == [form EXCEPT !.vehicle = v]
  <2>1. /\ f \in Forms!Form /\ f.vehicle = v /\ f.loa = form.loa
        /\ f.expiry = form.expiry /\ f.duration = form.duration
    BY <1>t, <1>6 DEF Forms!Form, FormVehicle, FormVehicles
  <2> QED
    BY <1>t, <1>6, <2>1, EditKeeps DEF Forms!Edit
<1>7. CASE Forms!PickVehicle
  <2>1. PICK v \in Vehicles :
           Forms!Edit([form EXCEPT !.vehicle = [id |-> v, kind |-> Forms!KindOf(SubtypeOf[v]),
                                                subtype |-> SubtypeOf[v]]])
    BY <1>7 DEF Forms!PickVehicle
  <2>2. SubtypeOf[v] \in Subtypes
    BY FormConstants
  <2>3. FormVehicle([id |-> v, kind |-> Forms!KindOf(SubtypeOf[v]), subtype |-> SubtypeOf[v]])
    BY <1>k, <2>2 DEF FormVehicle, FormVehicles, Consistent
  <2> QED
    BY <1>6, <2>1, <2>3
<1>8. CASE Forms!ClearVehicle
  <2> DEFINE v == IF Forms!UsesLoa(memo.loa)
                  THEN [id |-> NoVehicle, kind |-> Forms!KindOf(memo.loa.subtype),
                        subtype |-> memo.loa.subtype]
                  ELSE Forms!EmptyVehicle
  <2>1. Forms!Edit([form EXCEPT !.vehicle = v])
    BY <1>8 DEF Forms!ClearVehicle
  <2>2. FormVehicle(v)
    BY <1>k, <1>m
    DEF Forms!UsesLoa, Forms!EmptyVehicle, FormVehicle, FormVehicles, Consistent, Forms!Kinds
  <2> HIDE DEF v
  <2> QED
    BY <1>6, <2>1, <2>2
<1>9. CASE Forms!ChangeKind
  <2>1. PICK k \in Forms!Kinds :
           /\ form.vehicle.id = NoVehicle
           /\ Forms!Edit([form EXCEPT !.vehicle.kind = k, !.vehicle.subtype = NoSubtype])
    BY <1>9 DEF Forms!ChangeKind
  <2> DEFINE v == [form.vehicle EXCEPT !.kind = k, !.subtype = NoSubtype]
  <2>2. FormVehicle(v)
    BY <1>l, <2>1 DEF FormVehicle, FormVehicles, Consistent
  <2>3. [form EXCEPT !.vehicle.kind = k, !.vehicle.subtype = NoSubtype]
          = [form EXCEPT !.vehicle = v]
    BY <1>t, <1>l DEF Forms!Form, FormVehicles
  <2> HIDE DEF v
  <2> QED
    BY <1>6, <2>1, <2>2, <2>3
<1>10. CASE Forms!PickSubtype
  <2>1. PICK s \in Forms!SubtypeOptions(memo.loa, form.vehicle.kind) :
           /\ memo.loa = Forms!NoLoa
           /\ Forms!Edit([form EXCEPT !.vehicle.subtype = s])
    BY <1>10 DEF Forms!PickSubtype, Forms!UsesLoa
  <2>2. s \in Subtypes /\ Forms!KindOf(s) = form.vehicle.kind
    BY <2>1, FormConstants DEF Forms!SubtypeOptions, Forms!UsesLoa
  <2> DEFINE v == [form.vehicle EXCEPT !.subtype = s]
  <2>3. FormVehicle(v)
    BY <1>l, <2>2 DEF FormVehicle, FormVehicles, Consistent
  <2>4. [form EXCEPT !.vehicle.subtype = s] = [form EXCEPT !.vehicle = v]
    BY <1>t, <1>l DEF Forms!Form, FormVehicles
  <2> HIDE DEF v
  <2> QED
    BY <1>6, <2>1, <2>3, <2>4
<1>11. CASE Forms!Save
  <2>1. /\ saved' = form /\ form' = Forms!Filled(form, fetched)
        /\ UNCHANGED <<memo, fetched, fetches>>
    BY <1>11 DEF Forms!Save
  <2> QED
    BY <1>t, <2>1, FilledKeeps DEF FormTypes
<1>12. CASE UNCHANGED formVars
  BY <1>12 DEF formVars, FormInv, FormTypes, DurationOK, ExpiryOK
<1> QED
  BY <1>1, <1>2, <1>3, <1>4, <1>5, <1>7, <1>8, <1>9, <1>10, <1>11, <1>12 DEF Forms!Next

LEMMA FormInvariant == CompanySpec => []FormInv
<1>1. CompanyInit => FormInv
  BY InitForm DEF CompanyInit
<1>2. FormInv /\ [CompanyNext]_companyVars => FormInv'
  <2>1. [CompanyNext]_companyVars => [Forms!Next]_formVars
    BY DEF CompanyNext, companyVars
  <2> QED
    BY <2>1, FormStep
<1> QED
  BY <1>1, <1>2, PTL DEF CompanySpec

\* For any dates, durations, LOAs and vehicles: once its effects are done, the
\* form shows a permit that lies within its LOA as fetched last, ends as its start
\* and duration say, and is for a vehicle that the LOA or the policy allows,
\* whatever the order of edits, saves and fetches (ApplicationFormContext's hooks).
THEOREM SettledFormFits == CompanySpec => []FormFits
<1>1. FormInv => FormFits
  <2> SUFFICES ASSUME FormInv, Forms!Settled
               PROVE  Forms!LoaCoversPermit /\ Forms!ExpiryIsTheDates /\ Forms!VehicleIsAllowed
    BY DEF FormFits, Forms!LoaCoversPermit, Forms!ExpiryIsTheDates, Forms!VehicleIsAllowed
  <2>t. /\ form.start \in Starts /\ form.duration \in Durations /\ form.loa \in FormLoas
        /\ FormVehicle(form.vehicle) /\ fetched \in LoaLists
        /\ memo.options \in SUBSET Durations
    BY FormFields DEF FormInv, FormTypes
  <2>1. Forms!ExpiryIsTheDates
    BY SettledIs DEF Forms!ExpiryIsTheDates, Forms!ExpiryDate
  <2>2. ASSUME form.loa # Forms!NoLoa
        PROVE  /\ form.loa \in fetched
               /\ form.loa.start <= form.start
               /\ form.loa.expiry # NoExpiry => form.expiry <= form.loa.expiry
    <3>1. PICK l \in memo.list : l.number = form.loa.number /\ Forms!MayBeUsed(l, form.start)
      BY <2>2, SettledIs DEF LoaKept
    <3>2. l \in fetched /\ form.loa \in fetched
      BY <2>2, <2>t, <3>1, SettledIs, FormSets DEF FormInv
    <3>3. l = form.loa
      BY <2>t, <3>1, <3>2, FormConstants
    <3>4. /\ form.loa.start <= form.start
          /\ ~Forms!ExpiresBefore(form.loa, Forms!ExpiryDate(form.start, MinDuration))
      BY <3>1, <3>3 DEF Forms!MayBeUsed
    <3>5. form.loa.expiry \in Nat /\ MinDuration \in Durations
      BY <2>t, <3>2, FormConstants DEF Forms!Loa
    <3>6. MinDuration \in memo.options
      BY <3>4, <3>5, SettledIs DEF Forms!Available
    <3>7. PICK e \in memo.options : form.duration <= e
      BY <2>t, <3>6, SettledIs, UpdatedDurationIs DEF Fits
    <3>8. /\ ~Forms!ExpiresBefore(form.loa, Forms!ExpiryDate(form.start, e))
          /\ e \in Durations
      BY <3>7, SettledIs DEF Forms!Available
    <3>9. /\ form.expiry <= Forms!ExpiryDate(form.start, e)
          /\ form.expiry \in Nat /\ Forms!ExpiryDate(form.start, e) \in Nat
      BY <2>t, <3>7, <3>8, SettledIs, ExpiryGrows, FormConstants
    <3> QED
      BY <3>2, <3>4, <3>5, <3>8, <3>9 DEF Forms!ExpiresBefore
  <2>3. Forms!LoaCoversPermit
    BY <2>2 DEF Forms!LoaCoversPermit, Forms!UsesLoa
  <2>4. form.loa # Forms!NoLoa => /\ form.vehicle.subtype = form.loa.subtype
                                 /\ form.vehicle.kind = Forms!KindOf(form.loa.subtype)
    BY <2>t, SettledIs, VehicleOnMenuIs
  <2>5. form.loa = Forms!NoLoa => form.vehicle.subtype \in Eligible \cup {NoSubtype}
    BY <2>t, SettledIs, VehicleOnMenuIs
  <2>6. Forms!VehicleIsAllowed
    BY <2>4, <2>5 DEF Forms!VehicleIsAllowed, Forms!UsesLoa
  <2> QED
    BY <2>1, <2>3, <2>6
<1> QED
  BY <1>1, FormInvariant, PTL

(***************************************************************************)
(* The form: how many renders it takes to settle                           *)
(***************************************************************************)

\* What is final after so many renders in a row: first the hooks have seen the
\* start and the list, then the LOA on the form stays, then the hooks have seen
\* it, then the duration and the options go together, and then the vehicle.
RendersOK ==
    /\ renders \in 0..5
    /\ renders >= 1 =>
         /\ memo.start = form.start
         /\ memo.list = Forms!NonExpired(fetched, form.start)
         /\ form.loa \in {memo.loa, Forms!NoLoa}
    /\ renders >= 2 /\ form.loa # Forms!NoLoa =>
         /\ LoaKept(memo.list, form.loa, form.start)
         /\ memo.options = Forms!Available(form.loa, form.start)
    /\ renders >= 3 =>
         /\ memo.loa = form.loa
         /\ form.loa # Forms!NoLoa =>
              Fits(form.duration, Forms!Available(form.loa, form.start))
    /\ renders >= 4 =>
         /\ memo.options = Forms!Available(form.loa, form.start)
         /\ Fits(form.duration, memo.options)
         /\ \E w \in FormVehicles : Consistent(w) /\ form.vehicle = Forms!VehicleOnMenu(form.loa, w)
    /\ renders = 5 => Forms!Settled

LEMMA RendersMove ==
    ASSUME FormInv, RendersOK, Forms!Render, renders' = renders + 1
    PROVE  RendersOK'
<1>t. FormTypes /\ fetched \in LoaLists /\ UNCHANGED fetched
  BY DEF FormInv, FormTypes, Forms!Render
<1>1. renders \in 0..4 /\ renders' \in 1..5
  BY DEF RendersOK, Forms!Render
<1>2. /\ form'.start = form.start
      /\ form'.duration = IF Forms!Updated # memo.updated THEN Forms!Updated
                          ELSE form.duration
      /\ form'.loa = IF memo.loa # Forms!NoLoa /\ ~LoaKept(memo.list, memo.loa, memo.start)
                     THEN Forms!NoLoa ELSE form.loa
      /\ form'.vehicle = Forms!VehicleOnMenu(memo.loa, form.vehicle)
  BY <1>t, EffectsAre DEF Forms!Render
<1>3. /\ memo'.start = form.start /\ memo'.loa = form.loa
      /\ memo'.list = Forms!NonExpired(fetched, form.start)
      /\ memo'.options = Forms!Available(memo.loa, memo.start)
      /\ memo'.updated = Forms!Updated
      /\ memo'.dates = <<memo.start, form.duration>>
  BY <1>t, RenderIs DEF Forms!Render
<1>4. /\ FormTypes' /\ form.duration \in Durations /\ form'.duration \in Durations
      /\ memo.options \in SUBSET Durations
      /\ form.loa \in FormLoas /\ form'.loa \in FormLoas /\ form.vehicle \in FormVehicles
  <2>1. FormTypes'
    BY RenderKeeps DEF FormInv
  <2>2. form' \in Forms!Form
    BY <2>1 DEF FormTypes
  <2> QED
    BY <1>t, <2>1, <2>2, FormFields DEF Forms!Form, FormLoas
<1>5. /\ memo'.start = form'.start
      /\ memo'.list = Forms!NonExpired(fetched', form'.start)
      /\ form'.loa \in {memo'.loa, Forms!NoLoa}
  BY <1>t, <1>2, <1>3
<1>6. ASSUME renders >= 1, form'.loa # Forms!NoLoa
      PROVE  /\ form'.loa = form.loa /\ memo.loa = form.loa
             /\ LoaKept(memo'.list, form'.loa, form'.start)
             /\ memo'.options = Forms!Available(form'.loa, form'.start)
  <2>1. /\ memo.start = form.start /\ memo.list = Forms!NonExpired(fetched, form.start)
        /\ form.loa \in {memo.loa, Forms!NoLoa}
    BY <1>6 DEF RendersOK
  <2> QED
    BY <1>2, <1>3, <1>6, <2>1
\* The LOA is final after two renders, and the hooks have seen it after three.
<1>7. ASSUME renders >= 2
      PROVE  form'.loa = form.loa /\ memo'.loa = form'.loa
  <2>1. memo.start = form.start /\ form.loa \in {memo.loa, Forms!NoLoa}
    BY <1>1, <1>7 DEF RendersOK
  <2>2. CASE form.loa = Forms!NoLoa
    BY <1>2, <1>3, <2>2
  <2>3. CASE form.loa # Forms!NoLoa
    <3>1. LoaKept(memo.list, form.loa, form.start)
      BY <1>7, <2>3 DEF RendersOK
    <3> QED
      BY <1>2, <1>3, <2>1, <2>3, <3>1
  <2> QED
    BY <2>2, <2>3
<1>8. ASSUME renders >= 2, form'.loa # Forms!NoLoa
      PROVE  Fits(form'.duration, Forms!Available(form'.loa, form'.start))
  <2>1. memo.options = Forms!Available(form'.loa, form'.start)
    BY <1>2, <1>7, <1>8 DEF RendersOK
  <2>2. Forms!Updated = Forms!UpdatedDuration(form.duration, memo.options)
    BY DEF Forms!Updated
  <2>3. form'.duration = Forms!Updated
    <3>1. CASE Forms!Updated # memo.updated \/ form.duration = memo.updated
      BY <1>2, <3>1
    <3>2. CASE form.duration \in memo.options
      BY <1>2, <1>4, <2>2, <3>2, UpdatedDurationIs
    <3>3. CASE Fits(form.duration, Forms!Available(form.loa, form.start))
      BY <1>2, <1>7, <1>8, <2>1, <2>2, <3>3 DEF Fits
    <3> QED
      BY <3>1, <3>2, <3>3 DEF FormInv, DurationOK
  <2> QED
    BY <1>4, <2>1, <2>2, <2>3, UpdatedDurationIs DEF Fits
<1>9. ASSUME renders >= 3
      PROVE  /\ memo.loa = form'.loa
             /\ memo'.options = Forms!Available(form'.loa, form'.start)
             /\ Fits(form'.duration, memo'.options)
             /\ form'.vehicle = Forms!VehicleOnMenu(form'.loa, form.vehicle)
  <2>1. memo.loa = form.loa /\ memo.start = form.start /\ form'.loa = form.loa
    BY <1>1, <1>7, <1>9 DEF RendersOK
  <2>2. memo'.options = Forms!Available(form'.loa, form'.start)
    BY <1>2, <1>3, <2>1
  <2>3. CASE form'.loa # Forms!NoLoa
    BY <1>1, <1>2, <1>8, <1>9, <2>1, <2>2, <2>3
  <2>4. CASE form'.loa = Forms!NoLoa
    BY <1>2, <1>4, <2>1, <2>2, <2>4, AllAvailable, UpdatedDurationIs DEF Fits
  <2> QED
    BY <1>2, <2>1, <2>2, <2>3, <2>4
<1>10. ASSUME renders >= 4
       PROVE  Forms!Settled'
  <2>1. /\ memo.options = Forms!Available(form.loa, form.start)
        /\ Fits(form.duration, memo.options)
        /\ memo.loa = form.loa /\ memo.start = form.start
    BY <1>1, <1>10 DEF RendersOK
  <2>2. Forms!Updated = form.duration /\ form'.duration = form.duration
    BY <1>2, <2>1 DEF Fits, Forms!Updated
  <2>3. form'.loa = form.loa /\ memo'.options = memo.options
    BY <1>1, <1>3, <1>7, <1>10, <2>1
  <2>4. Forms!Updated' = form'.duration /\ memo'.updated = form'.duration
    BY <1>3, <2>1, <2>2, <2>3 DEF Fits, Forms!Updated
  <2>5. Forms!VehicleOnMenu(memo'.loa, form'.vehicle) = form'.vehicle
    <3>1. PICK w \in FormVehicles :
             Consistent(w) /\ form.vehicle = Forms!VehicleOnMenu(form.loa, w)
      BY <1>1, <1>10 DEF RendersOK
    <3>2. form'.vehicle = Forms!VehicleOnMenu(form.loa, Forms!VehicleOnMenu(form.loa, w))
      BY <1>2, <2>1, <3>1
    <3> QED
      BY <1>3, <1>4, <3>1, <3>2, VehicleSettles DEF FormVehicle
  <2>6. memo'.loa # Forms!NoLoa => LoaKept(memo'.list, memo'.loa, memo'.start)
    BY <1>1, <1>3, <1>5, <1>6, <1>10, <2>3
  <2>7. memo'.dates = <<memo'.start, form'.duration>>
    BY <1>3, <2>1, <2>2
  <2>8. Forms!AfterEffects' = form'
    <3> DEFINE checked == Forms!Selection(memo'.list, memo'.loa, memo'.start)
               l == IF checked.number # memo'.loa.number THEN checked ELSE form'.loa
    <3>1. memo' \in FormMemos
      BY <1>4 DEF FormTypes
    <3>2. /\ memo'.list \in SUBSET UNION LoaLists /\ memo'.loa \in FormLoas
          /\ memo'.start \in Starts
      BY <3>1 DEF FormMemos
    <3>3. ~(checked.number # memo'.loa.number)
      BY <2>6, <3>2, SelectionIs
    <3>4. l = form'.loa
      <4> HIDE DEF checked
      <4> QED
        BY <3>3
    <3>5. Forms!AfterEffects'
            = [start |-> form'.start,
               duration |-> IF Forms!Updated' # memo'.updated THEN Forms!Updated'
                            ELSE form'.duration,
               expiry |-> IF <<memo'.start, form'.duration>> # memo'.dates
                          THEN Forms!ExpiryDate(memo'.start, form'.duration)
                          ELSE form'.expiry,
               loa |-> l,
               vehicle |-> Forms!VehicleOnMenu(memo'.loa, form'.vehicle)]
      BY DEF Forms!AfterEffects
    <3>6. Forms!AfterEffects'
            = [start |-> form'.start, duration |-> form'.duration,
               expiry |-> form'.expiry, loa |-> form'.loa, vehicle |-> form'.vehicle]
      <4> HIDE DEF l
      <4> QED
        BY <2>4, <2>5, <2>7, <3>4, <3>5
    <3>7. form' = [start |-> form'.start, duration |-> form'.duration, expiry |-> form'.expiry,
                   loa |-> form'.loa, vehicle |-> form'.vehicle]
      BY <1>4 DEF FormTypes, Forms!Form
    <3> QED
      BY <3>6, <3>7
  <2>9. Forms!AfterRender(fetched)' = memo'
    <3>1. memo'.list = Forms!NonExpired(fetched', form'.start)
          /\ memo'.loa = form'.loa /\ memo'.start = form'.start
          /\ memo'.options = Forms!Available(memo'.loa, memo'.start)
      BY <1>2, <1>3, <1>5, <2>1, <2>3
    <3>2. memo' = [start |-> memo'.start, loa |-> memo'.loa, list |-> memo'.list,
                   options |-> memo'.options, updated |-> memo'.updated,
                   dates |-> memo'.dates]
      BY <1>4 DEF FormTypes, FormMemos
    <3> QED
      BY <2>4, <2>7, <3>1, <3>2 DEF Forms!AfterRender
  <2> QED
    BY <2>8, <2>9 DEF Forms!Settled
<1>11. renders' >= 4 => \E w \in FormVehicles :
          Consistent(w) /\ form'.vehicle = Forms!VehicleOnMenu(form'.loa, w)
  BY <1>1, <1>4, <1>9 DEF FormInv, FormTypes, FormVehicle
<1> QED
  BY <1>1, <1>5, <1>6, <1>7, <1>8, <1>9, <1>10, <1>11 DEF RendersOK

\* Whatever the effects of one render undo or complete of another, the form shows
\* nothing new after five renders in a row, for any dates, LOAs and vehicles: the
\* effects of ApplicationForm's hooks do not trigger each other for ever.
THEOREM FormSettles == CompanySpec => []EffectsEnd
<1>1. CompanyInit => RendersOK
  BY DEF CompanyInit, RendersOK
<1>2. FormInv /\ RendersOK /\ [CompanyNext]_companyVars => RendersOK'
  <2> SUFFICES ASSUME FormInv, RendersOK, [CompanyNext]_companyVars
               PROVE  RendersOK'
    OBVIOUS
  <2>1. CASE UNCHANGED companyVars
    BY <2>1
    DEF RendersOK, companyVars, formVars, Forms!Settled, Forms!AfterEffects,
        Forms!AfterRender, Forms!Updated
  <2>2. CASE CompanyNext /\ renders' = 0
    BY <2>2 DEF RendersOK
  <2>3. CASE CompanyNext /\ renders' # 0
    <3>1. part = "form" /\ ~Forms!Settled /\ fetches' = fetches
      BY <2>3 DEF CompanyNext, CountRenders
    <3>2. renders' = renders + 1
      BY <2>3, <3>1 DEF CompanyNext, CountRenders, MaxRenders, RendersOK
    <3>3. Forms!Next
      BY <2>3, <3>1 DEF CompanyNext
    <3>4. fetches \in Nat
      BY DEF FormInv, FormTypes
    <3>5. ~Forms!Fetch
      <4>1. Forms!Fetch => fetches' = fetches + 1
        BY DEF Forms!Fetch
      <4> QED
        BY <3>1, <3>4, <4>1
    <3>6. Forms!PickStart \/ Forms!PickDuration \/ Forms!PickLoa \/ Forms!PickVehicle
            => Forms!Settled
      BY DEF Forms!PickStart, Forms!PickDuration, Forms!PickLoa, Forms!PickVehicle,
             Forms!Edit
    <3>7. Forms!ClearVehicle \/ Forms!ChangeKind \/ Forms!PickSubtype \/ Forms!Save
            => Forms!Settled
      BY DEF Forms!ClearVehicle, Forms!ChangeKind, Forms!PickSubtype, Forms!Edit,
             Forms!Save
    <3>8. Forms!Render
      BY <3>1, <3>3, <3>5, <3>6, <3>7 DEF Forms!Next
    <3> QED
      BY <3>2, <3>8, RendersMove
  <2> QED
    BY <2>1, <2>2, <2>3
<1>3. RendersOK => EffectsEnd
  BY DEF RendersOK, EffectsEnd, MaxRenders
<1> QED
  BY <1>1, <1>2, <1>3, FormInvariant, PTL DEF CompanySpec

(***************************************************************************)
(* The money of a permit                                                   *)
(***************************************************************************)

\* A revision without a number; it is the last one, if there is one.
Unissued(i) == rows[i].status \notin Money!Numbered

\* The transactions that NetAmount adds up.
PaidFor == {t \in Money!History : ledger[t].approved = "yes"}

MoneyTypes ==
    /\ Money!TypeOK
    /\ \A t \in DOMAIN ledger : ledger[t].row \in DOMAIN rows

\* One payment of a revision is approved at most, and none of one that waits for
\* its payment.  What a revision got paid counts when it is issued: by then
\* nothing is given back that was not paid.
MoneyInv ==
    /\ MoneyTypes
    /\ \A i \in DOMAIN rows : Unissued(i) => i = Len(rows)
    /\ \A s, t \in DOMAIN ledger :
         (/\ ledger[s].row = ledger[t].row
          /\ ledger[s].approved = "yes" /\ ledger[t].approved = "yes") => s = t
    /\ \A t \in DOMAIN ledger :
         ledger[t].approved # "yes" => ledger[t].kind = "PURCHASE"
    /\ \A t \in DOMAIN ledger :
         ledger[t].approved = "yes" /\ Unissued(ledger[t].row) =>
            /\ rows[ledger[t].row].status # "WAITING_PAYMENT"
            /\ Money!NetAmount + Money!Signed[t] >= 0
    /\ Money!NetAmount >= 0

\* When every payment is approved: a revision has one transaction at most, which
\* brings what was paid in all to its fee, or to nothing if the company held a
\* no-fee authorization.
ApprovedInv ==
    /\ noFee => waived
    /\ \A t \in DOMAIN ledger :
         ledger[t].approved # "yes" =>
            rows[ledger[t].row].status = "WAITING_PAYMENT"
    /\ \A s, t \in DOMAIN ledger : ledger[s].row = ledger[t].row => s = t
    /\ \A i \in DOMAIN rows :
         rows[i].status = "ISSUED" =>
            /\ i = Len(rows) \/ (i = Len(rows) - 1 /\ Unissued(Len(rows)))
            /\ ~waived => Money!NetAmount = rows[i].fee
    /\ \A i \in DOMAIN rows :
         Unissued(i) /\ i > 1 => rows[i - 1].status = "ISSUED"
    /\ Money!NetAmount > 0 =>
         \E i \in DOMAIN rows : ~Unissued(i) /\ Money!NetAmount = rows[i].fee
    /\ \A t \in DOMAIN ledger :
         Unissued(ledger[t].row) =>
            LET fee == rows[ledger[t].row].fee IN
            /\ Money!NetAmount + Money!Signed[t] \in {0, fee}
            /\ ~waived => Money!NetAmount + Money!Signed[t] = fee

LEMMA MoneyConstants ==
    /\ Fees \subseteq Nat \ {0} /\ MaxRevisions \in Nat /\ MaxTransactions \in Nat
BY CompanyAssumption DEF Money!MoneyAssumption

LEMMA FeeIsPositive == \A r \in Money!Revision : r.fee \in Nat /\ r.fee > 0
<1>1. \A f \in Fees : f \in Nat /\ f > 0
  BY MoneyConstants
<1> QED
  BY <1>1 DEF Money!Revision

LEMMA MoneySum ==
    ASSUME NEW T
    PROVE  Money!SumOf(T) = SumFunctionOnSet(Money!Signed, T)
BY DEF Money!SumOf, Money!SumFunctionOnSet, Money!FoldFunctionOnSet,
       Money!MapThenFoldSet, SumFunctionOnSet, FoldFunctionOnSet, MapThenFoldSet

\* What the types give about a revision and a transaction, and about the amounts
\* that were paid in all.
EntriesAre ==
    /\ Len(ledger) \in Nat /\ DOMAIN ledger = 1..Len(ledger)
    /\ Len(rows) \in Nat /\ DOMAIN rows = 1..Len(rows)
    /\ \A i \in DOMAIN rows : rows[i] \in Money!Revision
    /\ \A t \in DOMAIN ledger :
         /\ ledger[t] \in Money!Entry /\ Money!Signed[t] \in Int
         /\ ledger[t].row \in DOMAIN rows
         /\ Money!Signed[t] = IF ledger[t].kind = "PURCHASE" THEN ledger[t].amount
                              ELSE -ledger[t].amount
    /\ IsFiniteSet(DOMAIN ledger)

AmountsAre ==
    /\ IsFiniteSet(PaidFor) /\ PaidFor \subseteq DOMAIN ledger
    /\ Money!NetAmount = SumFunctionOnSet(Money!Signed, PaidFor)
    /\ Money!NetAmount \in Int
    /\ Money!ExistingAmount \in Int
    /\ Money!History = PaidFor => Money!ExistingAmount = Money!NetAmount

LEMMA Entries == MoneyTypes => EntriesAre
<1> SUFFICES ASSUME MoneyTypes
             PROVE  EntriesAre
  OBVIOUS
<1>1. /\ rows \in Seq(Money!Revision) /\ ledger \in Seq(Money!Entry)
      /\ \A t \in DOMAIN ledger : ledger[t].row \in DOMAIN rows
  BY DEF MoneyTypes, Money!TypeOK
<1>2. /\ Len(ledger) \in Nat /\ DOMAIN ledger = 1..Len(ledger)
      /\ Len(rows) \in Nat /\ DOMAIN rows = 1..Len(rows)
  BY <1>1, LenProperties
<1>3. /\ \A i \in DOMAIN rows : rows[i] \in Money!Revision
      /\ \A t \in DOMAIN ledger : ledger[t] \in Money!Entry
  BY <1>1, <1>2, ElementOfSeq
<1>4. \A t \in DOMAIN ledger : ledger[t].amount \in Nat
  BY <1>3 DEF Money!Entry
<1>5. \A t \in DOMAIN ledger :
         Money!Signed[t] = IF ledger[t].kind = "PURCHASE" THEN ledger[t].amount
                           ELSE -ledger[t].amount
  BY DEF Money!Signed
<1>6. \A t \in DOMAIN ledger : Money!Signed[t] \in Int
  BY <1>4, <1>5
<1>7. IsFiniteSet(DOMAIN ledger)
  BY <1>2, FS_Interval
<1> QED
  BY <1>1, <1>2, <1>3, <1>5, <1>6, <1>7 DEF EntriesAre

LEMMA Amounts == MoneyTypes => AmountsAre
<1> SUFFICES ASSUME MoneyTypes
             PROVE  AmountsAre
  OBVIOUS
<1>1. Money!History \subseteq DOMAIN ledger /\ PaidFor \subseteq Money!History
  BY DEF Money!History, PaidFor
<1>2. IsFiniteSet(PaidFor) /\ IsFiniteSet(Money!History)
  BY <1>1, Entries, FS_Subset DEF EntriesAre
<1>3. /\ Money!NetAmount = SumFunctionOnSet(Money!Signed, PaidFor)
      /\ Money!ExistingAmount = SumFunctionOnSet(Money!Signed, Money!History)
  BY MoneySum DEF Money!NetAmount, Money!ExistingAmount, PaidFor
<1>4. /\ SumFunctionOnSet(Money!Signed, PaidFor) \in Int
      /\ SumFunctionOnSet(Money!Signed, Money!History) \in Int
  BY <1>1, <1>2, Entries, SumIsInt DEF EntriesAre
<1> QED
  BY <1>1, <1>2, <1>3, <1>4 DEF AmountsAre

\* What was paid in all stays as it is while no payment is approved for a revision
\* with a number.
LEMMA NetStays ==
    ASSUME MoneyTypes, MoneyTypes',
           \A i \in DOMAIN rows : /\ i \in DOMAIN rows'
                                  /\ Unissued(i)' <=> Unissued(i),
           \A t \in DOMAIN ledger :
              /\ t \in DOMAIN ledger'
              /\ ledger'[t].row = ledger[t].row
              /\ ledger'[t].kind = ledger[t].kind
              /\ ledger'[t].amount = ledger[t].amount
              /\ ledger'[t].approved = ledger[t].approved \/ Unissued(ledger[t].row),
           \A t \in DOMAIN ledger' \ DOMAIN ledger : Unissued(ledger[t].row)'
    PROVE  /\ Money!NetAmount' = Money!NetAmount
           /\ \A t \in DOMAIN ledger : Money!Signed'[t] = Money!Signed[t]
<1>a. EntriesAre /\ AmountsAre /\ AmountsAre'
  BY Entries, Amounts, PTL
<1>1. \A t \in DOMAIN ledger : Money!Signed'[t] = Money!Signed[t]
  BY DEF Money!Signed
<1>2. \A t \in DOMAIN ledger :
         rows'[ledger'[t].row].status \in Money!Numbered
           <=> rows[ledger[t].row].status \in Money!Numbered
  BY <1>a DEF Unissued, EntriesAre
<1>3. PaidFor' = PaidFor
  BY <1>2 DEF PaidFor, Money!History, Unissued
<1>4. SumFunctionOnSet(Money!Signed', PaidFor) = SumFunctionOnSet(Money!Signed, PaidFor)
  BY <1>a, <1>1, SumAgrees DEF AmountsAre
<1> QED
  BY <1>a, <1>1, <1>3, <1>4 DEF AmountsAre

\* ... and grows by what is paid for a revision that gets its number.
LEMMA NetGrows ==
    ASSUME MoneyTypes, MoneyTypes',
           \A t \in PaidFor : Money!Signed'[t] = Money!Signed[t],
           NEW t, t \in DOMAIN ledger', t \notin PaidFor, PaidFor' = PaidFor \cup {t}
    PROVE  Money!NetAmount' = Money!NetAmount + Money!Signed'[t]
<1>a. AmountsAre /\ AmountsAre' /\ EntriesAre'
  BY Entries, Amounts, PTL
<1>1. IsFiniteSet(PaidFor') /\ PaidFor' \subseteq DOMAIN ledger'
  BY <1>a DEF AmountsAre
<1>2. \A s \in PaidFor' : Money!Signed'[s] \in Int
  BY <1>a, <1>1 DEF EntriesAre
<1>3. SumFunctionOnSet(Money!Signed', PaidFor')
        = Money!Signed'[t] + SumFunctionOnSet(Money!Signed', PaidFor' \ {t})
  <2> DEFINE f == Money!Signed'
             S == PaidFor'
  <2>1. IsFiniteSet(S) /\ (\A s \in S : f[s] \in Int) /\ t \in S
    BY <1>1, <1>2
  <2> HIDE DEF f, S
  <2>2. SumFunctionOnSet(f, S) = f[t] + SumFunctionOnSet(f, S \ {t})
    BY <2>1, SumSplit
  <2> QED
    BY <2>2 DEF f, S
<1>4. PaidFor' \ {t} = PaidFor
  OBVIOUS
<1>5. SumFunctionOnSet(Money!Signed', PaidFor) = SumFunctionOnSet(Money!Signed, PaidFor)
  BY <1>a, SumAgrees DEF AmountsAre
<1>6. /\ Money!NetAmount' = SumFunctionOnSet(Money!Signed', PaidFor')
      /\ Money!NetAmount = SumFunctionOnSet(Money!Signed, PaidFor)
      /\ Money!Signed'[t] \in Int /\ Money!NetAmount \in Int
  BY <1>a, <1>2 DEF AmountsAre
<1>7. SumFunctionOnSet(Money!Signed', PaidFor' \ {t}) = Money!NetAmount
  BY <1>4, <1>5, <1>6
<1>8. Money!NetAmount' = Money!Signed'[t] + Money!NetAmount
  BY <1>3, <1>6, <1>7
<1> QED
  BY <1>6, <1>8

\* A new application is the last row, and is nothing that was paid for.
LEMMA RowAdded ==
    ASSUME MoneyInv, Money!Apply
    PROVE  /\ MoneyTypes' /\ Len(rows') = Len(rows) + 1
           /\ \A i \in DOMAIN rows : i \in DOMAIN rows' /\ rows'[i] = rows[i]
           /\ rows'[Len(rows')].status = "OPEN"
           /\ \A i \in DOMAIN rows : ~Unissued(i)
           /\ Money!NetAmount' = Money!NetAmount
           /\ \A t \in DOMAIN ledger : Money!Signed'[t] = Money!Signed[t]
<1>a. EntriesAre /\ MoneyTypes /\ rows \in Seq(Money!Revision)
  BY Entries DEF MoneyInv, MoneyTypes, Money!TypeOK
<1>1. PICK f \in Fees : rows' = Append(rows, [status |-> "OPEN", fee |-> f])
  BY DEF Money!Apply
<1> DEFINE r == [status |-> "OPEN", fee |-> f]
<1>2. r \in Money!Revision
  BY DEF Money!Revision
<1>3. /\ rows' \in Seq(Money!Revision) /\ Len(rows') = Len(rows) + 1
      /\ \A i \in 1..Len(rows) : rows'[i] = rows[i]
      /\ rows'[Len(rows) + 1] = r
  <2> HIDE DEF r
  <2> QED
    BY <1>a, <1>1, <1>2, AppendProperties DEF r
<1>4. DOMAIN rows = 1..Len(rows) /\ DOMAIN rows' = 1..Len(rows') /\ Len(rows) \in Nat
  BY <1>a, <1>3, LenProperties
<1>5. /\ UNCHANGED <<ledger, noFee, waived>> /\ Len(rows) < MaxRevisions
      /\ Len(rows) = 0 \/ rows[Len(rows)].status = "ISSUED"
  BY DEF Money!Apply, Money!Has, Money!Last
<1>6. MoneyTypes'
  BY <1>a, <1>3, <1>4, <1>5, MoneyConstants DEF MoneyTypes, Money!TypeOK, Money!Last
<1>7. \A i \in DOMAIN rows : ~Unissued(i)
  BY <1>4, <1>5 DEF MoneyInv, Unissued, Money!Numbered
<1>8. \A i \in DOMAIN rows : /\ i \in DOMAIN rows'
                             /\ Unissued(i)' <=> Unissued(i)
  BY <1>3, <1>4 DEF Unissued
<1>9. /\ Money!NetAmount' = Money!NetAmount
      /\ \A t \in DOMAIN ledger : Money!Signed'[t] = Money!Signed[t]
  BY <1>a, <1>5, <1>6, <1>8, NetStays
<1> QED
  BY <1>3, <1>4, <1>6, <1>7, <1>9

\* A transaction is recorded for the last row, which is at the form.
Records(i, kind, amount, approved) ==
    /\ i \in DOMAIN rows /\ rows[i].status = "OPEN" /\ Money!Untouched(i)
    /\ kind \in {"PURCHASE", "REFUND"} /\ amount \in Nat
    /\ approved \in {"yes", "no", "open"}
    /\ Money!Record(i, kind, amount, amount, approved)
    /\ UNCHANGED <<noFee, waived>>
    /\ \/ rows' = rows
       \/ \E s \in {"WAITING_PAYMENT", "PAYMENT_COMPLETE"} : Money!SetStatus(i, s)

Recorded(i, kind, amount, approved) ==
    LET n == Len(ledger) + 1 IN
    /\ MoneyTypes' /\ i = Len(rows)
    /\ DOMAIN rows' = DOMAIN rows /\ Len(rows') = Len(rows)
    /\ rows'[i].status \in {"OPEN", "WAITING_PAYMENT", "PAYMENT_COMPLETE"}
    /\ \A j \in DOMAIN rows : /\ rows'[j].fee = rows[j].fee
                              /\ Unissued(j)' <=> Unissued(j)
                              /\ j # i => rows'[j] = rows[j]
    /\ DOMAIN ledger' = DOMAIN ledger \cup {n} /\ n \notin DOMAIN ledger
    /\ \A t \in DOMAIN ledger : /\ ledger'[t] = ledger[t]
                                /\ Money!Signed'[t] = Money!Signed[t]
    /\ ledger'[n].row = i /\ ledger'[n].kind = kind /\ ledger'[n].approved = approved
    /\ Money!Signed'[n] = IF kind = "PURCHASE" THEN amount ELSE -amount
    /\ Money!NetAmount' = Money!NetAmount

LEMMA RecordedIs ==
    ASSUME MoneyInv, NEW i, NEW kind, NEW amount, NEW approved,
           Records(i, kind, amount, approved)
    PROVE  Recorded(i, kind, amount, approved)
<1> DEFINE n == Len(ledger) + 1
           e == [row |-> i, kind |-> kind, amount |-> amount, total |-> amount,
                 approved |-> approved]
<1>a. /\ EntriesAre /\ MoneyTypes
      /\ rows \in Seq(Money!Revision) /\ ledger \in Seq(Money!Entry)
      /\ Len(rows) <= MaxRevisions /\ {noFee, waived} \subseteq BOOLEAN
  BY Entries DEF MoneyInv, MoneyTypes, Money!TypeOK, Money!Last
<1>b. /\ Len(ledger) \in Nat /\ DOMAIN ledger = 1..Len(ledger)
      /\ Len(rows) \in Nat /\ DOMAIN rows = 1..Len(rows)
      /\ i \in 1..Len(rows) /\ rows[i] \in Money!Revision
  BY <1>a DEF EntriesAre, Records
<1>1. i = Len(rows)
  BY DEF Records, MoneyInv, Unissued, Money!Numbered
<1>2. e \in Money!Entry
  BY <1>a, <1>b, <1>1, MoneyConstants DEF Money!Entry, Records
<1>3. ledger' = Append(ledger, e)
  BY DEF Records, Money!Record
<1>4. /\ ledger' \in Seq(Money!Entry) /\ Len(ledger') = n
      /\ \A t \in 1..Len(ledger) : ledger'[t] = ledger[t]
      /\ ledger'[n] = e
  <2> HIDE DEF e
  <2> QED
    BY <1>a, <1>2, <1>3, AppendProperties
<1>5. DOMAIN ledger' = DOMAIN ledger \cup {n} /\ n \notin DOMAIN ledger
  <2>1. DOMAIN ledger' = 1..n
    BY <1>4, LenProperties
  <2> QED
    BY <1>b, <2>1
<1>6. /\ rows' \in Seq(Money!Revision) /\ Len(rows') = Len(rows)
      /\ \A j \in 1..Len(rows) : /\ rows'[j].fee = rows[j].fee
                                 /\ j # i => rows'[j] = rows[j]
      /\ rows'[i].status \in {"OPEN", "WAITING_PAYMENT", "PAYMENT_COMPLETE"}
  <2>1. CASE rows' = rows
    BY <1>a, <2>1 DEF Records
  <2>2. ASSUME NEW s \in {"WAITING_PAYMENT", "PAYMENT_COMPLETE"}, Money!SetStatus(i, s)
        PROVE  <1>6
    <3> DEFINE r == [rows[i] EXCEPT !.status = s]
    <3>1. r \in Money!Revision /\ r.status = s /\ r.fee = rows[i].fee
      BY <1>b DEF Money!Revision
    <3>2. rows' = [rows EXCEPT ![i] = r]
      BY <2>2 DEF Money!SetStatus
    <3> HIDE DEF r
    <3>3. /\ rows' \in Seq(Money!Revision) /\ Len(rows') = Len(rows)
          /\ \A j \in 1..Len(rows) : rows'[j] = IF j = i THEN r ELSE rows[j]
      BY <1>a, <1>b, <3>1, <3>2, ExceptSeq
    <3> QED
      BY <1>b, <3>1, <3>3
  <2> QED
    BY <2>1, <2>2 DEF Records
<1>7. DOMAIN rows' = DOMAIN rows
  BY <1>b, <1>6, LenProperties
<1>8. \A j \in DOMAIN rows : Unissued(j)' <=> Unissued(j)
  <2>1. Unissued(i)' /\ Unissued(i)
    BY <1>6 DEF Unissued, Records, Money!Numbered
  <2> QED
    BY <1>b, <1>6, <2>1 DEF Unissued
<1>9. MoneyTypes'
  <2>1. Money!TypeOK'
    BY <1>a, <1>4, <1>6 DEF Money!TypeOK, Money!Last, Records
  <2>2. \A t \in DOMAIN ledger' : ledger'[t].row \in DOMAIN rows'
    BY <1>a, <1>b, <1>4, <1>5, <1>7 DEF EntriesAre
  <2> QED
    BY <2>1, <2>2 DEF MoneyTypes
<1>10. \A t \in DOMAIN ledger' \ DOMAIN ledger : Unissued(ledger[t].row)'
  <2>1. Unissued(i)'
    BY <1>6 DEF Unissued, Money!Numbered
  <2> QED
    BY <1>4, <1>5, <2>1 DEF Unissued
<1>11. /\ Money!NetAmount' = Money!NetAmount
       /\ \A t \in DOMAIN ledger : Money!Signed'[t] = Money!Signed[t]
  <2>1. \A t \in DOMAIN ledger :
           /\ t \in DOMAIN ledger'
           /\ ledger'[t].row = ledger[t].row /\ ledger'[t].kind = ledger[t].kind
           /\ ledger'[t].amount = ledger[t].amount
           /\ ledger'[t].approved = ledger[t].approved
    BY <1>b, <1>4, <1>5
  <2>2. \A j \in DOMAIN rows : j \in DOMAIN rows' /\ (Unissued(j)' <=> Unissued(j))
    BY <1>7, <1>8
  <2> QED
    BY <1>a, <1>9, <1>10, <2>1, <2>2, NetStays
<1>12. Money!Signed'[n] = IF kind = "PURCHASE" THEN amount ELSE -amount
  BY <1>4, <1>5 DEF Money!Signed
<1>13. \A j \in DOMAIN rows : /\ rows'[j].fee = rows[j].fee
                              /\ j # i => rows'[j] = rows[j]
  BY <1>b, <1>6
<1>14. \A t \in DOMAIN ledger : ledger'[t] = ledger[t]
  BY <1>b, <1>4
<1>15. /\ ledger'[n].row = i /\ ledger'[n].kind = kind
       /\ ledger'[n].approved = approved
  BY <1>4
<1> HIDE DEF n
<1> QED
  BY <1>1, <1>5, <1>6, <1>7, <1>8, <1>9, <1>11, <1>12, <1>13, <1>14, <1>15, Zenon
  DEF Recorded, n

\* No approved payment waits, and a refund gives back what was paid at most.
LEMMA RecordedKeeps ==
    ASSUME MoneyInv, NEW i, NEW kind, NEW amount, NEW approved,
           Records(i, kind, amount, approved),
           approved = "yes" => rows'[i].status # "WAITING_PAYMENT",
           approved # "yes" => kind = "PURCHASE",
           kind = "REFUND" => amount <= Money!NetAmount
    PROVE  MoneyInv'
<1> DEFINE n == Len(ledger) + 1
           signed == Money!Signed'[n]
<1>a. /\ EntriesAre /\ AmountsAre /\ Money!NetAmount \in Nat
      /\ amount \in Nat /\ kind \in {"PURCHASE", "REFUND"} /\ i \in DOMAIN rows
  BY Entries, Amounts DEF MoneyInv, AmountsAre, Records
<1>b. /\ MoneyTypes' /\ i = Len(rows) /\ i \in DOMAIN rows
      /\ DOMAIN rows' = DOMAIN rows /\ Len(rows') = Len(rows)
      /\ \A j \in DOMAIN rows : (Unissued(j)' <=> Unissued(j)) /\ (j # i => rows'[j] = rows[j])
      /\ DOMAIN ledger' = DOMAIN ledger \cup {n} /\ n \notin DOMAIN ledger
      /\ \A t \in DOMAIN ledger : /\ ledger'[t] = ledger[t]
                                  /\ Money!Signed'[t] = Money!Signed[t]
      /\ ledger'[n].row = i /\ ledger'[n].kind = kind /\ ledger'[n].approved = approved
      /\ signed = IF kind = "PURCHASE" THEN amount ELSE -amount
      /\ Money!NetAmount' = Money!NetAmount /\ Money!NetAmount \in Nat
      /\ amount \in Nat /\ kind \in {"PURCHASE", "REFUND"}
  <2>1. Recorded(i, kind, amount, approved)
    BY RecordedIs
  <2> QED
    BY <1>a, <2>1 DEF Recorded
<1>c. \A t \in DOMAIN ledger : ledger[t].row = i => ledger[t].approved # "yes"
  BY DEF Records, Money!Untouched
<1> HIDE DEF n, signed
<1>1. \A j \in DOMAIN rows' : Unissued(j)' => j = Len(rows')
  BY <1>b DEF MoneyInv
<1>2. \A s, t \in DOMAIN ledger' :
         (/\ ledger'[s].row = ledger'[t].row
          /\ ledger'[s].approved = "yes" /\ ledger'[t].approved = "yes") => s = t
  BY <1>b, <1>c DEF MoneyInv
<1>3. \A t \in DOMAIN ledger' : ledger'[t].approved # "yes" => ledger'[t].kind = "PURCHASE"
  BY <1>b DEF MoneyInv
<1>4. ASSUME NEW t \in DOMAIN ledger', ledger'[t].approved = "yes", Unissued(ledger[t].row)'
      PROVE  /\ rows'[ledger'[t].row].status # "WAITING_PAYMENT"
             /\ Money!NetAmount' + Money!Signed'[t] >= 0
  <2>1. CASE t = n
    <3>1. Money!Signed'[t] = signed
      BY <2>1 DEF signed
    <3>2. rows'[ledger'[t].row].status # "WAITING_PAYMENT"
      BY <1>b, <1>4, <2>1
    <3> QED
      BY <1>b, <3>1, <3>2
  <2>2. CASE t \in DOMAIN ledger
    <3>1. Unissued(ledger[t].row)
      BY <1>a, <1>b, <1>4, <2>2 DEF EntriesAre, Unissued
    <3>2. ledger[t].row = i
      BY <1>a, <1>b, <3>1, <2>2 DEF EntriesAre, MoneyInv
    <3> QED
      BY <1>b, <1>c, <1>4, <2>2, <3>2
  <2> QED
    BY <1>b, <2>1, <2>2
<1>5. Money!NetAmount' >= 0
  BY <1>b
<1> QED
  BY <1>b, <1>1, <1>2, <1>3, <1>4, <1>5 DEF MoneyInv, Unissued

\* When every payment is approved, nothing else was recorded for a revision
\* that is at the form, and what the API and the frontend add up is the same.
LEMMA NothingElse ==
    ASSUME MoneyInv, ApprovedInv, NEW i \in DOMAIN rows, rows[i].status = "OPEN",
           Money!Untouched(i)
    PROVE  \A t \in DOMAIN ledger : ledger[t].row # i /\ ledger[t].approved = "yes"
<1>1. i = Len(rows)
  BY DEF MoneyInv, Unissued, Money!Numbered
<1>2. EntriesAre
  BY Entries DEF MoneyInv
<1>3. ASSUME NEW t \in DOMAIN ledger
      PROVE  ledger[t].approved = "yes"
  <2>1. CASE rows[ledger[t].row].status = "WAITING_PAYMENT"
    <3>1. ledger[t].row = i
      BY <1>1, <1>2, <2>1 DEF MoneyInv, Unissued, Money!Numbered, EntriesAre
    <3> QED
      BY <2>1, <3>1
  <2> QED
    BY <2>1 DEF ApprovedInv
<1> QED
  BY <1>3 DEF Money!Untouched

LEMMA ExistingIsNet ==
    ASSUME MoneyInv, ApprovedInv
    PROVE  Money!ExistingAmount = Money!NetAmount
<1>1. AmountsAre
  BY Amounts DEF MoneyInv
<1>2. Money!History = PaidFor
  BY DEF ApprovedInv, PaidFor, Money!History, Money!Numbered
<1> QED
  BY <1>1, <1>2 DEF AmountsAre

\* Before the first revision is issued nothing has been paid that counts; then the
\* revision in force was paid for.
LEMMA PaidSoFar ==
    ASSUME MoneyInv, ApprovedInv, NEW i \in DOMAIN rows, rows[i].status = "OPEN"
    PROVE  /\ i = 1 => Money!NetAmount = 0
           /\ i > 1 /\ ~waived => Money!NetAmount > 0
<1>1. i = Len(rows) /\ Unissued(i)
  BY DEF MoneyInv, Unissued, Money!Numbered
<1>2. EntriesAre /\ AmountsAre
  BY Entries, Amounts DEF MoneyInv
<1>3. ASSUME i = 1
      PROVE  Money!NetAmount = 0
  <2>1. DOMAIN rows = {1}
    BY <1>1, <1>2, <1>3 DEF EntriesAre
  <2>2. PaidFor = {}
    BY <1>1, <1>2, <1>3, <2>1 DEF EntriesAre, PaidFor, Money!History, Unissued
  <2> QED
    BY <1>2, <2>2, SumEmpty DEF AmountsAre
<1>4. ASSUME i > 1, ~waived
      PROVE  Money!NetAmount > 0
  <2>1. i - 1 \in DOMAIN rows
    BY <1>1, <1>2, <1>4 DEF EntriesAre
  <2>2. rows[i - 1].status = "ISSUED"
    BY <1>1, <1>4 DEF ApprovedInv
  <2>3. Money!NetAmount = rows[i - 1].fee
    BY <1>4, <2>1, <2>2 DEF ApprovedInv
  <2>4. rows[i - 1] \in Money!Revision
    BY <1>2, <2>1 DEF EntriesAre
  <2>5. rows[i - 1].fee > 0
    BY <2>4, FeeIsPositive
  <2> QED
    BY <2>3, <2>5
<1> QED
  BY <1>3, <1>4

\* The cost that the API finds, or the refund that the frontend offers, brings what
\* was paid in all to what the policy asks for the revision.
LEMMA CostSettles ==
    ASSUME MoneyInv, ApprovedInv, NEW i \in DOMAIN rows, rows[i].status = "OPEN"
    PROVE  /\ Money!Cost(i) \in Int /\ Money!AmountToRefund(i) \in Int
           /\ Money!NetAmount + Money!Cost(i) \in {0, rows[i].fee}
           /\ ~waived => Money!NetAmount + Money!Cost(i) = rows[i].fee
           /\ i > 1 /\ Money!AmountToRefund(i) > 0 =>
                /\ Money!NetAmount - Money!AmountToRefund(i) \in {0, rows[i].fee}
                /\ ~waived => Money!NetAmount - Money!AmountToRefund(i) = rows[i].fee
<1> DEFINE net == Money!NetAmount
           fee == rows[i].fee
           policyFee == IF noFee THEN 0 ELSE fee
           cost == Money!Cost(i)
           back == Money!AmountToRefund(i)
<1>1. EntriesAre /\ AmountsAre /\ Money!ExistingAmount = net
  BY Entries, Amounts, ExistingIsNet DEF MoneyInv
<1>2. net \in Nat
  BY <1>1 DEF AmountsAre, MoneyInv
<1>3. fee \in Nat /\ i \in Nat /\ i >= 1
  <2>1. fee \in Nat
    BY <1>1, FeeIsPositive DEF EntriesAre
  <2> QED
    BY <1>1, <2>1 DEF EntriesAre
<1>4. cost = IF (noFee /\ i = 1) \/ (i > 1 /\ net = 0) THEN 0
             ELSE IF net > 0 THEN policyFee - net ELSE policyFee + net
  BY <1>1 DEF Money!Cost, Money!PolicyFee
<1>5. back = IF net = 0 THEN 0 ELSE net - policyFee
  BY DEF Money!AmountToRefund, Money!PolicyFee
<1>6. /\ i = 1 => net = 0
      /\ i > 1 /\ ~waived => net > 0
      /\ noFee => waived
  BY PaidSoFar DEF ApprovedInv
<1> HIDE DEF net, fee, cost, back
<1>7. CASE noFee
  BY <1>2, <1>3, <1>4, <1>5, <1>6, <1>7 DEF net, fee, cost, back
<1>8. CASE ~noFee
  BY <1>2, <1>3, <1>4, <1>5, <1>6, <1>8 DEF net, fee, cost, back
<1> QED
  BY <1>7, <1>8

LEMMA RecordedSettles ==
    ASSUME MoneyInv, ApprovedInv, NEW i, NEW kind, NEW amount, NEW approved,
           Records(i, kind, amount, approved),
           approved # "yes" => rows'[i].status = "WAITING_PAYMENT",
           NEW s, s = IF kind = "PURCHASE" THEN amount ELSE -amount,
           Money!NetAmount + s \in {0, rows[i].fee},
           ~waived => Money!NetAmount + s = rows[i].fee
    PROVE  ApprovedInv'
<1> DEFINE n == Len(ledger) + 1
<1>a. EntriesAre /\ i \in DOMAIN rows /\ UNCHANGED <<noFee, waived>>
  BY Entries DEF MoneyInv, Records
<1>b. /\ i = Len(rows) /\ DOMAIN rows' = DOMAIN rows /\ Len(rows') = Len(rows)
      /\ rows'[i].status \in {"OPEN", "WAITING_PAYMENT", "PAYMENT_COMPLETE"}
      /\ \A j \in DOMAIN rows : /\ rows'[j].fee = rows[j].fee
                                /\ Unissued(j)' <=> Unissued(j)
                                /\ j # i => rows'[j] = rows[j]
      /\ DOMAIN ledger' = DOMAIN ledger \cup {n} /\ n \notin DOMAIN ledger
      /\ \A t \in DOMAIN ledger : /\ ledger'[t] = ledger[t]
                                  /\ Money!Signed'[t] = Money!Signed[t]
      /\ ledger'[n].row = i /\ ledger'[n].approved = approved
      /\ Money!Signed'[n] = s
      /\ Money!NetAmount' = Money!NetAmount
  <2>1. Recorded(i, kind, amount, approved)
    BY RecordedIs
  <2> QED
    BY <2>1 DEF Recorded
<1>c. \A t \in DOMAIN ledger : ledger[t].row # i /\ ledger[t].approved = "yes"
  BY NothingElse DEF Records
<1> HIDE DEF n
<1>1. \A t \in DOMAIN ledger' :
         ledger'[t].approved # "yes" => rows'[ledger'[t].row].status = "WAITING_PAYMENT"
  BY <1>b, <1>c
<1>2. \A t, u \in DOMAIN ledger' : ledger'[t].row = ledger'[u].row => t = u
  BY <1>b, <1>c DEF ApprovedInv
<1>3. ASSUME NEW j \in DOMAIN rows', rows'[j].status = "ISSUED"
      PROVE  /\ j = Len(rows') \/ (j = Len(rows') - 1 /\ Unissued(Len(rows))')
             /\ ~waived' => Money!NetAmount' = rows'[j].fee
  <2>1. j \in DOMAIN rows /\ j # i /\ rows[j].status = "ISSUED"
    BY <1>b, <1>3
  <2>2. Unissued(Len(rows))' <=> Unissued(Len(rows))
    BY <1>a, <1>b DEF Unissued
  <2> QED
    BY <1>a, <1>b, <2>1, <2>2 DEF ApprovedInv
<1>4. ASSUME NEW j \in DOMAIN rows', Unissued(j)', j > 1
      PROVE  rows'[j - 1].status = "ISSUED"
  <2>1. /\ j \in DOMAIN rows /\ Unissued(j)
        /\ j - 1 \in DOMAIN rows /\ j - 1 # i
    BY <1>a, <1>b, <1>4 DEF EntriesAre, MoneyInv
  <2> QED
    BY <1>b, <1>4, <2>1 DEF ApprovedInv
<1>5. Money!NetAmount' > 0 =>
         \E j \in DOMAIN rows' : ~Unissued(j)' /\ Money!NetAmount' = rows'[j].fee
  BY <1>b DEF ApprovedInv
<1>6. ASSUME NEW t \in DOMAIN ledger', Unissued(ledger[t].row)'
      PROVE  /\ Money!NetAmount' + Money!Signed'[t] \in {0, rows'[ledger'[t].row].fee}
             /\ ~waived' => Money!NetAmount' + Money!Signed'[t] = rows'[ledger'[t].row].fee
  <2>1. CASE t = n
    BY <1>a, <1>b, <2>1
  <2>2. CASE t \in DOMAIN ledger
    <3>1. Unissued(ledger[t].row)
      BY <1>a, <1>b, <1>6, <2>2 DEF EntriesAre, Unissued
    <3> QED
      BY <1>a, <1>b, <1>c, <3>1, <2>2 DEF EntriesAre, MoneyInv
  <2> QED
    BY <1>b, <2>1, <2>2
<1>7. noFee' => waived'
  BY <1>a DEF ApprovedInv
<1> QED
  BY <1>1, <1>2, <1>3, <1>4, <1>5, <1>6, <1>7 DEF ApprovedInv, Unissued

LEMMA AmountTypes ==
    ASSUME MoneyTypes, NEW i \in DOMAIN rows
    PROVE  /\ Money!Cost(i) \in Int /\ Money!AmountToRefund(i) \in Int
           /\ Money!AmountToRefund(i) > 0 => Money!AmountToRefund(i) <= Money!NetAmount
<1>1. /\ Money!NetAmount \in Int /\ Money!ExistingAmount \in Int
      /\ rows[i] \in Money!Revision
  BY Entries, Amounts DEF EntriesAre, AmountsAre
<1>2. Money!PolicyFee(rows[i]) \in Nat
  BY <1>1, FeeIsPositive DEF Money!PolicyFee
<1>3. \/ Money!Cost(i) = 0 \/ Money!Cost(i) = -Money!ExistingAmount
      \/ Money!Cost(i) = Money!PolicyFee(rows[i]) - Money!ExistingAmount
      \/ Money!Cost(i) = Money!PolicyFee(rows[i]) + Money!ExistingAmount
  BY DEF Money!Cost
<1>4. Money!Cost(i) \in Int
  BY <1>1, <1>2, <1>3
<1>5. \/ Money!AmountToRefund(i) = 0
      \/ Money!AmountToRefund(i) = Money!NetAmount - Money!PolicyFee(rows[i])
  BY DEF Money!AmountToRefund
<1> QED
  BY <1>1, <1>2, <1>4, <1>5

LEMMA PurchaseStep ==
    ASSUME MoneyInv, NEW i \in DOMAIN rows, Money!Purchase(i)
    PROVE  MoneyInv' /\ (ApprovedInv => ApprovedInv')
<1> DEFINE cost == Money!Cost(i)
<1>1. cost \in Nat
  <2>1. cost \in Int
    BY AmountTypes DEF MoneyInv
  <2>2. cost = IF cost < 0 THEN -cost ELSE cost
    BY DEF Money!Purchase, Money!Accepts
  <2> HIDE DEF cost
  <2> QED
    BY <2>1, <2>2
<1>2. rows[i].status = "OPEN"
  BY DEF Money!Purchase, Money!AtTheForm, Money!Has
<1>3. /\ Records(i, "PURCHASE", cost, "yes")
      /\ rows'[i].status # "WAITING_PAYMENT"
  BY <1>1, <1>2, Entries
  DEF Records, Money!Purchase, Money!AtTheForm, Money!SetStatus, MoneyInv, EntriesAre,
      Money!Revision
<1>4. MoneyInv'
  BY <1>3, RecordedKeeps
<1>5. ApprovedInv => ApprovedInv'
  BY <1>2, <1>3, CostSettles, RecordedSettles
<1> QED
  BY <1>4, <1>5

LEMMA StartWebPurchaseStep ==
    ASSUME MoneyInv, NEW i \in DOMAIN rows, Money!StartWebPurchase(i)
    PROVE  MoneyInv' /\ (ApprovedInv => ApprovedInv')
<1> DEFINE cost == Money!Cost(i)
<1>1. cost \in Nat
  <2>1. cost \in Int /\ cost > 0
    BY AmountTypes DEF MoneyInv, Money!StartWebPurchase
  <2> QED
    BY <2>1
<1>2. rows[i].status = "OPEN"
  BY DEF Money!StartWebPurchase, Money!AtTheForm, Money!Has
<1>3. /\ Records(i, "PURCHASE", cost, "open")
      /\ rows'[i].status = "WAITING_PAYMENT"
  BY <1>1, <1>2, Entries
  DEF Records, Money!StartWebPurchase, Money!AtTheForm, Money!SetStatus, MoneyInv,
      EntriesAre, Money!Revision
<1>4. MoneyInv'
  BY <1>3, RecordedKeeps
<1>5. ApprovedInv => ApprovedInv'
  BY <1>2, <1>3, CostSettles, RecordedSettles
<1> QED
  BY <1>4, <1>5

LEMMA RefundStep ==
    ASSUME MoneyInv, NEW i \in DOMAIN rows, Money!Refund(i)
    PROVE  MoneyInv' /\ (ApprovedInv => ApprovedInv')
<1> DEFINE back == Money!AmountToRefund(i)
<1>1. back \in Nat /\ back <= Money!NetAmount
  <2>1. back \in Int /\ back > 0 /\ back <= Money!NetAmount
    BY AmountTypes DEF MoneyInv, Money!Refund
  <2> QED
    BY <2>1
<1>2. rows[i].status = "OPEN" /\ i > 1 /\ back > 0
  BY DEF Money!Refund, Money!AtTheForm, Money!Has
<1>3. /\ Records(i, "REFUND", back, "yes")
      /\ rows'[i].status # "WAITING_PAYMENT"
  BY <1>1, <1>2 DEF Records, Money!Refund, Money!AtTheForm
<1>4. MoneyInv'
  BY <1>1, <1>3, RecordedKeeps
<1>5. ASSUME ApprovedInv
      PROVE  ApprovedInv'
  <2>1. /\ Money!NetAmount - back \in {0, rows[i].fee}
        /\ ~waived => Money!NetAmount - back = rows[i].fee
    BY <1>2, <1>5, CostSettles
  <2>2. Money!NetAmount + (-back) = Money!NetAmount - back
    <3>1. Money!NetAmount \in Int
      BY Amounts DEF MoneyInv, AmountsAre
    <3> QED
      BY <1>1, <3>1
  <2> DEFINE s == -back
  <2>3. s = IF "REFUND" = "PURCHASE" THEN back ELSE -back
    OBVIOUS
  <2> HIDE DEF back, s
  <2> QED
    BY <1>3, <1>5, <2>1, <2>2, <2>3, RecordedSettles DEF back, s
<1> QED
  BY <1>4, <1>5

\* The steps that change no status to or from one with a number, and record
\* nothing new: what was paid in all stays.
Touches(i) ==
    /\ i \in DOMAIN rows /\ Unissued(i)
    /\ \E r \in Money!Revision : /\ r.status \notin Money!Numbered
                                  /\ rows' = [rows EXCEPT ![i] = r]

LEMMA RowChanged ==
    ASSUME MoneyTypes, NEW i, Touches(i)
    PROVE  /\ rows' \in Seq(Money!Revision) /\ Len(rows') = Len(rows)
           /\ DOMAIN rows' = DOMAIN rows
           /\ \A j \in DOMAIN rows : /\ Unissued(j)' <=> Unissued(j)
                                     /\ j # i => rows'[j] = rows[j]
<1>a. EntriesAre /\ rows \in Seq(Money!Revision)
  BY Entries DEF MoneyTypes, Money!TypeOK
<1>1. PICK r \in Money!Revision :
         r.status \notin Money!Numbered /\ rows' = [rows EXCEPT ![i] = r]
  BY DEF Touches
<1>2. i \in 1..Len(rows) /\ DOMAIN rows = 1..Len(rows)
  BY <1>a DEF Touches, EntriesAre
<1>3. /\ rows' \in Seq(Money!Revision) /\ Len(rows') = Len(rows)
      /\ \A j \in 1..Len(rows) : rows'[j] = IF j = i THEN r ELSE rows[j]
  BY <1>a, <1>1, <1>2, ExceptSeq
<1>4. DOMAIN rows' = 1..Len(rows')
  BY <1>3, LenProperties
<1>5. Unissued(i)' /\ Unissued(i)
  BY <1>1, <1>2, <1>3 DEF Touches, Unissued
<1> QED
  BY <1>1, <1>2, <1>3, <1>4, <1>5 DEF Unissued

LEMMA EditStep ==
    ASSUME MoneyInv, NEW i \in DOMAIN rows, Money!Edit(i)
    PROVE  MoneyInv' /\ (ApprovedInv => ApprovedInv')
<1>a. EntriesAre /\ MoneyTypes /\ rows[i] \in Money!Revision
  BY Entries DEF MoneyInv, EntriesAre
<1>b. /\ rows[i].status = "OPEN" /\ Money!Untouched(i) /\ Unissued(i)
      /\ UNCHANGED <<ledger, noFee, waived>>
  BY DEF Money!Edit, Money!AtTheForm, Money!Has, Unissued, Money!Numbered
<1>1. PICK f \in Fees : rows' = [rows EXCEPT ![i].fee = f]
  BY DEF Money!Edit
<1>2. Touches(i)
  <2> DEFINE r == [rows[i] EXCEPT !.fee = f]
  <2>1. r \in Money!Revision /\ r.status = rows[i].status
    BY <1>a DEF Money!Revision
  <2>2. rows' = [rows EXCEPT ![i] = r]
    BY <1>1
  <2> HIDE DEF r
  <2> QED
    BY <1>b, <2>1, <2>2 DEF Touches, Unissued
<1>3. /\ rows' \in Seq(Money!Revision) /\ Len(rows') = Len(rows)
      /\ DOMAIN rows' = DOMAIN rows
      /\ \A j \in DOMAIN rows : /\ Unissued(j)' <=> Unissued(j)
                                /\ j # i => rows'[j] = rows[j]
  BY <1>a, <1>2, RowChanged
<1>4. rows'[i].status = "OPEN"
  BY <1>a, <1>b, <1>1 DEF Money!Revision
<1>5. MoneyTypes'
  BY <1>a, <1>b, <1>3 DEF MoneyTypes, Money!TypeOK, Money!Last
<1>6. /\ Money!NetAmount' = Money!NetAmount
      /\ \A t \in DOMAIN ledger : Money!Signed'[t] = Money!Signed[t]
  BY <1>a, <1>b, <1>3, <1>5, NetStays
<1>7. \A t \in DOMAIN ledger : Unissued(ledger[t].row)' => Unissued(ledger[t].row)
  BY <1>a, <1>b, <1>3 DEF EntriesAre, Unissued
<1>8. \A j \in DOMAIN rows : rows'[j].status = rows[j].status
  BY <1>b, <1>3, <1>4
<1>9. MoneyInv'
  BY <1>a, <1>b, <1>3, <1>5, <1>6, <1>7, <1>8 DEF MoneyInv, EntriesAre, Unissued
<1>10. ASSUME ApprovedInv
       PROVE  ApprovedInv'
  <2>1. \A t \in DOMAIN ledger : ledger[t].row # i /\ ledger[t].approved = "yes"
    BY <1>b, <1>10, NothingElse
  <2>2. \A j \in DOMAIN rows : j # i => rows'[j].fee = rows[j].fee
    BY <1>3
  <2>3. \A j \in DOMAIN rows' :
           rows'[j].status = "ISSUED" =>
              /\ j = Len(rows') \/ (j = Len(rows') - 1 /\ Unissued(Len(rows))')
              /\ ~waived' => Money!NetAmount' = rows'[j].fee
    <3> SUFFICES ASSUME NEW j \in DOMAIN rows, rows'[j].status = "ISSUED"
                 PROVE  /\ j = Len(rows') \/ (j = Len(rows') - 1 /\ Unissued(Len(rows))')
                        /\ ~waived' => Money!NetAmount' = rows'[j].fee
      BY <1>3
    <3>1. rows[j].status = "ISSUED" /\ j # i
      BY <1>4, <1>8
    <3>2. Unissued(Len(rows)) => Unissued(Len(rows))'
      BY <1>a, <1>3, <3>1 DEF EntriesAre, Unissued
    <3> QED
      BY <1>b, <1>3, <1>6, <1>10, <2>2, <3>1, <3>2 DEF ApprovedInv
  <2>4. \A j \in DOMAIN rows' : Unissued(j)' /\ j > 1 => rows'[j - 1].status = "ISSUED"
    <3> SUFFICES ASSUME NEW j \in DOMAIN rows, Unissued(j)', j > 1
                 PROVE  rows'[j - 1].status = "ISSUED"
      BY <1>3
    <3>1. Unissued(j) /\ j - 1 \in DOMAIN rows
      BY <1>a, <1>3 DEF EntriesAre
    <3> QED
      BY <1>8, <1>10, <3>1 DEF ApprovedInv
  <2>5. Money!NetAmount' > 0 =>
           \E j \in DOMAIN rows' : ~Unissued(j)' /\ Money!NetAmount' = rows'[j].fee
    BY <1>b, <1>3, <1>6, <1>10, <2>2 DEF ApprovedInv
  <2>6. \A t \in DOMAIN ledger' : Unissued(ledger[t].row)' =>
           /\ Money!NetAmount' + Money!Signed'[t] \in {0, rows'[ledger'[t].row].fee}
           /\ ~waived' => Money!NetAmount' + Money!Signed'[t] = rows'[ledger'[t].row].fee
    BY <1>a, <1>b, <1>3, <1>6, <1>7, <1>10, <2>1 DEF ApprovedInv, EntriesAre
  <2> QED
    BY <1>b, <1>10, <2>1, <2>3, <2>4, <2>5, <2>6 DEF ApprovedInv, Unissued
<1> QED
  BY <1>9, <1>10

\* The gateway's answer: t is the transaction, of row i, that it answers.
Answers(i, t, answer) ==
    /\ i \in DOMAIN rows /\ rows[i].status = "WAITING_PAYMENT"
    /\ t \in DOMAIN ledger /\ ledger[t].row = i /\ ledger[t].approved = "open"
    /\ answer \in {"yes", "no"}
    /\ ledger' = [ledger EXCEPT ![t].approved = answer]
    /\ UNCHANGED <<noFee, waived>>
    /\ \/ rows' = rows /\ answer = "no"
       \/ Money!SetStatus(i, "PAYMENT_COMPLETE")

Answered(i, t, answer) ==
    /\ MoneyTypes' /\ i = Len(rows) /\ Unissued(i)
    /\ Len(rows') = Len(rows) /\ DOMAIN rows' = DOMAIN rows
    /\ \A j \in DOMAIN rows : /\ Unissued(j)' <=> Unissued(j)
                              /\ rows'[j].fee = rows[j].fee
                              /\ j # i => rows'[j] = rows[j]
    /\ answer = "yes" => rows'[i].status = "PAYMENT_COMPLETE"
    /\ DOMAIN ledger' = DOMAIN ledger
    /\ \A s \in DOMAIN ledger : /\ ledger'[s].row = ledger[s].row
                                /\ ledger'[s].kind = ledger[s].kind
                                /\ s # t => ledger'[s].approved = ledger[s].approved
                                /\ Money!Signed'[s] = Money!Signed[s]
    /\ ledger'[t].approved = answer
    /\ Money!NetAmount' = Money!NetAmount

LEMMA AnsweredIs ==
    ASSUME MoneyInv, NEW i, NEW t, NEW answer, Answers(i, t, answer)
    PROVE  Answered(i, t, answer)
<1>a. /\ EntriesAre /\ MoneyTypes /\ ledger \in Seq(Money!Entry)
      /\ rows \in Seq(Money!Revision)
  BY Entries DEF MoneyInv, MoneyTypes, Money!TypeOK
<1>b. /\ i \in DOMAIN rows /\ t \in DOMAIN ledger /\ t \in 1..Len(ledger)
      /\ ledger[t] \in Money!Entry /\ rows[i] \in Money!Revision
      /\ ledger[t].approved = "open" /\ ledger[t].row = i /\ Unissued(i)
  BY <1>a DEF Answers, EntriesAre, Unissued, Money!Numbered
<1>1. i = Len(rows)
  BY <1>b DEF MoneyInv
<1>2. /\ ledger' \in Seq(Money!Entry) /\ DOMAIN ledger' = DOMAIN ledger
      /\ \A s \in DOMAIN ledger : s # t => ledger'[s] = ledger[s]
      /\ ledger'[t] = [ledger[t] EXCEPT !.approved = answer]
  <2> DEFINE e == [ledger[t] EXCEPT !.approved = answer]
  <2>1. e \in Money!Entry
    BY <1>b DEF Money!Entry, Answers
  <2>2. ledger' = [ledger EXCEPT ![t] = e]
    BY DEF Answers
  <2> HIDE DEF e
  <2>3. /\ ledger' \in Seq(Money!Entry) /\ Len(ledger') = Len(ledger)
        /\ \A s \in 1..Len(ledger) : ledger'[s] = IF s = t THEN e ELSE ledger[s]
    BY <1>a, <1>b, <2>1, <2>2, ExceptSeq
  <2> QED
    BY <1>a, <1>b, <2>3, LenProperties DEF e, EntriesAre
<1>3. \A s \in DOMAIN ledger : /\ ledger'[s].row = ledger[s].row
                               /\ ledger'[s].kind = ledger[s].kind
                               /\ ledger'[s].amount = ledger[s].amount
                               /\ s # t => ledger'[s].approved = ledger[s].approved
  BY <1>b, <1>2 DEF Money!Entry
<1>4. ledger'[t].approved = answer
  BY <1>b, <1>2 DEF Money!Entry
<1>5. /\ rows' \in Seq(Money!Revision) /\ Len(rows') = Len(rows)
      /\ DOMAIN rows' = DOMAIN rows
      /\ \A j \in DOMAIN rows : /\ Unissued(j)' <=> Unissued(j)
                                /\ rows'[j].fee = rows[j].fee
                                /\ j # i => rows'[j] = rows[j]
      /\ answer = "yes" => rows'[i].status = "PAYMENT_COMPLETE"
  <2>1. CASE rows' = rows /\ answer = "no"
    BY <1>a, <2>1 DEF Unissued
  <2>2. CASE Money!SetStatus(i, "PAYMENT_COMPLETE")
    <3> DEFINE r == [rows[i] EXCEPT !.status = "PAYMENT_COMPLETE"]
    <3>1. /\ r \in Money!Revision /\ r.status = "PAYMENT_COMPLETE"
          /\ r.fee = rows[i].fee /\ r.status \notin Money!Numbered
      BY <1>b DEF Money!Revision, Money!Numbered
    <3>2. rows' = [rows EXCEPT ![i] = r]
      BY <2>2 DEF Money!SetStatus
    <3> HIDE DEF r
    <3>3. Touches(i) /\ rows'[i] = r
      BY <1>b, <3>1, <3>2 DEF Touches
    <3> QED
      BY <1>a, <3>1, <3>3, RowChanged
  <2> QED
    BY <2>1, <2>2 DEF Answers
<1>6. MoneyTypes'
  <2>1. \A s \in DOMAIN ledger' : ledger'[s].row \in DOMAIN rows'
    BY <1>a, <1>2, <1>3, <1>5 DEF EntriesAre
  <2> QED
    BY <1>a, <1>2, <1>5, <2>1 DEF MoneyTypes, Money!TypeOK, Money!Last, Answers
<1>7. /\ Money!NetAmount' = Money!NetAmount
      /\ \A s \in DOMAIN ledger : Money!Signed'[s] = Money!Signed[s]
  <2>1. \A s \in DOMAIN ledger :
           ledger'[s].approved = ledger[s].approved \/ Unissued(ledger[s].row)
    BY <1>b, <1>3
  <2> QED
    BY <1>a, <1>2, <1>3, <1>5, <1>6, <2>1, NetStays
<1> QED
  BY <1>b, <1>1, <1>2, <1>3, <1>4, <1>5, <1>6, <1>7 DEF Answered

LEMMA AnswerStep ==
    ASSUME MoneyInv, NEW i, NEW t, NEW answer, Answers(i, t, answer)
    PROVE  MoneyInv' /\ (ApprovedInv /\ answer = "yes" => ApprovedInv')
<1>a. EntriesAre /\ AmountsAre
  BY Entries, Amounts DEF MoneyInv
<1>b. Answered(i, t, answer)
  BY AnsweredIs
<1>c. /\ t \in DOMAIN ledger /\ ledger[t].row = i /\ ledger[t].approved = "open"
      /\ i \in DOMAIN rows /\ rows[i].status = "WAITING_PAYMENT"
      /\ answer \in {"yes", "no"} /\ UNCHANGED <<noFee, waived>>
  BY DEF Answers
<1>d. \A s \in DOMAIN ledger : ledger[s].row = i => ledger[s].approved # "yes"
  BY <1>b, <1>c DEF Answered, MoneyInv
<1>1. \A j \in DOMAIN rows' : Unissued(j)' => j = Len(rows')
  BY <1>b DEF Answered, MoneyInv
<1>2. \A s, u \in DOMAIN ledger' :
         (/\ ledger'[s].row = ledger'[u].row
          /\ ledger'[s].approved = "yes" /\ ledger'[u].approved = "yes") => s = u
  BY <1>b, <1>c, <1>d DEF Answered, MoneyInv
<1>3. \A s \in DOMAIN ledger' : ledger'[s].approved # "yes" => ledger'[s].kind = "PURCHASE"
  BY <1>b, <1>c DEF Answered, MoneyInv
<1>4. ASSUME NEW s \in DOMAIN ledger', ledger'[s].approved = "yes", Unissued(ledger[s].row)'
      PROVE  /\ rows'[ledger'[s].row].status # "WAITING_PAYMENT"
             /\ Money!NetAmount' + Money!Signed'[s] >= 0
  <2>1. s \in DOMAIN ledger /\ Unissued(ledger[s].row) /\ ledger[s].row = i
    BY <1>a, <1>b, <1>4 DEF Answered, EntriesAre, MoneyInv, Unissued
  <2>2. s = t /\ answer = "yes"
    BY <1>b, <1>d, <1>4, <2>1 DEF Answered
  <2>3. ledger[t].kind = "PURCHASE" /\ ledger[t].amount \in Nat
    BY <1>a, <1>c DEF MoneyInv, EntriesAre, Money!Entry
  <2>4. Money!Signed[t] \in Nat
    BY <1>a, <1>c, <2>3 DEF EntriesAre
  <2>5. Money!NetAmount \in Nat
    BY <1>a DEF AmountsAre, MoneyInv
  <2>6. Money!NetAmount' = Money!NetAmount /\ Money!Signed'[s] = Money!Signed[t]
    BY <1>b, <2>1, <2>2 DEF Answered
  <2>7. rows'[ledger'[s].row].status # "WAITING_PAYMENT"
    BY <1>b, <2>1, <2>2 DEF Answered
  <2> QED
    BY <2>4, <2>5, <2>6, <2>7
<1>5. MoneyInv'
  BY <1>b, <1>1, <1>2, <1>3, <1>4 DEF Answered, MoneyInv, Unissued
<1>6. ASSUME ApprovedInv, answer = "yes"
      PROVE  ApprovedInv'
  <2>1. \A s \in DOMAIN ledger' : ledger'[s].approved = "yes"
    BY <1>a, <1>b, <1>c, <1>6
    DEF Answered, ApprovedInv, EntriesAre, MoneyInv, Unissued, Money!Numbered
  <2>2. \A s, u \in DOMAIN ledger' : ledger'[s].row = ledger'[u].row => s = u
    BY <1>b, <1>6 DEF Answered, ApprovedInv
  <2>3. \A j \in DOMAIN rows' :
           rows'[j].status = "ISSUED" =>
              /\ j = Len(rows') \/ (j = Len(rows') - 1 /\ Unissued(Len(rows))')
              /\ ~waived' => Money!NetAmount' = rows'[j].fee
    <3> SUFFICES ASSUME NEW j \in DOMAIN rows, rows'[j].status = "ISSUED"
                 PROVE  /\ j = Len(rows') \/ (j = Len(rows') - 1 /\ Unissued(Len(rows))')
                        /\ ~waived' => Money!NetAmount' = rows'[j].fee
      BY <1>b DEF Answered
    <3>1. rows[j].status = "ISSUED"
      BY <1>b, <1>6 DEF Answered
    <3>2. Unissued(Len(rows))'
      BY <1>b, <1>c DEF Answered, Unissued
    <3> QED
      BY <1>b, <1>c, <1>6, <3>1, <3>2 DEF Answered, ApprovedInv
  <2>4. \A j \in DOMAIN rows' : Unissued(j)' /\ j > 1 => rows'[j - 1].status = "ISSUED"
    <3> SUFFICES ASSUME NEW j \in DOMAIN rows, Unissued(j)', j > 1
                 PROVE  rows'[j - 1].status = "ISSUED"
      BY <1>b DEF Answered
    <3>1. Unissued(j) /\ j - 1 \in DOMAIN rows /\ j - 1 # i
      BY <1>a, <1>b DEF Answered, EntriesAre
    <3> QED
      BY <1>b, <1>6, <3>1 DEF Answered, ApprovedInv
  <2>5. Money!NetAmount' > 0 =>
           \E j \in DOMAIN rows' : ~Unissued(j)' /\ Money!NetAmount' = rows'[j].fee
    BY <1>b, <1>6 DEF Answered, ApprovedInv
  <2>6. \A s \in DOMAIN ledger' : Unissued(ledger[s].row)' =>
           /\ Money!NetAmount' + Money!Signed'[s] \in {0, rows'[ledger'[s].row].fee}
           /\ ~waived' => Money!NetAmount' + Money!Signed'[s] = rows'[ledger'[s].row].fee
    <3>1. \A s \in DOMAIN ledger : Unissued(ledger[s].row)' => Unissued(ledger[s].row)
      BY <1>a, <1>b DEF Answered, EntriesAre, Unissued
    <3>2. \A s \in DOMAIN ledger : rows'[ledger'[s].row].fee = rows[ledger[s].row].fee
      BY <1>a, <1>b DEF Answered, EntriesAre
    <3> QED
      BY <1>b, <1>c, <1>6, <3>1, <3>2 DEF Answered, ApprovedInv
  <2> QED
    BY <1>c, <1>6, <2>1, <2>2, <2>3, <2>4, <2>5, <2>6 DEF ApprovedInv, Unissued
<1> QED
  BY <1>5, <1>6

LEMMA BackToCartStep ==
    ASSUME MoneyInv, NEW i \in DOMAIN rows, Money!BackToCart(i)
    PROVE  MoneyInv'
<1>a. EntriesAre /\ MoneyTypes /\ rows[i] \in Money!Revision
  BY Entries DEF MoneyInv, EntriesAre
<1>b. /\ rows[i].status = "WAITING_PAYMENT" /\ Unissued(i)
      /\ UNCHANGED <<ledger, noFee, waived>>
  BY DEF Money!BackToCart, Money!Has, Unissued, Money!Numbered
<1>1. Touches(i) /\ rows'[i].status = "OPEN"
  <2> DEFINE r == [rows[i] EXCEPT !.status = "OPEN"]
  <2>1. r \in Money!Revision /\ r.status = "OPEN" /\ r.status \notin Money!Numbered
    BY <1>a DEF Money!Revision, Money!Numbered
  <2>2. rows' = [rows EXCEPT ![i] = r]
    BY DEF Money!BackToCart, Money!SetStatus
  <2> HIDE DEF r
  <2> QED
    BY <1>b, <2>1, <2>2 DEF Touches
<1>2. /\ rows' \in Seq(Money!Revision) /\ Len(rows') = Len(rows)
      /\ DOMAIN rows' = DOMAIN rows
      /\ \A j \in DOMAIN rows : /\ Unissued(j)' <=> Unissued(j)
                                /\ j # i => rows'[j] = rows[j]
  BY <1>a, <1>1, RowChanged
<1>3. MoneyTypes'
  BY <1>a, <1>b, <1>2 DEF MoneyTypes, Money!TypeOK, Money!Last
<1>4. /\ Money!NetAmount' = Money!NetAmount
      /\ \A t \in DOMAIN ledger : Money!Signed'[t] = Money!Signed[t]
  BY <1>a, <1>b, <1>2, <1>3, NetStays
<1>5. \A t \in DOMAIN ledger : Unissued(ledger[t].row)' => Unissued(ledger[t].row)
  BY <1>a, <1>b, <1>2 DEF EntriesAre, Unissued
<1>6. \A j \in DOMAIN rows : rows'[j].status = "WAITING_PAYMENT" =>
                             rows[j].status = "WAITING_PAYMENT"
  BY <1>1, <1>2
<1> QED
  BY <1>a, <1>b, <1>2, <1>3, <1>4, <1>5, <1>6 DEF MoneyInv, EntriesAre, Unissued

LEMMA ChangeNoFeeStep ==
    ASSUME MoneyInv, Money!ChangeNoFee
    PROVE  MoneyInv' /\ (ApprovedInv => ApprovedInv')
<1>a. EntriesAre /\ MoneyTypes
  BY Entries DEF MoneyInv
<1>b. UNCHANGED <<rows, ledger>> /\ waived' = TRUE /\ noFee' = ~noFee
  BY DEF Money!ChangeNoFee
<1>1. MoneyTypes'
  BY <1>a, <1>b DEF MoneyTypes, Money!TypeOK, Money!Last
<1>2. \A i : Unissued(i)' <=> Unissued(i)
  BY <1>b DEF Unissued
<1>3. /\ Money!NetAmount' = Money!NetAmount
      /\ \A t \in DOMAIN ledger : Money!Signed'[t] = Money!Signed[t]
  BY <1>a, <1>b, <1>1, <1>2, NetStays
<1>4. MoneyInv'
  BY <1>b, <1>1, <1>3 DEF MoneyInv, Unissued
<1>5. ApprovedInv => ApprovedInv'
  BY <1>b, <1>3 DEF ApprovedInv, Unissued
<1> QED
  BY <1>4, <1>5

LEMMA ApplyStep ==
    ASSUME MoneyInv, Money!Apply
    PROVE  MoneyInv' /\ (ApprovedInv => ApprovedInv')
<1>a. EntriesAre /\ EntriesAre' /\ UNCHANGED <<ledger, noFee, waived>>
  <2>1. MoneyTypes /\ MoneyTypes'
    BY RowAdded DEF MoneyInv
  <2>2. EntriesAre /\ EntriesAre'
    BY <2>1, Entries, PTL
  <2> QED
    BY <2>2 DEF Money!Apply
<1>b. /\ MoneyTypes' /\ Len(rows') = Len(rows) + 1
      /\ \A i \in DOMAIN rows : i \in DOMAIN rows' /\ rows'[i] = rows[i]
      /\ rows'[Len(rows')].status = "OPEN"
      /\ \A i \in DOMAIN rows : ~Unissued(i)
      /\ Money!NetAmount' = Money!NetAmount
      /\ \A t \in DOMAIN ledger : Money!Signed'[t] = Money!Signed[t]
  BY RowAdded
<1>1. \A i \in DOMAIN rows' : i \in DOMAIN rows \/ i = Len(rows')
  BY <1>a, <1>b DEF EntriesAre
<1>2. \A i \in DOMAIN rows : ~Unissued(i)'
  BY <1>b DEF Unissued
<1>3. \A t \in DOMAIN ledger : ledger[t].row \in DOMAIN rows /\ ~Unissued(ledger[t].row)'
  BY <1>a, <1>b, <1>2 DEF EntriesAre, Unissued
<1>4. MoneyInv'
  BY <1>a, <1>b, <1>1, <1>2, <1>3 DEF MoneyInv, Unissued
<1>5. ASSUME ApprovedInv
      PROVE  ApprovedInv'
  <2>1. \A t \in DOMAIN ledger' :
           ledger'[t].approved # "yes" => rows'[ledger'[t].row].status = "WAITING_PAYMENT"
    BY <1>a, <1>b, <1>3, <1>5 DEF ApprovedInv
  <2>2. Unissued(Len(rows))' /\ Len(rows') \notin DOMAIN rows /\ Len(rows) \in Nat
        /\ Len(rows') \in DOMAIN rows'
    BY <1>a, <1>b DEF EntriesAre, Unissued, Money!Numbered
  <2>3. \A i \in DOMAIN rows' :
           rows'[i].status = "ISSUED" =>
              /\ i = Len(rows') \/ (i = Len(rows') - 1 /\ Unissued(Len(rows))')
              /\ ~waived' => Money!NetAmount' = rows'[i].fee
    <3> SUFFICES ASSUME NEW i \in DOMAIN rows', rows'[i].status = "ISSUED"
                 PROVE  /\ i = Len(rows') \/ (i = Len(rows') - 1 /\ Unissued(Len(rows))')
                        /\ ~waived' => Money!NetAmount' = rows'[i].fee
      OBVIOUS
    <3>1. i \in DOMAIN rows /\ rows[i].status = "ISSUED" /\ rows'[i].fee = rows[i].fee
      BY <1>b, <1>1
    <3>2. i = Len(rows)
      <4>1. Len(rows) \in DOMAIN rows
        BY <1>a, <3>1 DEF EntriesAre
      <4> QED
        BY <1>b, <1>5, <3>1, <4>1 DEF ApprovedInv
    <3> QED
      BY <1>a, <1>b, <1>5, <2>2, <3>1, <3>2 DEF ApprovedInv
  <2>4. \A i \in DOMAIN rows' : Unissued(i)' /\ i > 1 => rows'[i - 1].status = "ISSUED"
    <3> SUFFICES ASSUME NEW i \in DOMAIN rows', Unissued(i)', i > 1
                 PROVE  rows'[i - 1].status = "ISSUED"
      OBVIOUS
    <3>1. i = Len(rows) + 1 /\ Len(rows) \in DOMAIN rows
      BY <1>a, <1>b, <1>1, <1>2, <2>2 DEF EntriesAre
    <3>2. rows[Len(rows)].status = "ISSUED"
      BY <1>a, <3>1 DEF Money!Apply, Money!Has, Money!Last, EntriesAre
    <3> QED
      BY <1>b, <2>2, <3>1, <3>2
  <2>5. Money!NetAmount' > 0 =>
           \E i \in DOMAIN rows' : ~Unissued(i)' /\ Money!NetAmount' = rows'[i].fee
    BY <1>b, <1>2, <1>5 DEF ApprovedInv
  <2> QED
    BY <1>a, <1>3, <1>5, <2>1, <2>3, <2>4, <2>5 DEF ApprovedInv, Unissued
<1> QED
  BY <1>4, <1>5

LEMMA IssueStep ==
    ASSUME MoneyInv, NEW i \in DOMAIN rows, Money!Issue(i)
    PROVE  MoneyInv' /\ (ApprovedInv => ApprovedInv')
<1>a. EntriesAre /\ AmountsAre /\ MoneyTypes
  BY Entries, Amounts DEF MoneyInv
<1>b. UNCHANGED <<ledger, noFee, waived>>
  BY DEF Money!Issue
<1>c. Unissued(i) /\ i = Len(rows) /\ rows[i].status # "ISSUED"
  BY DEF Money!Issue, Money!Has, Unissued, Money!Numbered, MoneyInv
<1>1. PICK t \in DOMAIN ledger : ledger[t].row = i /\ ledger[t].approved = "yes"
  BY DEF Money!Issue, Money!Untouched
<1>2. /\ rows' \in Seq(Money!Revision) /\ Len(rows') = Len(rows)
      /\ DOMAIN rows' = DOMAIN rows
      /\ rows'[i].status = "ISSUED" /\ rows'[i].fee = rows[i].fee
      /\ \A j \in DOMAIN rows : /\ rows'[j].fee = rows[j].fee
                                /\ ~Unissued(j)'
                                /\ j # i => rows'[j].status # "ISSUED" \/ j # i - 1
                                /\ j # i /\ j # i - 1 => rows'[j] = rows[j]
  <2> DEFINE new(j) == IF j = i THEN [rows[j] EXCEPT !.status = "ISSUED"]
                       ELSE IF j = i - 1 THEN [rows[j] EXCEPT !.status = "SUPERSEDED"]
                       ELSE rows[j]
  <2>1. rows' = [j \in DOMAIN rows |-> new(j)]
    BY DEF Money!Issue
  <2>2. ASSUME NEW j \in DOMAIN rows
        PROVE  /\ new(j) \in Money!Revision /\ new(j).fee = rows[j].fee
               /\ new(j).status \in Money!Numbered
               /\ j = i => new(j).status = "ISSUED"
               /\ j # i => new(j).status # "ISSUED" \/ j # i - 1
               /\ j # i /\ j # i - 1 => new(j) = rows[j]
    <3>1. rows[j] \in Money!Revision
      BY <1>a DEF EntriesAre
    <3>2. j # i => rows[j].status \in Money!Numbered
      BY <1>c DEF MoneyInv, Unissued
    <3> QED
      BY <3>1, <3>2 DEF Money!Revision, Money!Numbered
  <2> HIDE DEF new
  <2>3. rows' \in [1..Len(rows) -> Money!Revision] /\ Len(rows) \in Nat
    BY <1>a, <2>1, <2>2 DEF EntriesAre
  <2>4. rows' \in Seq(Money!Revision)
    BY <2>3, SeqDef
  <2>5. DOMAIN rows' = 1..Len(rows) /\ Len(rows') \in Nat /\ DOMAIN rows' = 1..Len(rows')
    BY <2>3, <2>4, LenProperties
  <2>6. Len(rows') = Len(rows)
    BY <2>3, <2>5
  <2>7. \A j \in DOMAIN rows : rows'[j] = new(j)
    BY <2>1
  <2> QED
    BY <1>a, <2>2, <2>4, <2>5, <2>6, <2>7 DEF Unissued, EntriesAre
<1>3. MoneyTypes'
  BY <1>a, <1>b, <1>2 DEF MoneyTypes, Money!TypeOK, Money!Last
<1>4. \A s \in DOMAIN ledger :
         ~Unissued(ledger[s].row)' /\ (s # t => ledger[s].approved # "yes" \/ ledger[s].row # i)
  BY <1>a, <1>b, <1>1, <1>2 DEF EntriesAre, MoneyInv, Unissued
<1>5. t \notin PaidFor /\ PaidFor' = PaidFor \cup {t}
  <2>1. t \notin PaidFor
    BY <1>1, <1>c DEF PaidFor, Money!History, Unissued
  <2>2. \A s \in DOMAIN ledger : s \in PaidFor' <=> ledger[s].approved = "yes"
    BY <1>b, <1>4 DEF PaidFor, Money!History, Unissued
  <2>3. \A s \in DOMAIN ledger : s \in PaidFor <=> /\ ledger[s].approved = "yes"
                                                   /\ ledger[s].row # i
    BY <1>a, <1>c DEF PaidFor, Money!History, Unissued, EntriesAre, MoneyInv
  <2>4. PaidFor' \subseteq DOMAIN ledger /\ PaidFor \subseteq DOMAIN ledger
    BY <1>b DEF PaidFor, Money!History
  <2> QED
    BY <1>1, <1>4, <2>1, <2>2, <2>3, <2>4
<1>6. Money!Signed' = Money!Signed
  BY <1>b DEF Money!Signed
<1>7. Money!NetAmount' = Money!NetAmount + Money!Signed[t]
  <2>1. Money!NetAmount' = Money!NetAmount + Money!Signed'[t]
    BY <1>a, <1>b, <1>1, <1>3, <1>5, <1>6, NetGrows
  <2> QED
    BY <1>6, <2>1
<1>8. MoneyInv'
  <2>1. Money!NetAmount' >= 0
    BY <1>1, <1>7, <1>c DEF MoneyInv
  <2> QED
    BY <1>b, <1>2, <1>3, <1>4, <2>1 DEF MoneyInv, Unissued
<1>9. ASSUME ApprovedInv
      PROVE  ApprovedInv'
  <2>1. /\ Money!NetAmount' \in {0, rows[i].fee}
        /\ ~waived => Money!NetAmount' = rows[i].fee
    BY <1>1, <1>7, <1>9, <1>c DEF ApprovedInv
  <2>2. \A s \in DOMAIN ledger : ledger[s].approved = "yes"
    <3> SUFFICES ASSUME NEW s \in DOMAIN ledger, ledger[s].approved # "yes"
                 PROVE  FALSE
      OBVIOUS
    <3>1. rows[ledger[s].row].status = "WAITING_PAYMENT"
      BY <1>9 DEF ApprovedInv
    <3>2. ledger[s].row = i
      BY <1>a, <1>c, <3>1 DEF EntriesAre, MoneyInv, Unissued, Money!Numbered
    <3> QED
      BY <1>1, <1>9, <3>2 DEF ApprovedInv
  <2>3. \A j \in DOMAIN rows' : rows'[j].status = "ISSUED" => j = i
    <3> SUFFICES ASSUME NEW j \in DOMAIN rows, rows'[j].status = "ISSUED", j # i
                 PROVE  FALSE
      BY <1>2
    <3>1. rows[j].status = "ISSUED" /\ j # i - 1
      BY <1>2
    <3> QED
      BY <1>9, <1>c, <3>1 DEF ApprovedInv
  <2>4. /\ \A s \in DOMAIN ledger' : ledger'[s].approved = "yes"
        /\ \A s, u \in DOMAIN ledger' : ledger'[s].row = ledger'[u].row => s = u
        /\ noFee' => waived'
    BY <1>b, <1>9, <2>2 DEF ApprovedInv
  <2>5. \A j \in DOMAIN rows' :
           rows'[j].status = "ISSUED" =>
              j = Len(rows') /\ (~waived' => Money!NetAmount' = rows'[j].fee)
    BY <1>b, <1>c, <1>2, <2>1, <2>3
  <2>6. Money!NetAmount' > 0 =>
           \E j \in DOMAIN rows' : ~Unissued(j)' /\ Money!NetAmount' = rows'[j].fee
    BY <1>2, <2>1
  <2> QED
    BY <1>b, <1>2, <1>4, <2>4, <2>5, <2>6 DEF ApprovedInv, Unissued
<1> QED
  BY <1>8, <1>9

\* The last revision is superseded by one that ends the permit, with its own
\* transaction.
Closed(status, kind, amount) ==
    LET m == Len(rows) + 1
        n == Len(ledger) + 1 IN
    /\ MoneyTypes' /\ UNCHANGED <<noFee, waived>>
    /\ Len(rows') = m /\ DOMAIN rows' = DOMAIN rows \cup {m} /\ m \notin DOMAIN rows
    /\ rows'[m].status = status
    /\ \A j \in DOMAIN rows : /\ ~Unissued(j) /\ rows'[j].fee = rows[j].fee
                              /\ j = Len(rows) => rows'[j].status = "SUPERSEDED"
                              /\ j # Len(rows) => rows'[j] = rows[j]
    /\ \A j \in DOMAIN rows' : ~Unissued(j)'
    /\ DOMAIN ledger' = DOMAIN ledger \cup {n} /\ n \notin DOMAIN ledger
    /\ \A t \in DOMAIN ledger : ledger'[t] = ledger[t]
    /\ ledger'[n].row = m /\ ledger'[n].approved = "yes"
    /\ Money!NetAmount' = Money!NetAmount + (IF kind = "PURCHASE" THEN amount ELSE -amount)

LEMMA ClosedIs ==
    ASSUME MoneyInv, NEW status \in {"VOIDED", "REVOKED"},
           NEW kind \in {"PURCHASE", "REFUND"}, NEW amount \in Nat, NEW total \in Int,
           Money!Close(status, kind, amount, total)
    PROVE  Closed(status, kind, amount)
<1> DEFINE m == Len(rows) + 1
           n == Len(ledger) + 1
           r == [status |-> status, fee |-> rows[Len(rows)].fee]
           e == [row |-> m, kind |-> kind, amount |-> amount, total |-> total,
                 approved |-> "yes"]
           old == [rows EXCEPT ![Len(rows)].status = "SUPERSEDED"]
<1>a. /\ EntriesAre /\ AmountsAre /\ MoneyTypes
      /\ rows \in Seq(Money!Revision) /\ ledger \in Seq(Money!Entry)
      /\ {noFee, waived} \subseteq BOOLEAN
  BY Entries, Amounts DEF MoneyInv, MoneyTypes, Money!TypeOK
<1>b. /\ Len(rows) \in DOMAIN rows /\ rows[Len(rows)].status = "ISSUED"
      /\ Len(rows) < MaxRevisions /\ rows' = Append(old, r)
      /\ ledger' = Append(ledger, e) /\ UNCHANGED <<noFee, waived>>
  BY DEF Money!Close, Money!Has, Money!Last, Money!Record
<1>c. /\ Len(ledger) \in Nat /\ DOMAIN ledger = 1..Len(ledger)
      /\ Len(rows) \in Nat /\ DOMAIN rows = 1..Len(rows)
      /\ rows[Len(rows)] \in Money!Revision
  BY <1>a, <1>b DEF EntriesAre
<1>1. r \in Money!Revision /\ e \in Money!Entry
  BY <1>b, <1>c, MoneyConstants DEF Money!Revision, Money!Entry, Money!Numbered
<1>2. /\ old \in Seq(Money!Revision) /\ Len(old) = Len(rows)
      /\ \A j \in 1..Len(rows) : /\ j # Len(rows) => old[j] = rows[j]
                                 /\ j = Len(rows) => old[j].status = "SUPERSEDED"
                                 /\ old[j].fee = rows[j].fee
  <2> DEFINE q == [rows[Len(rows)] EXCEPT !.status = "SUPERSEDED"]
  <2>1. /\ q \in Money!Revision /\ q.status = "SUPERSEDED"
        /\ q.fee = rows[Len(rows)].fee
    BY <1>c DEF Money!Revision, Money!Numbered
  <2>2. old = [rows EXCEPT ![Len(rows)] = q]
    OBVIOUS
  <2> HIDE DEF q, old
  <2>3. /\ old \in Seq(Money!Revision) /\ Len(old) = Len(rows)
        /\ \A j \in 1..Len(rows) : old[j] = IF j = Len(rows) THEN q ELSE rows[j]
    BY <1>a, <1>b, <1>c, <2>1, <2>2, ExceptSeq
  <2> QED
    BY <2>1, <2>3
<1> HIDE DEF r, e, old
<1>3. /\ rows' \in Seq(Money!Revision) /\ Len(rows') = m
      /\ \A j \in 1..Len(rows) : rows'[j] = old[j]
      /\ rows'[m] = r
  BY <1>b, <1>1, <1>2, AppendProperties
<1>4. /\ ledger' \in Seq(Money!Entry) /\ Len(ledger') = n
      /\ \A t \in 1..Len(ledger) : ledger'[t] = ledger[t]
      /\ ledger'[n] = e
  BY <1>a, <1>b, <1>1, AppendProperties
<1>5. /\ DOMAIN rows' = DOMAIN rows \cup {m} /\ m \notin DOMAIN rows
      /\ DOMAIN ledger' = DOMAIN ledger \cup {n} /\ n \notin DOMAIN ledger
  <2>1. DOMAIN rows' = 1..m /\ DOMAIN ledger' = 1..n
    BY <1>3, <1>4, LenProperties
  <2> QED
    BY <1>c, <2>1
<1>6. \A j \in DOMAIN rows : ~Unissued(j)
  BY <1>b, <1>c DEF MoneyInv, Unissued, Money!Numbered
<1>7. /\ rows'[m].status = status
      /\ ledger'[n].row = m /\ ledger'[n].approved = "yes"
      /\ ledger'[n].kind = kind /\ ledger'[n].amount = amount
  BY <1>3, <1>4 DEF r, e
<1>8. \A j \in DOMAIN rows : /\ rows'[j].fee = rows[j].fee
                             /\ j = Len(rows) => rows'[j].status = "SUPERSEDED"
                             /\ j # Len(rows) => rows'[j] = rows[j]
  <2> SUFFICES ASSUME NEW j \in DOMAIN rows
               PROVE  /\ rows'[j].fee = rows[j].fee
                      /\ j = Len(rows) => rows'[j].status = "SUPERSEDED"
                      /\ j # Len(rows) => rows'[j] = rows[j]
    OBVIOUS
  <2>1. j \in 1..Len(rows)
    BY <1>c
  <2>2. rows'[j] = old[j]
    BY <1>3, <2>1
  <2> QED
    BY <1>2, <2>1, <2>2
<1>9. \A j \in DOMAIN rows' : ~Unissued(j)'
  BY <1>5, <1>6, <1>7, <1>8 DEF Unissued, Money!Numbered
<1>10. MoneyTypes'
  <2>1. \A t \in DOMAIN ledger' : ledger'[t].row \in DOMAIN rows'
    BY <1>a, <1>c, <1>4, <1>5, <1>7 DEF EntriesAre
  <2>2. m <= MaxRevisions
    BY <1>b, <1>c, MoneyConstants
  <2> QED
    BY <1>a, <1>b, <1>3, <1>4, <2>1, <2>2 DEF MoneyTypes, Money!TypeOK, Money!Last
<1>11. n \notin PaidFor /\ PaidFor' = PaidFor \cup {n}
  <2>1. n \notin PaidFor /\ n \in DOMAIN ledger'
    BY <1>5 DEF PaidFor, Money!History
  <2>2. \A t \in DOMAIN ledger' : t \in PaidFor' <=> ledger'[t].approved = "yes"
    <3>1. EntriesAre'
      BY <1>10, Entries, PTL
    <3> QED
      BY <1>9, <3>1 DEF PaidFor, Money!History, Unissued, EntriesAre
  <2>3. \A t \in DOMAIN ledger : t \in PaidFor <=> ledger[t].approved = "yes"
    BY <1>a, <1>6 DEF PaidFor, Money!History, Unissued, EntriesAre
  <2>4. PaidFor' \subseteq DOMAIN ledger' /\ PaidFor \subseteq DOMAIN ledger
    BY DEF PaidFor, Money!History
  <2>5. \A t \in DOMAIN ledger : ledger'[t] = ledger[t]
    BY <1>c, <1>4
  <2> HIDE DEF n
  <2> QED
    BY <1>5, <1>7, <2>1, <2>2, <2>3, <2>4, <2>5
<1>12. /\ \A t \in DOMAIN ledger : Money!Signed'[t] = Money!Signed[t]
       /\ Money!Signed'[n] = IF kind = "PURCHASE" THEN amount ELSE -amount
  <2>1. \A t \in DOMAIN ledger : ledger'[t] = ledger[t] /\ t \in DOMAIN ledger'
    BY <1>c, <1>4, <1>5
  <2> HIDE DEF n
  <2> QED
    BY <1>5, <1>7, <2>1 DEF Money!Signed
<1>13. Money!NetAmount' = Money!NetAmount + (IF kind = "PURCHASE" THEN amount ELSE -amount)
  <2>1. \A t \in PaidFor : Money!Signed'[t] = Money!Signed[t]
    BY <1>a, <1>12 DEF AmountsAre
  <2>2. n \in DOMAIN ledger'
    BY <1>5
  <2> HIDE DEF n
  <2>3. Money!NetAmount' = Money!NetAmount + Money!Signed'[n]
    BY <1>a, <1>10, <1>11, <2>1, <2>2, NetGrows
  <2> QED
    BY <1>12, <2>3
<1>14. \A t \in DOMAIN ledger : ledger'[t] = ledger[t]
  BY <1>c, <1>4
<1> HIDE DEF m, n
<1>15. Len(rows') = m
  BY <1>3
<1> QED
  BY <1>b, <1>5, <1>6, <1>7, <1>8, <1>9, <1>10, <1>13, <1>14, <1>15, Zenon
  DEF Closed, m, n

LEMMA ClosedKeeps ==
    ASSUME MoneyInv, NEW status \in {"VOIDED", "REVOKED"},
           NEW kind \in {"PURCHASE", "REFUND"}, NEW amount \in Nat,
           Closed(status, kind, amount),
           amount = 0 \/ (kind = "REFUND" /\ amount = Money!NetAmount)
    PROVE  /\ MoneyInv' /\ (ApprovedInv => ApprovedInv')
           /\ Money!NetAmount' \in {Money!NetAmount, 0}
           /\ amount = 0 => Money!NetAmount' = Money!NetAmount
           /\ rows'[Len(rows) + 1].status = status
<1> DEFINE m == Len(rows) + 1
           n == Len(ledger) + 1
<1>a. EntriesAre /\ AmountsAre
  BY Entries, Amounts DEF MoneyInv
<1>b. /\ MoneyTypes' /\ UNCHANGED <<noFee, waived>>
      /\ Len(rows') = m /\ DOMAIN rows' = DOMAIN rows \cup {m} /\ m \notin DOMAIN rows
      /\ rows'[m].status = status
      /\ \A j \in DOMAIN rows : /\ ~Unissued(j) /\ rows'[j].fee = rows[j].fee
                                /\ j = Len(rows) => rows'[j].status = "SUPERSEDED"
                                /\ j # Len(rows) => rows'[j] = rows[j]
      /\ \A j \in DOMAIN rows' : ~Unissued(j)'
      /\ DOMAIN ledger' = DOMAIN ledger \cup {n} /\ n \notin DOMAIN ledger
      /\ \A t \in DOMAIN ledger : ledger'[t] = ledger[t]
      /\ ledger'[n].row = m /\ ledger'[n].approved = "yes"
      /\ Money!NetAmount'
           = Money!NetAmount + (IF kind = "PURCHASE" THEN amount ELSE -amount)
  BY DEF Closed
<1> HIDE DEF m, n
<1>1. /\ Money!NetAmount \in Nat
      /\ Money!NetAmount' = Money!NetAmount \/ Money!NetAmount' = 0
      /\ amount = 0 => Money!NetAmount' = Money!NetAmount
  <2>1. Money!NetAmount \in Nat
    BY <1>a DEF AmountsAre, MoneyInv
  <2> QED
    BY <1>b, <2>1
<1>2. \A t \in DOMAIN ledger' : ~Unissued(ledger[t].row)'
  <2>1. EntriesAre'
    BY <1>b, Entries, PTL
  <2> QED
    BY <1>b, <2>1 DEF EntriesAre, Unissued
<1>3. \A t \in DOMAIN ledger : ledger[t].row # m /\ ledger'[t] = ledger[t]
  BY <1>a, <1>b DEF EntriesAre
<1>4. MoneyInv'
  <2>1. \A s, t \in DOMAIN ledger' :
           (/\ ledger'[s].row = ledger'[t].row
            /\ ledger'[s].approved = "yes" /\ ledger'[t].approved = "yes") => s = t
    BY <1>b, <1>3 DEF MoneyInv
  <2>2. \A t \in DOMAIN ledger' : ledger'[t].approved # "yes" => ledger'[t].kind = "PURCHASE"
    BY <1>b DEF MoneyInv
  <2> QED
    BY <1>b, <1>1, <1>2, <2>1, <2>2 DEF MoneyInv, Unissued
<1>5. ASSUME ApprovedInv
      PROVE  ApprovedInv'
  <2>1. \A t \in DOMAIN ledger' : ledger'[t].approved = "yes"
    <3>1. \A t \in DOMAIN ledger : rows[ledger[t].row].status # "WAITING_PAYMENT"
      BY <1>a, <1>b DEF EntriesAre, Unissued, Money!Numbered
    <3> QED
      BY <1>b, <1>5, <3>1 DEF ApprovedInv
  <2>2. \A s, t \in DOMAIN ledger' : ledger'[s].row = ledger'[t].row => s = t
    BY <1>b, <1>3, <1>5 DEF ApprovedInv
  <2>3. \A j \in DOMAIN rows' : rows'[j].status # "ISSUED"
    <3> SUFFICES ASSUME NEW j \in DOMAIN rows'
                 PROVE  rows'[j].status # "ISSUED"
      OBVIOUS
    <3>1. CASE j = m
      BY <1>b, <3>1
    <3>2. CASE j \in DOMAIN rows
      <4>1. Len(rows) \in DOMAIN rows
        BY <1>a, <3>2 DEF EntriesAre
      <4> QED
        BY <1>b, <1>5, <3>2, <4>1 DEF ApprovedInv
    <3> QED
      BY <1>b, <3>1, <3>2
  <2>4. Money!NetAmount' > 0 =>
           \E j \in DOMAIN rows' : ~Unissued(j)' /\ Money!NetAmount' = rows'[j].fee
    BY <1>b, <1>1, <1>5 DEF ApprovedInv
  <2> QED
    BY <1>b, <1>2, <1>5, <2>1, <2>2, <2>3, <2>4 DEF ApprovedInv, Unissued
<1>6. rows'[Len(rows) + 1].status = status
  BY <1>b DEF m
<1> QED
  BY <1>1, <1>4, <1>5, <1>6

LEMMA CloseStep ==
    ASSUME MoneyInv, Money!Revoke \/ \E expired \in BOOLEAN : Money!Void(expired)
    PROVE  /\ MoneyInv' /\ (ApprovedInv => ApprovedInv')
           /\ Money!NetAmount' \in {Money!NetAmount, 0}
           /\ rows'[Len(rows) + 1].status = "REVOKED" => Money!NetAmount' = Money!NetAmount
<1>a. Money!NetAmount \in Nat /\ Money!ExistingAmount \in Int
  BY Amounts DEF MoneyInv, AmountsAre
<1>1. CASE Money!Revoke
  BY <1>1, ClosedIs, ClosedKeeps DEF Money!Revoke
<1>2. ASSUME NEW expired \in BOOLEAN, Money!Void(expired)
      PROVE  /\ MoneyInv' /\ (ApprovedInv => ApprovedInv')
             /\ Money!NetAmount' \in {Money!NetAmount, 0}
             /\ rows'[Len(rows) + 1].status = "REVOKED" => Money!NetAmount' = Money!NetAmount
  <2> DEFINE amount == Money!AmountForVoid(expired)
  <2>1. amount = 0 \/ amount = Money!NetAmount
    BY DEF Money!AmountForVoid
  <2>2. CASE amount = 0
    <3>1. Money!Close("VOIDED", "PURCHASE", 0, -Money!ExistingAmount)
      BY <1>2, <2>2 DEF Money!Void
    <3>2. Closed("VOIDED", "PURCHASE", 0)
      <4>1. -Money!ExistingAmount \in Int
        BY <1>a
      <4> QED
        BY <3>1, <4>1, ClosedIs
    <3> QED
      BY <3>2, ClosedKeeps
  <2>3. CASE amount # 0
    <3>1. Money!Close("VOIDED", "REFUND", amount, amount)
      BY <1>2, <2>3 DEF Money!Void
    <3>2. amount \in Nat /\ amount \in Int /\ amount = Money!NetAmount
      BY <1>a, <2>1, <2>3
    <3> HIDE DEF amount
    <3>3. Closed("VOIDED", "REFUND", amount)
      BY <3>1, <3>2, ClosedIs
    <3> QED
      BY <3>2, <3>3, ClosedKeeps
  <2> QED
    BY <2>2, <2>3
<1> QED
  BY <1>1, <1>2

LEMMA NextApprovedStep ==
    ASSUME MoneyInv, [Money!NextApproved]_moneyVars
    PROVE  MoneyInv' /\ (ApprovedInv => ApprovedInv')
<1>1. CASE UNCHANGED moneyVars
  <2>1. UNCHANGED <<rows, ledger, noFee, waived>>
    BY <1>1 DEF moneyVars
  <2>2. /\ Money!NetAmount' = Money!NetAmount /\ Money!Signed' = Money!Signed
    BY <2>1 DEF Money!NetAmount, Money!History, Money!SumOf, Money!Signed
  <2>3. MoneyTypes' <=> MoneyTypes
    BY <2>1 DEF MoneyTypes, Money!TypeOK, Money!Last
  <2> QED
    BY <2>1, <2>2, <2>3 DEF MoneyInv, ApprovedInv, Unissued
<1>2. CASE Money!Apply
  BY <1>2, ApplyStep
<1>3. ASSUME NEW i \in DOMAIN rows,
             \/ Money!Edit(i) \/ Money!Purchase(i) \/ Money!StartWebPurchase(i)
             \/ Money!Refund(i) \/ Money!Issue(i)
      PROVE  MoneyInv' /\ (ApprovedInv => ApprovedInv')
  BY <1>3, EditStep, PurchaseStep, StartWebPurchaseStep, RefundStep, IssueStep
<1>4. ASSUME NEW i \in DOMAIN rows, NEW t \in DOMAIN ledger, Money!Approve(i, t)
      PROVE  MoneyInv' /\ (ApprovedInv => ApprovedInv')
  <2>1. Answers(i, t, "yes")
    BY <1>4 DEF Money!Approve, Money!Has, Answers
  <2> QED
    BY <2>1, AnswerStep
<1>5. CASE Money!Revoke \/ \E expired \in BOOLEAN : Money!Void(expired)
  BY <1>5, CloseStep
<1>6. CASE Money!ChangeNoFee
  BY <1>6, ChangeNoFeeStep
<1> QED
  BY <1>1, <1>2, <1>3, <1>4, <1>5, <1>6 DEF Money!NextApproved

LEMMA MoneyStep ==
    ASSUME MoneyInv, [Money!Next]_moneyVars
    PROVE  MoneyInv'
<1>1. ASSUME NEW i \in DOMAIN rows, NEW t \in DOMAIN ledger, Money!Decline(i, t)
      PROVE  MoneyInv'
  <2>1. Answers(i, t, "no")
    BY <1>1 DEF Money!Decline, Money!Has, Answers
  <2> QED
    BY <2>1, AnswerStep
<1>2. ASSUME NEW i \in DOMAIN rows, Money!BackToCart(i)
      PROVE  MoneyInv'
  BY <1>2, BackToCartStep
<1>3. CASE [Money!NextApproved]_moneyVars
  BY <1>3, NextApprovedStep
<1> QED
  BY <1>1, <1>2, <1>3 DEF Money!Next

LEMMA InitMoney == Money!Init => MoneyInv /\ ApprovedInv
<1> SUFFICES ASSUME Money!Init
             PROVE  MoneyInv /\ ApprovedInv
  OBVIOUS
<1>1. /\ rows = <<>> /\ ledger = <<>> /\ noFee = FALSE /\ waived = FALSE
      /\ DOMAIN rows = {} /\ DOMAIN ledger = {} /\ Len(rows) = 0
  BY DEF Money!Init
<1>2. MoneyTypes
  <2>1. rows \in Seq(Money!Revision) /\ ledger \in Seq(Money!Entry)
    BY <1>1, EmptySeq
  <2>2. Len(rows) <= MaxRevisions
    BY <1>1, MoneyConstants
  <2>3. {noFee, waived} \subseteq BOOLEAN
    BY <1>1
  <2> QED
    BY <1>1, <2>1, <2>2, <2>3 DEF MoneyTypes, Money!TypeOK, Money!Last
<1>3. Money!NetAmount = 0
  <2>1. PaidFor = {}
    BY <1>1 DEF PaidFor, Money!History
  <2> QED
    BY <1>2, <2>1, Amounts, SumEmpty DEF AmountsAre
<1> QED
  BY <1>1, <1>2, <1>3 DEF MoneyInv, ApprovedInv

LEMMA MoneyMoves ==
    ASSUME [CompanyNext]_companyVars
    PROVE  /\ [Money!Next]_moneyVars /\ UNCHANGED part
           /\ part = "atOnce" => [Money!NextApproved]_moneyVars
<1>1. Money!NextApproved => Money!Next
  BY DEF Money!Next
<1>2. CASE UNCHANGED companyVars
  BY <1>2 DEF companyVars
<1>3. CASE CompanyNext
  BY <1>1, <1>3 DEF CompanyNext
<1> QED
  BY <1>2, <1>3

LEMMA MoneyInvariant == CompanySpec => [](MoneyInv /\ (part = "atOnce" => ApprovedInv))
<1> DEFINE Inv == MoneyInv /\ (part = "atOnce" => ApprovedInv)
<1>1. CompanyInit => Inv
  BY InitMoney DEF CompanyInit
<1>2. Inv /\ [CompanyNext]_companyVars => Inv'
  <2> SUFFICES ASSUME MoneyInv, part = "atOnce" => ApprovedInv,
                      [CompanyNext]_companyVars
               PROVE  MoneyInv' /\ (part' = "atOnce" => ApprovedInv')
    OBVIOUS
  <2>1. /\ [Money!Next]_moneyVars /\ UNCHANGED part
        /\ part = "atOnce" => [Money!NextApproved]_moneyVars
    BY MoneyMoves
  <2>2. MoneyInv'
    BY <2>1, MoneyStep
  <2>3. ASSUME part = "atOnce"
        PROVE  ApprovedInv'
    BY <2>1, <2>3, NextApprovedStep
  <2> QED
    BY <2>1, <2>2, <2>3
<1> HIDE DEF Inv
<1>3. CompanySpec => []Inv
  BY <1>1, <1>2, PTL DEF CompanySpec
<1> QED
  BY <1>3 DEF Inv

\* For any fees, however often a permit was amended, up and down: what was paid in
\* all is the fee of the revision in force, or, if no-fee authorizations came in
\* between, of some revision (validateApplicationAndCalculateCost takes what
\* calculatePermitAmount adds up off the new fee).
THEOREM PaidIsTheFee == CompanySpec => []NetIsFee
<1>1. MoneyInv /\ (part = "atOnce" => ApprovedInv) => NetIsFee
  <2> SUFFICES ASSUME MoneyInv, ApprovedInv
               PROVE  Money!NetIsFee /\ Money!NetIsSomeFee
    BY DEF NetIsFee
  <2>1. Money!NetIsFee
    BY DEF Money!NetIsFee, Money!Has, Money!Last, ApprovedInv
  <2>2. Money!NetIsSomeFee
    BY DEF Money!NetIsSomeFee, MoneyInv, ApprovedInv
  <2> QED
    BY <2>1, <2>2
<1> QED
  BY <1>1, MoneyInvariant, PTL

\* For any fees and any answers of the gateway: a void gives back all that was
\* paid or nothing, a revocation nothing (calculateAmountForVoid, voidPermit).
THEOREM VoidsGiveBackAll == CompanySpec => VoidGivesBackAll
<1> DEFINE GivesBack ==
        \A i \in DOMAIN rows' :
           i = Len(rows) + 1 =>
              /\ rows'[i].status = "VOIDED" => Money!NetAmount' \in {Money!NetAmount, 0}
              /\ rows'[i].status = "REVOKED" => Money!NetAmount' = Money!NetAmount
<1>1. MoneyInv /\ [CompanyNext]_companyVars => [GivesBack]_moneyVars
  <2> SUFFICES ASSUME MoneyInv, [CompanyNext]_companyVars, ~UNCHANGED moneyVars
               PROVE  GivesBack
    OBVIOUS
  <2>a. Money!Next
    BY MoneyMoves
  <2>b. EntriesAre /\ MoneyTypes'
    BY Entries, MoneyStep, <2>a DEF MoneyInv
  <2>c. Len(rows) \in Nat /\ Len(rows) + 1 \notin DOMAIN rows
    BY <2>b DEF EntriesAre
  <2>1. CASE Money!Apply
    <3>1. /\ Len(rows') = Len(rows) + 1 /\ rows'[Len(rows')].status = "OPEN"
      BY <2>1, RowAdded
    <3> QED
      BY <3>1
  <2>2. CASE Money!Revoke \/ \E expired \in BOOLEAN : Money!Void(expired)
    BY <2>2, CloseStep
  <2>3. CASE DOMAIN rows' = DOMAIN rows
    BY <2>c, <2>3
  <2>4. CASE Money!ChangeNoFee
    BY <2>3, <2>4 DEF Money!ChangeNoFee
  <2>5. ASSUME NEW i \in DOMAIN rows,
               \/ Money!Edit(i) \/ Money!Purchase(i) \/ Money!StartWebPurchase(i)
               \/ Money!Refund(i) \/ Money!Issue(i) \/ Money!BackToCart(i)
               \/ \E t \in DOMAIN ledger : Money!Approve(i, t) \/ Money!Decline(i, t)
        PROVE  DOMAIN rows' = DOMAIN rows
    BY <2>5
    DEF Money!Edit, Money!Purchase, Money!StartWebPurchase, Money!Refund, Money!Issue,
        Money!BackToCart, Money!Approve, Money!Decline, Money!SetStatus
  <2> QED
    BY <2>a, <2>1, <2>2, <2>3, <2>4, <2>5 DEF Money!Next, Money!NextApproved
<1>2. CompanySpec => []MoneyInv /\ [][CompanyNext]_companyVars
  BY MoneyInvariant, PTL DEF CompanySpec
<1>3. CompanySpec => [][GivesBack]_moneyVars
  BY <1>1, <1>2, PTL
<1> QED
  BY <1>3 DEF VoidGivesBackAll, Money!VoidGivesBackAll, Money!vars, moneyVars, Money!Last

(***************************************************************************)
(* The types of all                                                        *)
(***************************************************************************)

\* What the policy cache, the users, the letters of authorization, the money and
\* the form keep is of its type, whatever the constants.
THEOREM CompanyTypeCorrect == CompanySpec => []CompanyTypeOK
<1>1. PolicyInv /\ UsersInv /\ LoaInv /\ FormInv /\ MoneyInv => CompanyTypeOK
  <2>1. PolicyInv => TypeOK
    BY DEF PolicyInv
  <2>2. UsersInv => Users!TypeOK
    <3>1. UsersInv => \A p \in Calls : call[p].step # "idle" => call[p].person # {}
      BY DEF UsersInv, UserCalls, UserCallOK
    <3>2. UsersInv => \A u \in People : member[u] \in UserRows
      BY DEF UsersInv
    <3> QED
      BY <3>1, <3>2 DEF UsersInv, UserRows, Users!TypeOK
  <2>3. LoaInv => Loas!TypeOK
    BY DEF LoaInv, LoaRows, LoaRowOK, Loas!TypeOK
  <2>4. MoneyInv => Money!TypeOK
    BY DEF MoneyInv, MoneyTypes
  <2>5. FormInv => Forms!TypeOK
    BY DEF FormInv, FormTypes, Forms!TypeOK
  <2> QED
    BY <2>1, <2>2, <2>3, <2>4, <2>5 DEF CompanyTypeOK
<1> QED
  BY <1>1, PolicyInvariant, UsersInvariant, LoaInvariant, FormInvariant, MoneyInvariant, PTL
=============================================================================
