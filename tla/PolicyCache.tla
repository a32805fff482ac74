----------------------------- MODULE PolicyCache -----------------------------
(***************************************************************************)
(* What a pod of the vehicles API keeps in memory: the feature flags it    *)
(* loads when it starts (AppService.initializeCache) and the policy        *)
(* configuration and the commodities it loads with the first validation    *)
(* (PolicyService.initPolicyEngineAndLoadCache).  Nothing in the cache     *)
(* expires (ttl: 0).  The configurations are rows of the policy API's      *)
(* table, each with the time it takes effect (PolicyConfigService).        *)
(*                                                                         *)
(* A validation is a request of several steps with an await between any    *)
(* two.  A configuration is known by its id; its commodities by the same   *)
(* id.                                                                     *)
(***************************************************************************)
EXTENDS Integers, FiniteSets

CONSTANTS
    Configs,     \* ids of policy configurations, in the order of insertion
    NoConfig,
    Pods,
    Requests,    \* validations in flight at a time
    MaxTime,     \* bound on the time
    MayFail,     \* the database may fail while a pod starts
    MayRestart   \* pods may be restarted

ASSUME PolicyAssumption ==
    /\ Configs \subseteq Nat /\ IsFiniteSet(Configs) /\ NoConfig \notin Configs
    /\ Pods # {}
    /\ MaxTime \in Nat
    /\ {MayFail, MayRestart} \subseteq BOOLEAN

Maybe == Configs \cup {NoConfig}

\* A row of ORBC_POLICY_CONFIGURATION.
Row == [published : BOOLEAN, draft : BOOLEAN, effective : 0..MaxTime]

Pod == [up : BOOLEAN, flags : BOOLEAN, policy : Maybe, commodities : Maybe]
Down == [up |-> FALSE, flags |-> FALSE, policy |-> NoConfig,
         commodities |-> NoConfig]

\* got: the configuration the request holds.
Request == [pc : {"idle", "fetch", "store", "reread", "commodities", "fill",
                  "validate"},
            pod : Pods, got : Maybe]

VARIABLES now, table, pod, req
vars == <<now, table, pod, req>>

AnyPod == CHOOSE p \in Pods : TRUE
Idle == [pc |-> "idle", pod |-> AnyPod, got |-> NoConfig]

-----------------------------------------------------------------------------
(* PolicyConfigService.findAllActive with isCurrent                        *)

Later(c, d) == \/ table[c].effective > table[d].effective
               \/ table[c].effective = table[d].effective /\ c > d

Active == {c \in Configs : table[c].published /\ ~table[c].draft}

\* Mutant: the effective date is not compared with the time.
InEffectAny == Active

InEffect == {c \in Active : table[c].effective <= now}

\* ORDER BY effectiveDate DESC, policyConfigId DESC, one row
Current == IF InEffect = {} THEN NoConfig
           ELSE CHOOSE c \in InEffect : \A d \in InEffect \ {c} : Later(c, d)

Init == /\ now = 0
        /\ table = [c \in Configs |->
                      [published |-> FALSE, draft |-> FALSE, effective |-> 0]]
        /\ pod = [p \in Pods |-> Down]
        /\ req = [r \in Requests |-> Idle]

Tick == /\ now < MaxTime
        /\ now' = now + 1
        /\ UNCHANGED <<table, pod, req>>

\* The database scripts (external): a configuration is inserted, as a draft or
\* not, for any time; ids are given out in order.
Publish(c) ==
    /\ ~table[c].published
    /\ \A d \in Configs : d < c => table[d].published
    /\ \E draft \in BOOLEAN, e \in now..MaxTime :
        table' = [table EXCEPT ![c] = [published |-> TRUE, draft |-> draft,
                                       effective |-> e]]
    /\ UNCHANGED <<now, pod, req>>

\* onApplicationBootstrap: the caches are filled before the pod listens.  An
\* error is logged and the pod listens all the same, without what was not
\* loaded yet.
Start(p) ==
    /\ ~pod[p].up
    /\ \E loaded \in (IF MayFail THEN BOOLEAN ELSE {TRUE}) :
        pod' = [pod EXCEPT ![p] = [Down EXCEPT !.up = TRUE, !.flags = loaded]]
    /\ UNCHANGED <<now, table, req>>

\* A pod is stopped; its requests are lost and its cache with it.
Stop(p) ==
    /\ MayRestart
    /\ pod[p].up
    /\ pod' = [pod EXCEPT ![p] = Down]
    /\ req' = [r \in Requests |-> IF req[r].pod = p THEN Idle ELSE req[r]]
    /\ UNCHANGED <<now, table>>

-----------------------------------------------------------------------------
(* PolicyService.initPolicyEngineAndLoadCache, step by step                *)

Goto(r, pc) == req' = [req EXCEPT ![r].pc = pc]

\* Mutant: every validation fetches the configuration again.
BeginAlways(r, p) ==
    /\ req[r].pc = "idle" /\ pod[p].up
    /\ req' = [req EXCEPT ![r] = [pc |-> "fetch", pod |-> p, got |-> NoConfig]]
    /\ UNCHANGED <<now, table, pod>>

\* getActivePolicyDefinition looks into the cache.
Begin(r, p) ==
    /\ req[r].pc = "idle" /\ pod[p].up
    /\ req' = [req EXCEPT ![r] =
                [pc |-> IF pod[p].policy = NoConfig THEN "fetch" ELSE "reread",
                 pod |-> p, got |-> NoConfig]]
    /\ UNCHANGED <<now, table, pod>>

\* The policy API answers with the configuration of this moment; with none,
\* the validation fails.
Fetch(r) ==
    /\ req[r].pc = "fetch"
    /\ req' = [req EXCEPT ![r] = IF Current = NoConfig THEN Idle
                                 ELSE [@ EXCEPT !.pc = "store", !.got = Current]]
    /\ UNCHANGED <<now, table, pod>>

Store(r) ==
    /\ req[r].pc = "store"
    /\ pod' = [pod EXCEPT ![req[r].pod].policy = req[r].got]
    /\ Goto(r, "reread")
    /\ UNCHANGED <<now, table>>

\* The configuration that is used is read from the cache once more.
Reread(r) ==
    /\ req[r].pc = "reread"
    /\ req' = [req EXCEPT ![r].pc = "commodities",
                          ![r].got = pod[req[r].pod].policy]
    /\ UNCHANGED <<now, table, pod>>

\* loadPolicyEngineAttributesToCache
Commodities(r) ==
    /\ req[r].pc = "commodities"
    /\ Goto(r, IF pod[req[r].pod].commodities = NoConfig THEN "fill" ELSE "validate")
    /\ UNCHANGED <<now, table, pod>>

Fill(r) ==
    /\ req[r].pc = "fill"
    /\ pod' = [pod EXCEPT ![req[r].pod].commodities = req[r].got]
    /\ Goto(r, "validate")
    /\ UNCHANGED <<now, table>>

\* policy.validate
Validate(r) ==
    /\ req[r].pc = "validate"
    /\ req' = [req EXCEPT ![r] = Idle]
    /\ UNCHANGED <<now, table, pod>>

Next ==
    \/ Tick
    \/ \E c \in Configs : Publish(c)
    \/ \E p \in Pods : Start(p) \/ Stop(p)
    \/ \E r \in Requests : \/ \E p \in Pods : Begin(r, p)
                           \/ Fetch(r) \/ Store(r) \/ Reread(r)
                           \/ Commodities(r) \/ Fill(r) \/ Validate(r)

Spec == Init /\ [][Next]_vars

-----------------------------------------------------------------------------
(* What the code keeps                                                     *)

\* Every row, pod and request is of its type, and a pod that is down holds
\* nothing.
TypeOK == /\ now \in 0..MaxTime
          /\ table \in [Configs -> Row]
          /\ pod \in [Pods -> Pod]
          /\ req \in [Requests -> Request]
          /\ \A p \in Pods : ~pod[p].up => pod[p] = Down

\* However the requests overlap, no permit is priced by a configuration that
\* is a draft or not in effect yet, and none without a configuration.
UsedIsInEffect ==
    \A r \in Requests : req[r].pc \in {"commodities", "fill", "validate"} =>
        /\ req[r].got \in Configs
        /\ table[req[r].got].published /\ ~table[req[r].got].draft
        /\ table[req[r].got].effective <= now

\* With one validation at a time the commodities a pod names are those of the
\* configuration it prices by.
CommoditiesAgree ==
    \A p \in Pods : pod[p].commodities # NoConfig =>
        pod[p].commodities = pod[p].policy

=============================================================================
