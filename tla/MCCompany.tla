------------------------------ MODULE MCCompany ------------------------------
(***************************************************************************)
(* Instances for TLC of what the permits of a company depend on: the       *)
(* policy configuration a pod has loaded (PolicyCache), the company's      *)
(* users (CompanyUsers) and letters of authorization (Loa), what was paid  *)
(* for the revisions of a permit (PermitMoney), and the form it is applied *)
(* for with (PermitForm).  None of them writes a table or a cache of       *)
(* another, so that their interleavings would show nothing more: the       *)
(* initial state chooses the part that runs, and the others rest.          *)
(***************************************************************************)
EXTENDS PolicyCache, Sequences, TLC

CONSTANTS
    OverlapConfigs,                         \* bound when validations overlap
    Calls, Companies, People,               \* of CompanyUsers
    Ids, NoId, Terms, Allowing, Slots,      \* of Loa
    Fees, MaxRevisions, MaxTransactions,    \* of PermitMoney
    PayBCRevisions,                         \* bound when payments are declined
    Starts, MinDuration, Durations, Year, LeapUntil, NoExpiry, LoaLists,
    Subtypes, NoSubtype, Trailers, Eligible, Vehicles, NoVehicle, SubtypeOf,
    MaxFetches                              \* of PermitForm

VARIABLES
    part,                                   \* the part that runs
    member, pending, call,                  \* of CompanyUsers
    loa, loaReq, app,                       \* of Loa
    rows, ledger, noFee, waived,            \* of PermitMoney
    form, memo, fetched, saved, fetches,    \* of PermitForm
    renders                                 \* in a row, without a fetch

policyVars == vars
userVars == <<member, pending, call>>
loaVars == <<loa, loaReq, app>>
moneyVars == <<rows, ledger, noFee, waived>>
formVars == <<form, memo, fetched, saved, fetches>>
companyVars == <<part, policyVars, userVars, loaVars, moneyVars, formVars, renders>>

Users == INSTANCE CompanyUsers

Loas == INSTANCE Loa WITH Listed <- TRUE, Crashes <- TRUE, req <- loaReq

Money == INSTANCE PermitMoney WITH Again <- FALSE

Forms == INSTANCE PermitForm

\* Calls about users, and requests for letters of authorization, come one at a
\* time.
ASSUME CompanyAssumption ==
    /\ \A c, d \in Calls : c = d
    /\ \A s, t \in Slots : s = t
    /\ Loas!LoaAssumption
    /\ Money!MoneyAssumption
    /\ Forms!FormAssumption

\* LOA 1 is for a power unit and expires; LOA 2, for a trailer of a subtype
\* the policy does not permit, starts later and may be revised or removed.
FormLoa(n, start, expiry, subtype) ==
    [number |-> n, start |-> start, expiry |-> expiry, subtype |-> subtype]
MCLoaLists == {{FormLoa(1, 1, 6, 1), FormLoa(2, 3, 9, 4)},
               {FormLoa(1, 1, 4, 1), FormLoa(2, 3, 0, 4)},
               {FormLoa(1, 1, 6, 2)}}
MCSubtypeOf == [v \in {"t1", "t2"} |-> IF v = "t1" THEN 1 ELSE 4]

MaxRenders == 5

CompanyInit ==
    /\ part \in {"policy", "onePolicy", "users", "loas", "atOnce", "atPayBC", "form"}
    /\ Init
    /\ Users!Init
    /\ Loas!Init
    /\ Money!Init
    /\ Forms!Init
    /\ renders = 0
    /\ part # "form" => /\ saved.start = CHOOSE s \in Starts : TRUE
                        /\ fetched = CHOOSE list \in LoaLists : TRUE

\* Overlapping validations are those of one pod.
WithinOverlapBounds ==
    /\ \A c \in Configs : table[c].published => c <= OverlapConfigs
    /\ \A p, q \in Pods : pod[p].up /\ pod[q].up => p = q

OneValidation ==
    \A r, s \in Requests : req[r].pc # "idle" /\ req[s].pc # "idle" => r = s

WithinPayBCBounds == Len(rows) <= PayBCRevisions /\ ~waived

\* The user acts on a settled form only; a fetch may come in between renders.
CountRenders ==
    renders' = IF part = "form" /\ ~Forms!Settled /\ fetches' = fetches
               THEN IF renders <= MaxRenders THEN renders + 1 ELSE renders
               ELSE 0

CompanyNext ==
    /\ UNCHANGED part
    /\ \/ /\ part = "policy"
          /\ Next
          /\ WithinOverlapBounds'
          /\ UNCHANGED <<userVars, loaVars, moneyVars, formVars>>
       \/ /\ part = "onePolicy"
          /\ Next
          /\ OneValidation'
          /\ UNCHANGED <<userVars, loaVars, moneyVars, formVars>>
       \/ /\ part = "users"
          /\ Users!Next
          /\ UNCHANGED <<policyVars, loaVars, moneyVars, formVars>>
       \/ /\ part = "loas"
          /\ Loas!Next
          /\ UNCHANGED <<policyVars, userVars, moneyVars, formVars>>
       \/ /\ part = "atOnce"
          /\ Money!NextApproved
          /\ UNCHANGED <<policyVars, userVars, loaVars, formVars>>
       \/ /\ part = "atPayBC"
          /\ Money!Next
          /\ WithinPayBCBounds'
          /\ UNCHANGED <<policyVars, userVars, loaVars, formVars>>
       \/ /\ part = "form"
          /\ Forms!Next
          /\ UNCHANGED <<policyVars, userVars, loaVars, moneyVars>>
    /\ CountRenders

CompanySpec == CompanyInit /\ [][CompanyNext]_companyVars

-----------------------------------------------------------------------------
(* The properties of the parts                                             *)

\* The type invariants of the components.
CompanyTypeOK ==
    /\ part \in {"policy", "onePolicy"} => TypeOK
    /\ part = "users" => Users!TypeOK
    /\ part = "loas" => Loas!TypeOK
    /\ part \in {"atOnce", "atPayBC"} => Money!TypeOK
    /\ part = "form" => Forms!TypeOK

\* However the validations overlap, no permit is priced by a configuration that
\* is a draft or not in effect yet, and none without a configuration.
AlwaysInEffect == UsedIsInEffect

\* With one validation at a time the commodities that a pod names are those of
\* the configuration it prices by, whatever is published in between.
SerialCommoditiesAgree == part = "onePolicy" => CommoditiesAgree

\* When calls do not overlap, demoting and removing users takes no company's
\* last active administrator away.
ManagingKeepsAdmin == Users!ManagingKeepsAdmin

\* When requests do not overlap, the revisions of an LOA form one chain, and
\* one of them is active at most.
OneChain == part = "loas" => Loas!OneChain /\ Loas!OneActivePerNumber

\* However often a permit was amended, what was paid in all is the fee of the
\* revision in force; whatever no-fee authorizations came and went, it is the
\* fee of some revision.
NetIsFee == part = "atOnce" => Money!NetIsFee /\ Money!NetIsSomeFee

\* A void gives back all or nothing, also after declined payments at PayBC.
VoidGivesBackAll == Money!VoidGivesBackAll

\* Once its effects are done, whatever the order of edits, saves and fetches, the
\* form shows a permit that lies within its LOA, ends as its start and duration
\* say, and is for a vehicle that the LOA or the policy allows.
FormFits ==
    part = "form" => /\ Forms!LoaCoversPermit
                     /\ Forms!ExpiryIsTheDates
                     /\ Forms!VehicleIsAllowed

\* However the effects of one render undo or complete those of another, the
\* form settles: within MaxRenders renders.
EffectsEnd == renders <= MaxRenders

=============================================================================
