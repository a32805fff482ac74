------------------------------ MODULE PermitForm ------------------------------
(***************************************************************************)
(* The application form of the frontend for a term permit: what the hooks  *)
(* and effects of ApplicationForm do to the dates, the letter of           *)
(* authorization (LOA) and the vehicle of the form while the user edits    *)
(* them and fetched data replaces what the form was filled with.           *)
(*                                                                         *)
(* A render reads the form and what the hooks memorized in earlier         *)
(* renders; its effects write the form and the memory, and so bring about  *)
(* the next render, until nothing changes (Settled).  The user acts on a   *)
(* settled form.  Dates are days; a vehicle subtype is a number, in the    *)
(* order of the menu, and belongs to a kind, power unit or trailer.        *)
(***************************************************************************)
EXTENDS Integers, FiniteSets, FiniteSetsExt

CONSTANTS
    Starts,         \* days a permit may start on
    MinDuration,    \* minDurationForPermitType
    Durations,      \* the options, in days; one of them is the year
    Year,           \* BASE_DAYS_IN_YEAR
    LeapUntil,      \* a year that starts up to this day has one day more
    NoExpiry,       \* expiry of an LOA that does not expire
    LoaLists,       \* active LOAs of the company, as they may be fetched
    Subtypes, NoSubtype,
    Trailers,       \* the subtypes that are trailers
    Eligible,       \* subtypes the policy permits for the permit type
    Vehicles, NoVehicle,
    SubtypeOf,      \* of the vehicles of the inventory
    MaxFetches      \* bound on the fetches that bring something new

\* A letter of authorization of the permit type.
Loa == [number : Nat \ {0}, start : Nat, expiry : Nat, subtype : Subtypes]

FormAssumption ==
    /\ Starts \subseteq Nat /\ Durations \subseteq Nat \ {0} /\ MaxFetches \in Nat
    /\ IsFiniteSet(Durations) /\ {MinDuration, Year} \subseteq Durations
    /\ \A d \in Durations : MinDuration <= d /\ d <= Year
    /\ {LeapUntil, NoExpiry} \subseteq Nat
    /\ IsFiniteSet(Subtypes) /\ Subtypes \subseteq Nat /\ NoSubtype \in Nat \ Subtypes
    /\ Trailers \subseteq Subtypes /\ Eligible \subseteq Subtypes
    /\ NoVehicle \notin Vehicles /\ SubtypeOf \in [Vehicles -> Subtypes]
    /\ \A list \in LoaLists :
         /\ list \subseteq Loa
         /\ \A a, b \in list : a.number = b.number => a = b

Kinds == {"powerUnit", "trailer"}
KindOf(s) == IF s \in Trailers THEN "trailer" ELSE "powerUnit"

NoLoa == [number |-> 0, start |-> 0, expiry |-> NoExpiry, subtype |-> NoSubtype]
EmptyVehicle == [id |-> NoVehicle, kind |-> "powerUnit", subtype |-> NoSubtype]

VARIABLES
    form,     \* what is on the screen: start, duration, expiry, loa, vehicle
    memo,     \* what the hooks keep from render to render
    fetched,  \* the company's LOAs that the form got last
    saved,    \* the application as it was saved last
    fetches
vars == <<form, memo, fetched, saved, fetches>>

-----------------------------------------------------------------------------
(* dateSelection.ts, permitState.ts                                        *)

\* getExpiryDate
ExpiryDate(start, duration) ==
    IF duration = Year /\ start <= LeapUntil THEN start + duration
    ELSE start + duration - 1

ExpiresBefore(loa, day) == loa.expiry # NoExpiry /\ loa.expiry < day

\* getAvailableDurationOptions
Available(loa, start) ==
    {d \in Durations : ~ExpiresBefore(loa, ExpiryDate(start, d))}

\* Mutant: the maximum of no options is 0.
UpdatedDurationOrZero(duration, options) ==
    LET longest == IF options = {} THEN 0 ELSE Max(options)
    IN  IF duration > longest THEN longest ELSE duration

\* handleUpdateDurationIfNeeded: the maximum of no options is -Infinity.
UpdatedDuration(duration, options) ==
    IF \A d \in options : duration > d
    THEN IF options = {} THEN MinDuration ELSE Max(options)
    ELSE duration

-----------------------------------------------------------------------------
(* permitLOA.ts                                                            *)

\* filterNonExpiredLOAs; the list has the LOAs of the permit type only
NonExpired(list, start) == {loa \in list : ~ExpiresBefore(loa, start)}

\* getUpdatedLOASelection: an option that is not disabled
MayBeUsed(loa, start) == /\ ~ExpiresBefore(loa, ExpiryDate(start, MinDuration))
                         /\ loa.start <= start

\* getUpdatedLOASelection: the LOA of the list that stays selected, by number
Selection(list, loa, start) ==
    LET kept == {l \in list : l.number = loa.number /\ MayBeUsed(l, start)}
    IN  IF kept = {} THEN NoLoa ELSE CHOOSE l \in kept : TRUE

UsesLoa(loa) == loa # NoLoa

\* getUpdatedVehicleDetailsForLOAs
UpdatedVehicle(loa, v) ==
    LET allowed == IF UsesLoa(loa) THEN {loa.subtype} ELSE Eligible
        kept == IF v.id # NoVehicle /\ v.subtype \notin allowed
                THEN EmptyVehicle ELSE v
    IN  IF UsesLoa(loa)
        THEN [kept EXCEPT !.kind = KindOf(loa.subtype), !.subtype = loa.subtype]
        ELSE kept

\* getEligibleSubtypeOptions
SubtypeOptions(loa, kind) ==
    {s \in IF UsesLoa(loa) THEN {loa.subtype} ELSE Eligible : KindOf(s) = kind}

\* usePermitVehicles: a subtype that is not in the menu becomes the first one.
\* The menu is the one of the kind the form had.
VehicleOnMenu(loa, v) ==
    LET u == UpdatedVehicle(loa, v)
        options == SubtypeOptions(loa, v.kind)
    IN  IF u.subtype \in options THEN u
        ELSE [u EXCEPT !.subtype = IF options = {} THEN NoSubtype
                                   ELSE Min(options)]

\* applyUpToDateLOAsToApplication: what the form is filled with
Filled(application, list) ==
    LET start == application.start
        loa == Selection(NonExpired(list, start), application.loa, start)
        duration == UpdatedDuration(application.duration, Available(loa, start))
    IN  [start |-> start, duration |-> duration,
         expiry |-> ExpiryDate(start, duration), loa |-> loa,
         vehicle |-> UpdatedVehicle(loa, application.vehicle)]

\* getDefaultValues for a new application
NewApplication(start) ==
    [start |-> start, duration |-> MinDuration,
     expiry |-> ExpiryDate(start, MinDuration), loa |-> NoLoa,
     vehicle |-> EmptyVehicle]

-----------------------------------------------------------------------------
(* A render and its effects                                                *)

\* useApplicationFormContext, usePermitDateSelection: the start, the LOA, the
\* list of LOAs and the duration options that the hooks use are those of the
\* render before; updated and dates are the dependencies of two effects.
Memorized(f, list) ==
    LET options == Available(f.loa, f.start)
    IN  [start |-> f.start, loa |-> f.loa, list |-> NonExpired(list, f.start),
         options |-> options, updated |-> UpdatedDuration(f.duration, options),
         dates |-> <<f.start, f.duration>>]

Updated == UpdatedDuration(form.duration, memo.options)

AfterRender(list) ==
    [start |-> form.start, loa |-> form.loa,
     list |-> NonExpired(list, form.start),
     options |-> Available(memo.loa, memo.start), updated |-> Updated,
     dates |-> <<memo.start, form.duration>>]

\* Mutant: the expiry is only computed anew when the duration changes.
AfterEffectsOfDuration ==
    LET checked == Selection(memo.list, memo.loa, memo.start)
    IN  [start |-> form.start,
         duration |-> IF Updated # memo.updated THEN Updated ELSE form.duration,
         expiry |-> IF form.duration # memo.dates[2]
                    THEN ExpiryDate(memo.start, form.duration) ELSE form.expiry,
         loa |-> IF checked.number # memo.loa.number THEN checked ELSE form.loa,
         vehicle |-> VehicleOnMenu(memo.loa, form.vehicle)]

\* Mutant: the memorized selection is compared with the one of the form.
AfterEffectsOfStaleLoa ==
    [start |-> form.start,
     duration |-> IF Updated # memo.updated THEN Updated ELSE form.duration,
     expiry |-> IF <<memo.start, form.duration>> # memo.dates
                THEN ExpiryDate(memo.start, form.duration) ELSE form.expiry,
     loa |-> Selection(memo.list, memo.loa, memo.start),
     vehicle |-> VehicleOnMenu(memo.loa, form.vehicle)]

\* The effects of usePermitDateSelection, PermitLOASection, usePermitVehicles
AfterEffects ==
    LET checked == Selection(memo.list, memo.loa, memo.start)
    IN  [start |-> form.start,
         duration |-> IF Updated # memo.updated THEN Updated ELSE form.duration,
         expiry |-> IF <<memo.start, form.duration>> # memo.dates
                    THEN ExpiryDate(memo.start, form.duration) ELSE form.expiry,
         loa |-> IF checked.number # memo.loa.number THEN checked ELSE form.loa,
         vehicle |-> VehicleOnMenu(memo.loa, form.vehicle)]

Settled == AfterEffects = form /\ AfterRender(fetched) = memo

Init == /\ fetched \in LoaLists
        /\ \E start \in Starts : saved = NewApplication(start)
        /\ form = Filled(saved, fetched)
        /\ memo = Memorized(form, fetched)
        /\ fetches = 0

Render == /\ ~Settled
          /\ form' = AfterEffects
          /\ memo' = AfterRender(fetched)
          /\ UNCHANGED <<fetched, saved, fetches>>

\* useInitApplicationFormData: new LOAs, or a new inventory, fill the form
\* anew, after the effects of the same render.
Fetch == /\ fetches < MaxFetches
         /\ \E list \in LoaLists :
              /\ fetched' = list
              /\ form' = Filled(saved, list)
              /\ memo' = AfterRender(list)
         /\ fetches' = fetches + 1
         /\ UNCHANGED saved

-----------------------------------------------------------------------------
(* The user                                                                *)

Edit(f) == /\ Settled
           /\ form' = f
           /\ UNCHANGED <<memo, fetched, saved, fetches>>

PickStart == \E d \in Starts : Edit([form EXCEPT !.start = d])

PickDuration == \E d \in memo.options : Edit([form EXCEPT !.duration = d])

\* PermitLOASection.handleSelectLOA
PickLoa == \/ Edit([form EXCEPT !.loa = NoLoa])
           \/ \E loa \in memo.list : /\ MayBeUsed(loa, memo.start)
                                     /\ loa.number # memo.loa.number
                                     /\ Edit([form EXCEPT !.loa = loa])

\* getAllowedVehicles, VehicleDetails.onSelectVehicle, handleSetVehicle
PickVehicle ==
    \E v \in Vehicles :
        /\ SubtypeOf[v] \in IF UsesLoa(memo.loa) THEN {memo.loa.subtype}
                            ELSE Eligible
        /\ Edit([form EXCEPT !.vehicle = [id |-> v, kind |-> KindOf(SubtypeOf[v]),
                                          subtype |-> SubtypeOf[v]]])

\* handleClearVehicle
ClearVehicle ==
    Edit([form EXCEPT !.vehicle =
            IF UsesLoa(memo.loa)
            THEN [id |-> NoVehicle, kind |-> KindOf(memo.loa.subtype),
                  subtype |-> memo.loa.subtype]
            ELSE EmptyVehicle])

\* VehicleDetails.handleChangeVehicleType: not for a vehicle of the inventory
ChangeKind ==
    /\ ~UsesLoa(memo.loa) /\ form.vehicle.id = NoVehicle
    /\ \E k \in Kinds \ {form.vehicle.kind} :
         Edit([form EXCEPT !.vehicle.kind = k, !.vehicle.subtype = NoSubtype])

\* The menu of the subtypes; a vehicle of the inventory stays selected.
PickSubtype ==
    /\ ~UsesLoa(memo.loa)
    /\ \E s \in SubtypeOptions(memo.loa, form.vehicle.kind) :
         Edit([form EXCEPT !.vehicle.subtype = s])

\* onSave, then onSaveSuccess gives the form the saved application.
Save == /\ Settled
        /\ saved' = form
        /\ form' = Filled(form, fetched)
        /\ UNCHANGED <<memo, fetched, fetches>>

Next == \/ Render \/ Fetch \/ PickStart \/ PickDuration \/ PickLoa
        \/ PickVehicle \/ ClearVehicle \/ ChangeKind \/ PickSubtype \/ Save

Spec == Init /\ [][Next]_vars

-----------------------------------------------------------------------------
(* What the code keeps                                                     *)

Form == [start : Starts, duration : Durations, expiry : Nat,
         loa : (UNION LoaLists) \cup {NoLoa},
         vehicle : [id : Vehicles \cup {NoVehicle}, kind : Kinds,
                    subtype : Subtypes \cup {NoSubtype}]]

\* The form and the saved application are of their types.
TypeOK == /\ {form, saved} \subseteq Form
          /\ fetched \in LoaLists
          /\ fetches \in 0..MaxFetches

\* Once the effects are done, the permit on the screen lies within its LOA,
\* which is the company's LOA as fetched last: whatever the order of picking
\* the start, the duration and the LOA, and of the LOAs' fetches.
LoaCoversPermit ==
    Settled /\ UsesLoa(form.loa) =>
        /\ form.loa \in fetched
        /\ form.loa.start <= form.start
        /\ form.loa.expiry # NoExpiry => form.expiry <= form.loa.expiry

\* Once the effects are done, the expiry is that of the start and the duration.
ExpiryIsTheDates ==
    Settled => form.expiry = (IF form.duration = Year /\ form.start <= LeapUntil
                              THEN form.start + Year
                              ELSE form.start + form.duration - 1)

\* Once the effects are done, the vehicle is of the subtype that the LOA is
\* for, and without an LOA of a subtype that the policy permits.
VehicleIsAllowed ==
    Settled =>
        IF UsesLoa(form.loa) THEN /\ form.vehicle.subtype = form.loa.subtype
                                  /\ form.vehicle.kind = KindOf(form.loa.subtype)
        ELSE form.vehicle.subtype \in Eligible \cup {NoSubtype}

=============================================================================
