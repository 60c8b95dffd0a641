--------------------------- MODULE VoyageLifecycle ---------------------------
(***************************************************************************)
(* The voyages of one vessel and every operation that changes them:        *)
(* services/voyage.py, services/public_record_fill.py, and what the        *)
(* adoption of a scenario writes into a voyage (services/scenario_adopt.py *)
(* with its scenario rows is ScenarioAdoption).                            *)
(*                                                                         *)
(* Each of those operations locks the vessel row and then the voyage row   *)
(* before it reads what it decides on, and releases both at its commit     *)
(* (repositories/voyage.py, get_by_id with for_update), so one operation   *)
(* is one action here.  What the same transaction does to stored           *)
(* calculations, the needs_recalc mark, is part of the action.             *)
(*                                                                         *)
(* Abstracted: ports, names, notes and the *_source columns.  `plan'       *)
(* stands for planned distance, planned speed and planned tonnages         *)
(* together; an instant is a number and YearOf gives its UTC year.         *)
(***************************************************************************)
EXTENDS Naturals, FiniteSets

CONSTANTS
    Voyages,      \* the ids a voyage row of this vessel may have
    Years,        \* the regulation years the parameter table holds
    Times,        \* instants
    YearOf,       \* the UTC year of an instant
    Plans,        \* values of the planned distance, speed and tonnages
    Distances,    \* actual distances, all greater than zero
    Fuels,        \* fuel types
    Tons,         \* actual tonnages, all greater than zero
    RecordTimes,  \* departures and arrivals in the harbour authority's records
    Runs,         \* ids of stored annual simulation runs of this vessel
    NULL,         \* SQL NULL; as a voyage, the row that does not exist
    KEEP,         \* a field that the request leaves out
    NoRow         \* no voyage_fuel_use row for that fuel

ASSUME TimesAssumption ==
    /\ Times \subseteq Nat
    /\ YearOf \in [Times -> Years]
    /\ RecordTimes \subseteq Times

ASSUME SentinelAssumption ==
    /\ NULL \notin Years \cup Times \cup Plans \cup Distances \cup Tons
    /\ KEEP \notin Years \cup Times \cup Plans \cup Distances \cup Tons
    /\ NoRow \notin Tons
    /\ NULL # KEEP /\ NULL # NoRow

VARIABLES
    voyages,  \* voyage (with its voyage_fuel_use rows), by id
    calc,     \* the newest single-voyage calculation_run of each voyage
    annual    \* the stored ANNUAL_MONTE_CARLO runs of the vessel

vars == <<voyages, calc, annual>>

-----------------------------------------------------------------------------
(* Tables of the state machine.                                            *)

Statuses == {"DRAFT", "PLANNED", "IN_PROGRESS", "COMPLETED", "CONFIRMED",
             "CANCELLED", "ARCHIVED"}

Policies == {"EXCLUDE", "INCLUDE_AS_PLAN", "INCLUDE_AS_ACTUAL"}

Transitions == [DRAFT       |-> {"PLANNED", "CANCELLED"},
                PLANNED     |-> {"IN_PROGRESS", "CANCELLED"},
                IN_PROGRESS |-> {"COMPLETED", "CANCELLED"},
                COMPLETED   |-> {"CONFIRMED"},
                CONFIRMED   |-> {"COMPLETED", "ARCHIVED"},
                CANCELLED   |-> {},
                ARCHIVED    |-> {}]

PolicyByStatus == [DRAFT       |-> {"EXCLUDE"},
                   PLANNED     |-> {"EXCLUDE", "INCLUDE_AS_PLAN"},
                   IN_PROGRESS |-> {"EXCLUDE", "INCLUDE_AS_PLAN"},
                   COMPLETED   |-> {"EXCLUDE", "INCLUDE_AS_ACTUAL"},
                   CONFIRMED   |-> {"EXCLUDE", "INCLUDE_AS_ACTUAL"},
                   CANCELLED   |-> {"EXCLUDE"},
                   ARCHIVED    |-> {"EXCLUDE"}]

PlanningStatuses == {"DRAFT", "PLANNED"}
\* Mutant: actuals may be entered after confirmation.
ActualsAllowedConfirmed == {"IN_PROGRESS", "COMPLETED", "CONFIRMED"}

ActualsAllowedStatuses == {"IN_PROGRESS", "COMPLETED"}
\* Mutant: a completed voyage may really be deleted.
HardDeleteCompleted == {"DRAFT", "CANCELLED", "COMPLETED"}

HardDeleteStatuses == {"DRAFT", "CANCELLED"}
SoftDeleteStatuses == {"COMPLETED", "CONFIRMED", "ARCHIVED"}

-----------------------------------------------------------------------------
(* Rows.                                                                   *)

Instant == Times \cup {NULL}

VoyageRow ==
    [status      : Statuses,
     policy      : Policies,
     year        : Years \cup {NULL},
     plan        : Plans,
     planned_dep : Instant,
     planned_arr : Instant,
     actual_dep  : Instant,
     actual_arr  : Instant,
     distance    : Distances \cup {NULL},
     fuel        : [Fuels -> Tons \cup {NULL, NoRow}],
     is_deleted  : BOOLEAN]

\* The row that does not exist is none that does.
ASSUME RowAssumption == NULL \notin VoyageRow

Flags == {"none", "fresh", "stale"}

TypeOK ==
    /\ voyages \in [Voyages -> VoyageRow \cup {NULL}]
    /\ calc \in [Voyages -> Flags]
    /\ annual \in [Runs -> Flags]

Stored(v) == voyages[v] # NULL

\* get_by_id finds the row: it exists and is not soft-deleted.
Live(v) == Stored(v) /\ ~voyages[v].is_deleted

\* Mutant: a field that was left out is written too.
GivenAlways(field, column) == field

\* A request field that was sent replaces the column, one left out keeps it.
Given(field, column) == IF field = KEEP THEN column ELSE field

-----------------------------------------------------------------------------
(* Checks shared by the operations.                                        *)

\* Arrival after departure; an end that is not known is not compared.
TimeOrder(dep, arr) == dep # NULL /\ arr # NULL => dep < arr

\* The years a voyage touches: that of its departure and of its arrival.
SpannedYears(dep, arr) ==
    {YearOf[dep]} \cup (IF arr = NULL THEN {} ELSE {YearOf[arr]})

\* A regulation year, where there is one and a departure to compare it with,
\* is one of the years the voyage touches.
YearSpanned(year, dep, arr) ==
    year # NULL /\ dep # NULL => year \in SpannedYears(dep, arr)

\* Mutant: the year is compared with the times from before the edit.
TimesBeforeEdit(old, new) ==
    IF old.status \in PlanningStatuses THEN <<old.planned_dep, old.planned_arr>>
    ELSE <<old.actual_dep, old.actual_arr>>

\* Mutant: the year is compared with the plan even after departure.
TimesOfPlan(old, new) == <<new.planned_dep, new.planned_arr>>

\* The departure and arrival an edited year is compared with.
AttributionTimes(old, new) ==
    CASE old.status \in PlanningStatuses -> <<new.planned_dep, new.planned_arr>>
      [] old.status \notin PlanningStatuses /\ old.actual_dep # NULL ->
             <<old.actual_dep, old.actual_arr>>
      [] old.status = "CONFIRMED" /\ old.actual_dep = NULL ->
             <<old.planned_dep, old.planned_arr>>
      [] OTHER -> <<NULL, NULL>>

FuelRows(row) == {f \in Fuels : row.fuel[f] # NoRow}

\* Mutant: one fuel with a tonnage is enough for CONFIRMED as well.
SomeActualDataReady(row, to) ==
    /\ to \in {"COMPLETED", "CONFIRMED"} =>
           \E f \in FuelRows(row) : row.fuel[f] # NULL
    /\ to = "CONFIRMED" => row.distance # NULL

\* What must have been entered before COMPLETED and before CONFIRMED.
ActualDataReady(row, to) ==
    /\ to = "COMPLETED" => \E f \in FuelRows(row) : row.fuel[f] # NULL
    /\ to = "CONFIRMED" => /\ \A f \in FuelRows(row) : row.fuel[f] # NULL
                           /\ row.distance # NULL

\* needs_recalc goes from false to true only, on every run the UPDATE sees.
Marked(flag) == IF flag = "fresh" THEN "stale" ELSE flag

MarkAnnual == annual' = [r \in Runs |-> Marked(annual[r])]
MarkAnnualIf(changed) == IF changed THEN MarkAnnual ELSE UNCHANGED annual
\* Mutant: stored calculations are not marked.
CalcNotMarked(v) == UNCHANGED calc

MarkCalc(v) == calc' = [calc EXCEPT ![v] = Marked(@)]

-----------------------------------------------------------------------------
(* Operations.                                                             *)

Init ==
    /\ voyages = [v \in Voyages |-> NULL]
    /\ calc = [v \in Voyages |-> "none"]
    /\ annual = [r \in Runs |-> "none"]

DraftRow(dep, arr, year, plan, fuels) ==
    [status |-> "DRAFT", policy |-> "EXCLUDE", year |-> year, plan |-> plan,
     planned_dep |-> dep, planned_arr |-> arr,
     actual_dep |-> NULL, actual_arr |-> NULL, distance |-> NULL,
     fuel |-> [f \in Fuels |-> IF f \in fuels THEN NULL ELSE NoRow],
     is_deleted |-> FALSE]

\* Mutant: the order of the planned times is not checked.
CreateUnordered(v, dep, arr, year, plan, fuels) ==
    /\ ~Stored(v)
    /\ fuels # {}
    /\ YearSpanned(year, dep, arr)
    /\ voyages' = [voyages EXCEPT ![v] = DraftRow(dep, arr, year, plan, fuels)]
    /\ MarkAnnual
    /\ UNCHANGED calc

CreateVoyage(v, dep, arr, year, plan, fuels) ==
    /\ ~Stored(v)
    /\ fuels # {}
    /\ TimeOrder(dep, arr)
    /\ YearSpanned(year, dep, arr)
    /\ voyages' = [voyages EXCEPT ![v] = DraftRow(dep, arr, year, plan, fuels)]
    /\ MarkAnnual
    /\ UNCHANGED calc

\* The guarded fields of a PATCH; KEEP in each of them is a request that
\* edits other columns only and changes nothing this module keeps.
PlanPatches ==
    [plan        : Plans \cup {KEEP},
     planned_dep : Instant \cup {KEEP},
     planned_arr : Instant \cup {KEEP},
     year        : Years \cup {NULL, KEEP}]

Sent(patch) == {field \in DOMAIN patch : patch[field] # KEEP}

\* Mutant: a PATCH of the year may bring other guarded fields along.
YearAmongOthers(patch) == "year" \in Sent(patch) /\ patch.year # NULL

\* The PATCH that sets a year and no other guarded field.
YearOnly(patch) == Sent(patch) = {"year"} /\ patch.year # NULL

\* A confirmed voyage without a year may be given its first one, and then
\* counts as an actual.
ConfirmedFirstFill(row, patch) ==
    /\ YearOnly(patch)
    /\ row.status = "CONFIRMED"
    /\ row.year = NULL
    /\ row.policy = "EXCLUDE"

MayEditPlan(row, patch) ==
    \/ row.status \in PlanningStatuses
    \/ YearOnly(patch) /\ row.status \in ActualsAllowedStatuses
    \/ ConfirmedFirstFill(row, patch)

Patched(row, patch) ==
    [row EXCEPT !.plan = Given(patch.plan, @),
                !.planned_dep = Given(patch.planned_dep, @),
                !.planned_arr = Given(patch.planned_arr, @),
                !.year = Given(patch.year, @),
                !.policy = IF ConfirmedFirstFill(row, patch)
                             THEN "INCLUDE_AS_ACTUAL" ELSE @]

UpdateVoyage(v, patch) ==
    LET row == voyages[v]
        new == Patched(row, patch)
        times == AttributionTimes(row, new)
    IN  /\ Live(v)
        /\ Sent(patch) # {}
        /\ patch.year = NULL => row.policy = "EXCLUDE"
        /\ MayEditPlan(row, patch)
        /\ Sent(patch) \cap {"planned_dep", "planned_arr"} # {} =>
               TimeOrder(new.planned_dep, new.planned_arr)
        /\ Sent(patch) # {"plan"} => YearSpanned(new.year, times[1], times[2])
        /\ voyages' = [voyages EXCEPT ![v] = new]
        /\ MarkAnnualIf(new # row)
        /\ MarkCalc(v)

\* The policy after a transition: the one asked for, EXCLUDE where the new
\* status allows nothing else, or the present one.
PolicyAfter(row, to, choice) ==
    IF choice # KEEP THEN choice
    ELSE IF PolicyByStatus[to] = {"EXCLUDE"} THEN "EXCLUDE"
    ELSE row.policy

\* Mutant: a voyage without a year may be included.
MayTransitionWithoutYear(row, to, choice) ==
    /\ to \in Transitions[row.status]
    /\ PolicyAfter(row, to, choice) \in PolicyByStatus[to]
    /\ ActualDataReady(row, to)

MayTransition(row, to, choice) ==
    /\ to \in Transitions[row.status]
    /\ PolicyAfter(row, to, choice) \in PolicyByStatus[to]
    /\ choice \notin {KEEP, "EXCLUDE"} => row.year # NULL
    /\ ActualDataReady(row, to)

Transitioned(row, to, choice) ==
    [row EXCEPT !.status = to, !.policy = PolicyAfter(row, to, choice)]

\* Mutant: a transition marks no annual run.
TransitionUnmarked(v, to, choice) ==
    /\ Live(v)
    /\ MayTransition(voyages[v], to, choice)
    /\ voyages' = [voyages EXCEPT ![v] = Transitioned(@, to, choice)]
    /\ UNCHANGED <<calc, annual>>

TransitionVoyage(v, to, choice) ==
    /\ Live(v)
    /\ MayTransition(voyages[v], to, choice)
    /\ voyages' = [voyages EXCEPT ![v] = Transitioned(@, to, choice)]
    /\ MarkAnnual
    /\ UNCHANGED calc

\* Mutant: a change of inclusion marks no annual run.
SetInclusionUnmarked(v, policy) ==
    /\ Live(v)
    /\ voyages[v].status = "CONFIRMED"
    /\ policy \in PolicyByStatus["CONFIRMED"]
    /\ policy # "EXCLUDE" => voyages[v].year # NULL
    /\ voyages' = [voyages EXCEPT ![v].policy = policy]
    /\ UNCHANGED <<calc, annual>>

SetConfirmedInclusion(v, policy) ==
    /\ Live(v)
    /\ voyages[v].status = "CONFIRMED"
    /\ policy \in PolicyByStatus["CONFIRMED"]
    /\ policy # "EXCLUDE" => voyages[v].year # NULL
    /\ voyages' = [voyages EXCEPT ![v].policy = policy]
    /\ MarkAnnualIf(voyages[v].policy # policy)
    /\ UNCHANGED calc

HardDeleteVoyage(v) ==
    /\ Live(v)
    /\ voyages[v].status \in HardDeleteStatuses
    /\ calc[v] = "none"
    /\ voyages' = [voyages EXCEPT ![v] = NULL]
    /\ MarkAnnual
    /\ UNCHANGED calc

\* Mutant: hiding a voyage marks no annual run.
SoftDeleteUnmarked(v) ==
    /\ Live(v)
    /\ voyages[v].status \in SoftDeleteStatuses
    /\ voyages' = [voyages EXCEPT ![v].is_deleted = TRUE]
    /\ UNCHANGED <<calc, annual>>

SoftDeleteVoyage(v) ==
    /\ Live(v)
    /\ voyages[v].status \in SoftDeleteStatuses
    /\ voyages' = [voyages EXCEPT ![v].is_deleted = TRUE]
    /\ MarkAnnual
    /\ UNCHANGED calc

ActualsRequests ==
    [actual_dep : Instant \cup {KEEP},
     actual_arr : Instant \cup {KEEP},
     distance   : Distances \cup {NULL, KEEP},
     fuel       : [Fuels -> Tons \cup {KEEP}]]

WithActuals(row, request) ==
    [row EXCEPT !.actual_dep = Given(request.actual_dep, @),
                !.actual_arr = Given(request.actual_arr, @),
                !.distance = Given(request.distance, @),
                !.fuel = [f \in Fuels |-> Given(request.fuel[f], row.fuel[f])]]

\* Instants a person enters are not in the future; every instant of Times
\* is taken to be past already.
SetActuals(v, request) ==
    LET row == voyages[v]
        new == WithActuals(row, request)
    IN  /\ Live(v)
        /\ row.status \in ActualsAllowedStatuses
        /\ request.actual_dep # KEEP \/ request.actual_arr # KEEP =>
               /\ TimeOrder(new.actual_dep, new.actual_arr)
               /\ YearSpanned(row.year, new.actual_dep, new.actual_arr)
        /\ voyages' = [voyages EXCEPT ![v] = new]
        /\ MarkAnnualIf(new # row)
        /\ UNCHANGED calc

\* A confirmed voyage is first taken back to COMPLETED, in the same
\* transaction and with the guards of that transition.
Reverted(row) ==
    IF row.status = "CONFIRMED" THEN Transitioned(row, "COMPLETED", KEEP) ELSE row

MayRevert(row) ==
    row.status = "CONFIRMED" => MayTransition(row, "COMPLETED", KEEP)

\* The actual departure or arrival takes the instant of a call record.
FillFromPublicRecord(v, field, instant) ==
    LET row == voyages[v]
        new == IF field = "actual_dep"
                 THEN [Reverted(row) EXCEPT !.actual_dep = instant]
                 ELSE [Reverted(row) EXCEPT !.actual_arr = instant]
    IN  /\ Live(v)
        /\ row.status \in ActualsAllowedStatuses \cup {"CONFIRMED"}
        /\ MayRevert(row)
        /\ TimeOrder(new.actual_dep, new.actual_arr)
        /\ voyages' = [voyages EXCEPT ![v] = new]
        /\ MarkAnnualIf(new # row)
        /\ UNCHANGED calc

\* The same for a berth period of the voyage: the voyage itself changes only
\* by the reversal, the period's instant may or may not be a new one.
FillBerthFromPublicRecord(v, changed) ==
    LET row == voyages[v]
    IN  /\ Live(v)
        /\ MayRevert(row)
        /\ voyages' = [voyages EXCEPT ![v] = Reverted(row)]
        /\ MarkAnnualIf(changed \/ Reverted(row) # row)
        /\ UNCHANGED calc

\* The plan of an adopted scenario replaces that of the voyage; the arrival
\* follows from its duration where a departure is planned.
AdoptPlan(v, plan, arr) ==
    LET row == voyages[v]
        new == [row EXCEPT !.plan = plan,
                           !.planned_arr = IF row.planned_dep = NULL THEN @ ELSE arr]
    IN  /\ Live(v)
        /\ row.status \in PlanningStatuses
        /\ row.planned_dep # NULL =>
               /\ row.planned_dep < arr
               /\ YearSpanned(row.year, row.planned_dep, arr)
        /\ voyages' = [voyages EXCEPT ![v] = new]
        /\ MarkAnnualIf(new # row)
        /\ MarkCalc(v)

\* estimate_voyage_cii stores a run that refers to the voyage.  It looked for
\* the voyage without a lock, so the voyage may have been hidden since; one
\* that is gone for good fails the foreign key of the INSERT.
EstimateVoyage(v) ==
    /\ Stored(v)
    /\ calc' = [calc EXCEPT ![v] = "fresh"]
    /\ UNCHANGED <<voyages, annual>>

\* run_annual_simulation stores its run, with needs_recalc false.
SaveAnnualRun(r) ==
    /\ annual[r] = "none"
    /\ annual' = [annual EXCEPT ![r] = "fresh"]
    /\ UNCHANGED <<voyages, calc>>

EditPlan(v) ==
    \/ \E dep, arr \in Instant, year \in Years \cup {NULL}, plan \in Plans,
          fuels \in SUBSET Fuels : CreateVoyage(v, dep, arr, year, plan, fuels)
    \/ Live(v) /\ \E patch \in PlanPatches : UpdateVoyage(v, patch)
    \/ \E plan \in Plans, arr \in Times : AdoptPlan(v, plan, arr)

EditStatus(v) ==
    \/ \E to \in Statuses, choice \in Policies \cup {KEEP} :
           TransitionVoyage(v, to, choice)
    \/ \E policy \in Policies : SetConfirmedInclusion(v, policy)
    \/ HardDeleteVoyage(v)
    \/ SoftDeleteVoyage(v)

EditActuals(v) ==
    \/ Live(v) /\ \E request \in ActualsRequests : SetActuals(v, request)
    \/ \E field \in {"actual_dep", "actual_arr"}, instant \in RecordTimes :
           FillFromPublicRecord(v, field, instant)
    \/ \E changed \in BOOLEAN : FillBerthFromPublicRecord(v, changed)

Edit(v) == EditPlan(v) \/ EditStatus(v) \/ EditActuals(v) \/ EstimateVoyage(v)

Next ==
    \/ \E v \in Voyages : Edit(v)
    \/ \E r \in Runs : SaveAnnualRun(r)

Spec == Init /\ [][Next]_vars

-----------------------------------------------------------------------------
(* What an annual simulation of the vessel reads of its voyages: the rows  *)
(* a policy includes, with the columns its result depends on.  The arrival *)
(* decides whether an actual falls before the run's cut-off.               *)

AnnualView(row) ==
    IF row = NULL \/ row.is_deleted \/ row.policy = "EXCLUDE" THEN NULL
    ELSE [kind     |-> row.policy,
          year     |-> row.year,
          plan     |-> row.plan,
          distance |-> row.distance,
          fuel     |-> row.fuel,
          arrival  |-> IF row.policy = "INCLUDE_AS_PLAN" THEN NULL
                       ELSE IF row.actual_arr = NULL THEN row.planned_arr
                       ELSE row.actual_arr]

AnnualInput == [v \in Voyages |-> AnnualView(voyages[v])]

-----------------------------------------------------------------------------
(* The coarse life of a voyage that VoyageStages promises.                 *)

StageOf == [DRAFT |-> "planning", PLANNED |-> "planning",
            IN_PROGRESS |-> "sailing", CANCELLED |-> "cancelled",
            COMPLETED |-> "done", CONFIRMED |-> "done", ARCHIVED |-> "done"]

Stage(row) ==
    IF row = NULL THEN "none"
    ELSE IF row.is_deleted THEN "hidden"
    ELSE StageOf[row.status]

Life == INSTANCE VoyageStages WITH stage <- [v \in Voyages |-> Stage(voyages[v])]

-----------------------------------------------------------------------------
(* Properties.                                                             *)

\* A status carries only a policy that belongs to it, and an included
\* voyage has a year to be counted in: the triggers chk_status_policy and
\* chk_year_policy never have to refuse what the service writes.
StatusPolicyYear ==
    \A v \in Voyages : Stored(v) =>
        /\ voyages[v].policy \in PolicyByStatus[voyages[v].status]
        /\ voyages[v].policy # "EXCLUDE" => voyages[v].year # NULL

\* Both pairs of instants stay in order however they are filled in: one
\* end at a time, by a person, by a PATCH or from a public record.
TimesOrdered ==
    \A v \in Voyages : Stored(v) =>
        /\ TimeOrder(voyages[v].planned_dep, voyages[v].planned_arr)
        /\ TimeOrder(voyages[v].actual_dep, voyages[v].actual_arr)

\* While a voyage is still planned its year is one its planned times touch,
\* whichever of the three was edited last.
PlanYearSpanned ==
    \A v \in Voyages :
        Stored(v) /\ voyages[v].status \in PlanningStatuses =>
            YearSpanned(voyages[v].year, voyages[v].planned_dep,
                        voyages[v].planned_arr)

\* Once the actual departure is known, the year is one the actual times
\* touch: counting a voyage in another year silently changes two annual
\* totals (_require_regulation_year).
ActualYearSpanned ==
    \A v \in Voyages :
        Stored(v) => YearSpanned(voyages[v].year, voyages[v].actual_dep,
                                 voyages[v].actual_arr)

\* A confirmed voyage has its distance and every fuel it lists, and nothing
\* that happens to it afterwards takes one of them away.
ConfirmedComplete ==
    \A v \in Voyages :
        Stored(v) /\ voyages[v].status \in {"CONFIRMED", "ARCHIVED"} =>
            /\ voyages[v].distance # NULL
            /\ \A f \in Fuels : voyages[v].fuel[f] # NULL

\* A stored calculation never refers to a row that was really deleted.
CalculationKeepsRow == \A v \in Voyages : calc[v] # "none" => Stored(v)

Actuals(row) == <<row.actual_dep, row.actual_arr, row.distance, row.fuel>>
PlanValues(row) == <<row.plan, row.planned_dep, row.planned_arr>>

SettledKeepsActuals ==
    \A v \in Voyages :
        Stored(v) /\ voyages[v].status \in {"CONFIRMED", "ARCHIVED"} =>
            /\ Stored(v)'
            /\ voyages'[v].status \in {"CONFIRMED", "ARCHIVED"} =>
                   Actuals(voyages'[v]) = Actuals(voyages[v])

\* The actuals of a confirmed or archived voyage do not change while it
\* stays so; a change first takes the voyage back to COMPLETED.
ConfirmedActualsFrozen == [][SettledKeepsActuals]_vars

DepartedKeepsPlan ==
    \A v \in Voyages :
        Stored(v) /\ Stored(v)' /\ voyages[v].status \notin PlanningStatuses =>
            PlanValues(voyages'[v]) = PlanValues(voyages[v])

\* After departure the plan is history: no operation rewrites it, so plan
\* and actual can be compared later.
PlanFrozenAfterDeparture == [][DepartedKeepsPlan]_vars

MarksAnnualRuns ==
    AnnualInput' # AnnualInput =>
        \A r \in Runs : annual[r] = "fresh" => annual'[r] = "stale"

\* Whatever changes what an annual run reads marks, in the same step, every
\* stored run of the vessel that was still valid.
ChangeMarksAnnualRuns == [][MarksAnnualRuns]_vars

MarksCalculation ==
    \A v \in Voyages :
        /\ Stored(v) /\ Stored(v)'
        /\ \/ PlanValues(voyages'[v]) # PlanValues(voyages[v])
           \/ voyages'[v].year # voyages[v].year
        => calc'[v] # "fresh"

\* Whatever changes the plan or the year of a voyage marks its stored
\* calculation.
PlanChangeMarksCalculation == [][MarksCalculation]_vars

\* The operations implement the life of a voyage that VoyageStages
\* describes: a voyage sailed to its end is never taken out of the database,
\* and no status is reached from one the tables do not lead from.
ImplementsStages == Life!SpecStages
=============================================================================
