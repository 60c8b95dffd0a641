------------------------------ MODULE YearViews ------------------------------
(***************************************************************************)
(* What the screens read of the voyages of one vessel for one year: the    *)
(* queries of db/repositories/voyage.py and the services that put them     *)
(* together, the running total (services/ytd_cii.py), the year-end         *)
(* projection (services/cii_current.py over services/annual_simulation.py) *)
(* and the data check (services/data_quality.py).                          *)
(*                                                                         *)
(* They decide by different columns which voyages count: by policy, by     *)
(* status, by year, by arrival, by what has been entered.  That their      *)
(* answers fit together is no rule of any of them; it follows, where it    *)
(* does, from what VoyageLifecycle lets into the rows.  This module has no *)
(* actions of its own.                                                     *)
(*                                                                         *)
(* Abstracted: the numbers.  A distance or a tonnage is either there or    *)
(* replaced by the plan's; progress is the time under way; the vessel has  *)
(* a speed and a daily consumption; stays at berth are left out.           *)
(***************************************************************************)
EXTENDS VoyageLifecycle

-----------------------------------------------------------------------------
(* The queries.                                                            *)

\* COALESCE(actual_arrival_at, planned_arrival_at)
Arrival(row) == IF row.actual_arr = NULL THEN row.planned_arr ELSE row.actual_arr

\* Mutant: an arrival that is not known counts as still to come.
ArrivedForSure(row, at) == Arrival(row) # NULL /\ Arrival(row) =< at

\* An arrival that is not known does not keep a voyage out.
ArrivedBy(row, at) == Arrival(row) = NULL \/ Arrival(row) =< at

Included(v, year, policy) ==
    Live(v) /\ voyages[v].year = year /\ voyages[v].policy = policy

AnnualInclusions(year, at) ==
    {v \in Voyages : /\ Included(v, year, "INCLUDE_AS_ACTUAL")
                     /\ ArrivedBy(voyages[v], at)}

\* No date cuts the remaining plans: one whose arrival is overdue has not
\* arrived.
RemainingPlans(year) == {v \in Voyages : Included(v, year, "INCLUDE_AS_PLAN")}

InProgress == {v \in Voyages : Live(v) /\ voyages[v].status = "IN_PROGRESS"}

\* v left later than w; one without a departure comes last.
LeftLater(v, w) ==
    /\ voyages[v].actual_dep # NULL
    /\ voyages[w].actual_dep # NULL => voyages[w].actual_dep < voyages[v].actual_dep

\* The one voyage in progress the screens show, whatever its year; among
\* equals the id decides, which is left open here.
FindInProgress == {v \in InProgress : \A w \in InProgress : ~LeftLater(w, v)}

-----------------------------------------------------------------------------
(* The simulation clock and what a voyage in progress contributes.         *)

Departure(row) == IF row.actual_dep = NULL THEN row.planned_dep ELSE row.actual_dep

\* The progress counts up to the arrival or, where none is recorded, up to
\* the planned one.
WindowEnd(row, at) ==
    IF Arrival(row) # NULL /\ Arrival(row) =< at THEN Arrival(row) ELSE at

UnderWay(row, at) == Departure(row) # NULL /\ Departure(row) < WindowEnd(row, at)

\* Mutant: the policy of the voyage is not looked at.
ContributesWhateverPolicy(v, year, at) ==
    /\ v \in FindInProgress
    /\ voyages[v].year \in {NULL, year}
    /\ UnderWay(voyages[v], at)

\* A voyage that has declared another year is left out; one that has
\* declared none is not.
Contributes(v, year, at) ==
    /\ v \in FindInProgress
    /\ voyages[v].year \in {NULL, year}
    /\ voyages[v].policy = "INCLUDE_AS_PLAN"
    /\ UnderWay(voyages[v], at)

-----------------------------------------------------------------------------
(* The running total.                                                      *)

NoFuelRecord(row) == FuelRows(row) = {}

\* What the total takes from the plan because no actual value is there.
Substitutions(row) ==
    {f \in FuelRows(row) : row.fuel[f] = NULL}
        \cup (IF row.distance = NULL THEN {"DISTANCE"} ELSE {})

\* The warnings of the total; a planned tonnage counts as one.
TotalWarnings(year, at) ==
    LET rows == {voyages[v] : v \in AnnualInclusions(year, at)}
    IN  {code \in {"COMPLETED_NO_FUEL", "COMPLETED_NO_DISTANCE",
                   "COMPLETED_FUEL_UNFILLED"} :
            \E row \in rows :
                CASE code = "COMPLETED_NO_FUEL" -> Substitutions(row) \cap Fuels # {}
                  [] code = "COMPLETED_NO_DISTANCE" -> "DISTANCE" \in Substitutions(row)
                  [] OTHER -> NoFuelRecord(row)}

Counted(v, year, at) == v \in AnnualInclusions(year, at) \/ Contributes(v, year, at)

\* There is a total if what counts has a distance, which every voyage has,
\* and some fuel.
DataAvailable(counted) ==
    \E v \in counted : voyages[v].status # "IN_PROGRESS" => ~NoFuelRecord(voyages[v])

YtdTotal(year, at) ==
    LET counted == {v \in Voyages : Counted(v, year, at)}
    IN  [voyages        |-> counted,
         data_available |-> DataAvailable(counted),
         warnings       |-> TotalWarnings(year, at)]

-----------------------------------------------------------------------------
(* The snapshot of an annual run, and the year-end projection made of it.  *)

SnapshotRow(row) ==
    [kind |-> IF row.policy = "INCLUDE_AS_ACTUAL" THEN "ACTUAL" ELSE "PLAN",
     plan |-> row.plan, distance |-> row.distance, fuel |-> row.fuel]

Snapshot(year, at) ==
    [v \in AnnualInclusions(year, at) \cup RemainingPlans(year) |->
        SnapshotRow(voyages[v])]

\* Mutant: one tonnage is enough for a pair.
PairsOfSomeFuel(snapshot) ==
    {v \in DOMAIN snapshot :
        /\ snapshot[v].kind = "ACTUAL"
        /\ snapshot[v].distance # NULL
        /\ \E f \in FuelRows(snapshot[v]) : snapshot[v].fuel[f] # NULL}

\* Pairs of planned and actual values for the feedback factor: only voyages
\* all of whose actual values are there.
CompletedPairs(snapshot) ==
    {v \in DOMAIN snapshot :
        /\ snapshot[v].kind = "ACTUAL"
        /\ snapshot[v].distance # NULL
        /\ ~NoFuelRecord(snapshot[v])
        /\ \A f \in FuelRows(snapshot[v]) : snapshot[v].fuel[f] # NULL}

\* Actuals count with their distance even if no fuel is recorded; a plan
\* without a fuel row is left out, with a warning.
ProjectionInput(snapshot) ==
    LET plans == {v \in DOMAIN snapshot : snapshot[v].kind = "PLAN"}
        dry == {v \in plans : NoFuelRecord(snapshot[v])}
    IN  [completed |-> DOMAIN snapshot \ plans,
         remaining |-> plans \ dry,
         warnings  |-> IF dry = {} THEN {} ELSE {"PLAN_NO_FUEL"}]

YearEnd(year, at) == ProjectionInput(Snapshot(year, at))

\* The steps from the total to the year-end value: the voyage in progress in
\* full, instead of its elapsed part, is the first.
CurrentVoyageInFull(year, at) ==
    {v \in FindInProgress : v \in YearEnd(year, at).remaining}

-----------------------------------------------------------------------------
(* The data check.                                                         *)

\* Whether a voyage is anomalous depends on numbers and is left open.
Severities(row, anomalous) ==
    {severity \in {"SUBSTITUTED", "UNAVAILABLE", "ANOMALY", "UNCONFIRMED"} :
        CASE severity = "SUBSTITUTED" -> Substitutions(row) # {}
          [] severity = "UNAVAILABLE" -> NoFuelRecord(row)
          [] severity = "ANOMALY"     -> anomalous
          [] OTHER                    -> row.status = "COMPLETED"}

\* The one axis a voyage's emissions are booked on.
CompletenessAxis(row, anomalous) ==
    LET found == Severities(row, anomalous)
    IN  IF "UNAVAILABLE" \in found THEN "UNAVAILABLE"
        ELSE IF "SUBSTITUTED" \in found THEN "SUBSTITUTED"
        ELSE IF "ANOMALY" \in found THEN "ANOMALY"
        ELSE "MEASURED"

\* The data check asks for the total of the year without a cut.
Everything(year) == {v \in Voyages : Included(v, year, "INCLUDE_AS_ACTUAL")}

\* A vessel whose voyages add up to nothing is reported as unavailable.
VesselReason(year) ==
    IF Everything(year) # {} /\ ~DataAvailable(Everything(year)) THEN "NO_DATA" ELSE "none"

\* What a voyage's values move: nothing to compare with if it is alone.
Impact(v, year) ==
    IF ~DataAvailable(Everything(year)) THEN "BASE_UNAVAILABLE"
    ELSE IF ~DataAvailable(Everything(year) \ {v}) THEN "ONLY_VOYAGE"
    ELSE "delta"

-----------------------------------------------------------------------------
(* Properties.                                                             *)

\* The elapsed part of the voyage in progress is in the running total of a
\* year only if the year-end projection of that year holds the voyage in
\* full: the drivers of the projection always have both ends.  The voyage is
\* found by status and kept when it has no year; the plans are found by
\* policy and year.
ProgressIsPlanned ==
    \A v \in Voyages, year \in Years, at \in Times :
        Contributes(v, year, at) => v \in CurrentVoyageInFull(year, at)

\* Nothing of a confirmed voyage is replaced by its plan: in the data check
\* its emissions are measured unless the numbers are anomalous, it feeds the
\* feedback factor, its vessel has a total, and a total of confirmed voyages
\* alone carries no warning.
ConfirmedIsMeasured ==
    /\ \A v \in Voyages, year \in Years :
           v \in Everything(year) /\ voyages[v].status = "CONFIRMED" =>
               /\ CompletenessAxis(voyages[v], FALSE) = "MEASURED"
               /\ VesselReason(year) = "none"
               /\ Impact(v, year) # "BASE_UNAVAILABLE"
               /\ \A at \in Times :
                      v \in AnnualInclusions(year, at) =>
                          v \in CompletedPairs(Snapshot(year, at))
    /\ \A year \in Years, at \in Times :
           (\A v \in AnnualInclusions(year, at) : voyages[v].status = "CONFIRMED")
               => YtdTotal(year, at).warnings = {}

\* The feedback factor learns from a voyage exactly when the running total
\* replaced nothing of it, although one decides on the snapshot of a run and
\* the other on the rows.
PairsAreUnsubstituted ==
    \A year \in Years, at \in Times :
        CompletedPairs(Snapshot(year, at)) =
            {v \in AnnualInclusions(year, at) : Substitutions(voyages[v]) = {}}

LandsInTheTotal ==
    \A v \in Voyages, year \in Years, at \in Times :
        /\ Contributes(v, year, at)
        /\ Stored(v)' /\ voyages'[v].status = "COMPLETED"
        /\ voyages'[v].policy # "EXCLUDE"
        => \/ v \in AnnualInclusions(year, at)'
           \/ Arrival(voyages[v]) # NULL /\ Arrival(voyages[v]) > at

\* A voyage that counted while it was in progress and is completed as an
\* included one still counts, in the same year, from the arrival it has: no
\* jump of the total at completion, except that the total waits for an
\* arrival that lies ahead.
CompletionKeepsVoyageCounted == [][LandsInTheTotal]_vars

ProjectionMoves ==
    \E year \in Years, at \in Times : Snapshot(year, at)' # Snapshot(year, at)

\* Whatever changes the snapshot an annual run of any year and cut-off would
\* take marks every stored run that was still valid.
SnapshotChangeMarksRuns ==
    [][ProjectionMoves => \A r \in Runs : annual[r] = "fresh" => annual'[r] = "stale"]_vars
=============================================================================
