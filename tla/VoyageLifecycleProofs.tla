------------------------ MODULE VoyageLifecycleProofs ------------------------
(***************************************************************************)
(* Proofs that VoyageLifecycle keeps its invariants and its rules about    *)
(* steps, implements VoyageStages, fits together in the views of YearViews *)
(* and serves the runs of AnnualRuns, for every set of voyages, years,     *)
(* instants, fuels and runs.                                               *)
(*                                                                         *)
(* IInv is the inductive invariant.  It adds nothing to the properties it  *)
(* proves but their conjunction: the row invariant needs all its parts at  *)
(* once, because a policy other than EXCLUDE is kept by a transition only  *)
(* where the year is there, and the year is edited by rules that look at   *)
(* the status and at the planned times.                                    *)
(***************************************************************************)
EXTENDS YearViews, AnnualRuns, TLAPS

\* What holds of every stored row, whatever was done to it.
RowInv(row) ==
    /\ row.policy \in PolicyByStatus[row.status]
    /\ row.policy # "EXCLUDE" => row.year # NULL
    /\ TimeOrder(row.planned_dep, row.planned_arr)
    /\ TimeOrder(row.actual_dep, row.actual_arr)
    /\ row.status \in PlanningStatuses =>
           YearSpanned(row.year, row.planned_dep, row.planned_arr)
    /\ row.status \in {"CONFIRMED", "ARCHIVED"} =>
           /\ row.distance # NULL
           /\ \A f \in Fuels : row.fuel[f] # NULL

Good(row) == row \in VoyageRow /\ RowInv(row)

\* The inductive invariant.
IInv ==
    /\ TypeOK
    /\ \A v \in Voyages : Stored(v) => RowInv(voyages[v])
    /\ CalculationKeepsRow

\* Where the transition table leads.
LEMMA TransitionTable ==
    ASSUME NEW s \in Statuses, NEW t \in Transitions[s]
    PROVE  /\ t \in Statuses
           /\ t \in PlanningStatuses => s \in PlanningStatuses
           /\ t = "ARCHIVED" => s = "CONFIRMED"
  BY DEF Statuses, Transitions, PlanningStatuses

\* The table of policies: EXCLUDE belongs to every status, and a confirmed
\* voyage may be counted as an actual.
LEMMA PolicyTable ==
    ASSUME NEW s \in Statuses
    PROVE  /\ PolicyByStatus[s] \subseteq Policies
           /\ "EXCLUDE" \in PolicyByStatus[s]
           /\ s = "CONFIRMED" => "INCLUDE_AS_ACTUAL" \in PolicyByStatus[s]
  BY DEF Statuses, PolicyByStatus, Policies

\* What CreateVoyage stores satisfies the row invariant.
LEMMA DraftRowGood ==
    ASSUME NEW dep \in Instant, NEW arr \in Instant, NEW year \in Years \cup {NULL},
           NEW plan \in Plans, NEW fuels \in SUBSET Fuels,
           TimeOrder(dep, arr), YearSpanned(year, dep, arr)
    PROVE  Good(DraftRow(dep, arr, year, plan, fuels))
  <1> DEFINE row == DraftRow(dep, arr, year, plan, fuels)
  <1>1. row \in VoyageRow
    BY DEF DraftRow, VoyageRow, Instant, Statuses, Policies
  <1>2. RowInv(row)
    BY SentinelAssumption, PolicyTable
    DEF DraftRow, RowInv, Statuses, TimeOrder
  <1> QED BY <1>1, <1>2 DEF Good

\* A PATCH that passes the checks of update_voyage keeps the row invariant;
\* the interesting case is the first year given to a confirmed voyage, which
\* changes the policy as well.
LEMMA PatchedGood ==
    ASSUME NEW row, Good(row), NEW patch \in PlanPatches,
           NEW new, new = Patched(row, patch),
           patch.year = NULL => row.policy = "EXCLUDE",
           MayEditPlan(row, patch),
           Sent(patch) \cap {"planned_dep", "planned_arr"} # {} =>
               TimeOrder(new.planned_dep, new.planned_arr),
           Sent(patch) # {"plan"} /\ row.status \in PlanningStatuses =>
               YearSpanned(new.year, new.planned_dep, new.planned_arr)
    PROVE  Good(new)
  <1>1. row \in VoyageRow /\ RowInv(row)
    BY DEF Good
  <1>2. new \in VoyageRow
    <2>1. /\ Given(patch.plan, row.plan) \in Plans
          /\ Given(patch.planned_dep, row.planned_dep) \in Instant
          /\ Given(patch.planned_arr, row.planned_arr) \in Instant
          /\ Given(patch.year, row.year) \in Years \cup {NULL}
      BY <1>1 DEF VoyageRow, PlanPatches, Given
    <2>2. (IF ConfirmedFirstFill(row, patch)
             THEN "INCLUDE_AS_ACTUAL" ELSE row.policy) \in Policies
      BY <1>1 DEF VoyageRow, Policies
    <2> QED BY <1>1, <2>1, <2>2 DEF Patched, VoyageRow
  <1>3. /\ new.status = row.status
        /\ new.plan = Given(patch.plan, row.plan)
        /\ new.planned_dep = Given(patch.planned_dep, row.planned_dep)
        /\ new.planned_arr = Given(patch.planned_arr, row.planned_arr)
        /\ new.year = Given(patch.year, row.year)
        /\ new.policy = IF ConfirmedFirstFill(row, patch)
                          THEN "INCLUDE_AS_ACTUAL" ELSE row.policy
        /\ new.actual_dep = row.actual_dep
        /\ new.actual_arr = row.actual_arr
        /\ new.distance = row.distance
        /\ new.fuel = row.fuel
    BY <1>1 DEF Patched, VoyageRow
  <1>4. DOMAIN patch = {"plan", "planned_dep", "planned_arr", "year"}
    BY DEF PlanPatches
  <1>5. new.policy \in PolicyByStatus[new.status]
    BY <1>1, <1>3, PolicyTable DEF RowInv, ConfirmedFirstFill, VoyageRow
  <1>6. new.policy # "EXCLUDE" => new.year # NULL
    BY <1>1, <1>3, <1>4, SentinelAssumption
    DEF RowInv, ConfirmedFirstFill, YearOnly, Sent, Given
  <1>7. TimeOrder(new.planned_dep, new.planned_arr)
    BY <1>1, <1>3, <1>4 DEF RowInv, Sent, Given
  <1>8. row.status \in PlanningStatuses =>
            YearSpanned(new.year, new.planned_dep, new.planned_arr)
    BY <1>1, <1>3, <1>4 DEF RowInv, Sent, Given
  <1> QED BY <1>1, <1>2, <1>3, <1>5, <1>6, <1>7, <1>8 DEF Good, RowInv

\* A transition keeps the row invariant: what ConfirmedComplete asks for is
\* what ActualDataReady demands on the way into CONFIRMED.
LEMMA TransitionedGood ==
    ASSUME NEW row, Good(row), NEW to, NEW choice \in Policies \cup {KEEP},
           MayTransition(row, to, choice)
    PROVE  Good(Transitioned(row, to, choice))
  <1> DEFINE new == Transitioned(row, to, choice)
  <1>1. row \in VoyageRow /\ RowInv(row)
    BY DEF Good
  <1>2. /\ row.status \in Statuses
        /\ to \in Transitions[row.status]
    BY <1>1 DEF VoyageRow, MayTransition
  <1>3. /\ to \in Statuses
        /\ to \in PlanningStatuses => row.status \in PlanningStatuses
        /\ to = "ARCHIVED" => row.status = "CONFIRMED"
    BY <1>2, TransitionTable
  <1>4. /\ PolicyAfter(row, to, choice) \in PolicyByStatus[to]
        /\ PolicyAfter(row, to, choice) \in Policies
    BY <1>3, PolicyTable DEF MayTransition
  <1>5. new \in VoyageRow
    BY <1>1, <1>3, <1>4 DEF Transitioned, VoyageRow
  <1>6. /\ new.status = to
        /\ new.policy = PolicyAfter(row, to, choice)
        /\ new.year = row.year
        /\ new.planned_dep = row.planned_dep
        /\ new.planned_arr = row.planned_arr
        /\ new.actual_dep = row.actual_dep
        /\ new.actual_arr = row.actual_arr
        /\ new.distance = row.distance
        /\ new.fuel = row.fuel
    BY <1>1 DEF Transitioned, VoyageRow
  <1>7. new.policy # "EXCLUDE" => new.year # NULL
    BY <1>1, <1>6 DEF PolicyAfter, MayTransition, RowInv
  <1>8. to \in {"CONFIRMED", "ARCHIVED"} =>
            /\ row.distance # NULL
            /\ \A f \in Fuels : row.fuel[f] # NULL
    BY <1>1, <1>3, SentinelAssumption
    DEF MayTransition, ActualDataReady, FuelRows, RowInv
  <1> QED BY <1>1, <1>3, <1>4, <1>5, <1>6, <1>7, <1>8 DEF Good, RowInv

\* Entered actuals keep the row invariant.
LEMMA WithActualsGood ==
    ASSUME NEW row, Good(row), row.status \in ActualsAllowedStatuses,
           NEW request \in ActualsRequests,
           NEW new, new = WithActuals(row, request),
           request.actual_dep # KEEP \/ request.actual_arr # KEEP =>
               TimeOrder(new.actual_dep, new.actual_arr)
    PROVE  Good(new)
  <1>1. row \in VoyageRow /\ RowInv(row)
    BY DEF Good
  <1>2. new \in VoyageRow
    <2>1. [f \in Fuels |-> Given(request.fuel[f], row.fuel[f])]
              \in [Fuels -> Tons \cup {NULL, NoRow}]
      BY <1>1 DEF VoyageRow, ActualsRequests, Given
    <2>2. /\ Given(request.actual_dep, row.actual_dep) \in Instant
          /\ Given(request.actual_arr, row.actual_arr) \in Instant
          /\ Given(request.distance, row.distance) \in Distances \cup {NULL}
      BY <1>1 DEF VoyageRow, ActualsRequests, Given
    <2> QED BY <1>1, <2>1, <2>2 DEF WithActuals, VoyageRow
  <1>3. /\ new.status = row.status
        /\ new.policy = row.policy
        /\ new.year = row.year
        /\ new.planned_dep = row.planned_dep
        /\ new.planned_arr = row.planned_arr
        /\ new.actual_dep = Given(request.actual_dep, row.actual_dep)
        /\ new.actual_arr = Given(request.actual_arr, row.actual_arr)
    BY <1>1 DEF WithActuals, VoyageRow
  <1>4. TimeOrder(new.actual_dep, new.actual_arr)
    BY <1>1, <1>3 DEF RowInv, Given
  <1>5. new.status \notin PlanningStatuses \cup {"CONFIRMED", "ARCHIVED"}
    BY <1>3 DEF ActualsAllowedStatuses, PlanningStatuses
  <1> QED BY <1>1, <1>2, <1>3, <1>4, <1>5 DEF Good, RowInv

\* The reversal of a confirmed voyage is a transition, so it keeps the row
\* invariant, and it leaves a status in which actuals may be written.
LEMMA RevertedGood ==
    ASSUME NEW row, Good(row), MayRevert(row)
    PROVE  /\ Good(Reverted(row))
           /\ row.status \in ActualsAllowedStatuses \cup {"CONFIRMED"} =>
                  Reverted(row).status \in ActualsAllowedStatuses
  <1>1. CASE row.status = "CONFIRMED"
    <2>1. Good(Transitioned(row, "COMPLETED", KEEP))
      BY <1>1, TransitionedGood DEF MayRevert
    <2>2. Transitioned(row, "COMPLETED", KEEP).status = "COMPLETED"
      BY DEF Good, VoyageRow, Transitioned
    <2> QED BY <1>1, <2>1, <2>2 DEF Reverted, ActualsAllowedStatuses
  <1>2. CASE row.status # "CONFIRMED"
    BY <1>2 DEF Reverted
  <1> QED BY <1>1, <1>2

\* The plan of an adopted scenario keeps the row invariant.
LEMMA AdoptedGood ==
    ASSUME NEW row, Good(row), row.status \in PlanningStatuses,
           NEW plan \in Plans, NEW arr \in Times,
           row.planned_dep # NULL =>
               row.planned_dep < arr /\ YearSpanned(row.year, row.planned_dep, arr)
    PROVE  Good([row EXCEPT !.plan = plan,
                            !.planned_arr = IF row.planned_dep = NULL THEN @ ELSE arr])
  <1> DEFINE new == [row EXCEPT !.plan = plan,
                        !.planned_arr = IF row.planned_dep = NULL THEN @ ELSE arr]
  <1>1. row \in VoyageRow /\ RowInv(row)
    BY DEF Good
  <1>2. new \in VoyageRow
    BY <1>1 DEF VoyageRow, Instant
  <1>3. /\ new.status = row.status
        /\ new.policy = row.policy
        /\ new.year = row.year
        /\ new.planned_dep = row.planned_dep
        /\ new.planned_arr = (IF row.planned_dep = NULL THEN row.planned_arr ELSE arr)
        /\ new.actual_dep = row.actual_dep
        /\ new.actual_arr = row.actual_arr
        /\ new.distance = row.distance
        /\ new.fuel = row.fuel
    BY <1>1 DEF VoyageRow
  <1>4. /\ TimeOrder(new.planned_dep, new.planned_arr)
        /\ YearSpanned(new.year, new.planned_dep, new.planned_arr)
    BY <1>1, <1>3 DEF RowInv, TimeOrder, YearSpanned
  <1> QED BY <1>1, <1>2, <1>3, <1>4 DEF Good, RowInv

-----------------------------------------------------------------------------

\* Marking keeps the types, and invents no run that was not stored.
LEMMA MarkType ==
    ASSUME TypeOK
    PROVE  /\ MarkAnnual => annual' \in [Runs -> Flags]
           /\ \A v \in Voyages :
                  MarkCalc(v) => /\ calc' \in [Voyages -> Flags]
                                 /\ \A w \in Voyages : calc'[w] # "none" => calc[w] # "none"
  <1>1. \A flag \in Flags : Marked(flag) \in Flags /\ (Marked(flag) # "none" => flag # "none")
    BY DEF Flags, Marked
  <1> QED BY <1>1 DEF TypeOK, MarkAnnual, MarkCalc

\* What an assignment to one row changes.
LEMMA RowReplaced ==
    ASSUME TypeOK, NEW v \in Voyages, NEW new,
           voyages' = [voyages EXCEPT ![v] = new]
    PROVE  /\ voyages'[v] = new
           /\ \A w \in Voyages \ {v} : voyages'[w] = voyages[w]
           /\ new = voyages[v] => voyages' = voyages
  BY DEF TypeOK

\* The invariant, read at one live row.
LEMMA StoredGood ==
    ASSUME IInv, NEW v \in Voyages, Live(v)
    PROVE  Good(voyages[v])
  BY DEF IInv, TypeOK, Live, Stored, Good

\* A step that replaces one row by a good one, or removes the row of a
\* voyage no calculation refers to, preserves the invariant.
LEMMA Preserved ==
    ASSUME IInv, NEW v \in Voyages, NEW new,
           voyages' = [voyages EXCEPT ![v] = new],
           (new = NULL /\ calc[v] = "none") \/ Good(new),
           MarkAnnual \/ UNCHANGED annual,
           MarkCalc(v) \/ UNCHANGED calc
    PROVE  IInv' /\ (Good(new) => Stored(v)')
  <1>1. TypeOK
    BY DEF IInv
  <1>2. voyages' \in [Voyages -> VoyageRow \cup {NULL}]
    BY <1>1 DEF TypeOK, Good
  <1>3. annual' \in [Runs -> Flags]
    BY <1>1, MarkType DEF TypeOK
  <1>4. calc' \in [Voyages -> Flags] /\ \A w \in Voyages : calc'[w] # "none" => calc[w] # "none"
    BY <1>1, MarkType DEF TypeOK
  <1>5. \A w \in Voyages : voyages'[w] # NULL => RowInv(voyages'[w])
    BY <1>1, RowReplaced DEF IInv, Stored, Good
  <1>6. \A w \in Voyages : calc'[w] # "none" => voyages'[w] # NULL
    BY <1>1, <1>4, RowAssumption, RowReplaced DEF IInv, Stored, CalculationKeepsRow, Good
  <1>7. TypeOK'
    BY <1>2, <1>3, <1>4 DEF TypeOK
  <1>8. CalculationKeepsRow'
    BY <1>6 DEF CalculationKeepsRow, Stored
  <1>9. (\A w \in Voyages : Stored(w) => RowInv(voyages[w]))'
    BY <1>5 DEF Stored, RowInv
  <1>10. Good(new) => Stored(v)'
    BY <1>1, RowReplaced, RowAssumption DEF Good, Stored
  <1> QED BY <1>7, <1>8, <1>9, <1>10 DEF IInv

\* A conditional mark marks all or nothing.
LEMMA MarkIf ==
    ASSUME NEW changed, MarkAnnualIf(changed)
    PROVE  MarkAnnual \/ UNCHANGED annual
  BY DEF MarkAnnualIf

\* Creating, editing and adopting preserve the invariant.
LEMMA EditPlanStep ==
    ASSUME IInv, NEW v \in Voyages, EditPlan(v)
    PROVE  IInv' /\ (Stored(v)' \/ HardDeleteVoyage(v))
  <1>1. ASSUME NEW dep \in Instant, NEW arr \in Instant, NEW year \in Years \cup {NULL},
               NEW plan \in Plans, NEW fuels \in SUBSET Fuels,
               CreateVoyage(v, dep, arr, year, plan, fuels)
        PROVE  IInv' /\ (Stored(v)' \/ HardDeleteVoyage(v))
    <2>1. Good(DraftRow(dep, arr, year, plan, fuels))
      BY <1>1, DraftRowGood DEF CreateVoyage
    <2> QED BY <1>1, <2>1, Preserved DEF CreateVoyage
  <1>2. ASSUME Live(v), NEW patch \in PlanPatches, UpdateVoyage(v, patch)
        PROVE  IInv' /\ (Stored(v)' \/ HardDeleteVoyage(v))
    <2> DEFINE row == voyages[v]
               new == Patched(row, patch)
               times == AttributionTimes(row, new)
    <2>1. Good(row)
      BY <1>2, StoredGood
    <2>2. row.status \in PlanningStatuses =>
              times[1] = new.planned_dep /\ times[2] = new.planned_arr
      BY DEF AttributionTimes, PlanningStatuses
    <2>3. Good(new)
      <3>1. /\ patch.year = NULL => row.policy = "EXCLUDE"
            /\ MayEditPlan(row, patch)
            /\ Sent(patch) \cap {"planned_dep", "planned_arr"} # {} =>
                   TimeOrder(new.planned_dep, new.planned_arr)
            /\ Sent(patch) # {"plan"} => YearSpanned(new.year, times[1], times[2])
        BY <1>2 DEF UpdateVoyage
      <3> HIDE DEF new, row
      <3> QED BY <2>1, <2>2, <3>1, PatchedGood DEF new
    <2>4. voyages' = [voyages EXCEPT ![v] = new] /\ MarkCalc(v) /\ MarkAnnualIf(new # row)
      BY <1>2 DEF UpdateVoyage
    <2> QED BY <2>3, <2>4, Preserved, MarkIf
  <1>3. ASSUME NEW plan \in Plans, NEW arr \in Times, AdoptPlan(v, plan, arr)
        PROVE  IInv' /\ (Stored(v)' \/ HardDeleteVoyage(v))
    <2> DEFINE row == voyages[v]
               new == [row EXCEPT !.plan = plan,
                          !.planned_arr = IF row.planned_dep = NULL THEN @ ELSE arr]
    <2>1. Good(row)
      BY <1>3, StoredGood DEF AdoptPlan
    <2>2. Good(new)
      BY <1>3, <2>1, AdoptedGood DEF AdoptPlan
    <2>3. voyages' = [voyages EXCEPT ![v] = new] /\ MarkCalc(v) /\ MarkAnnualIf(new # row)
      BY <1>3 DEF AdoptPlan
    <2> QED BY <2>2, <2>3, Preserved, MarkIf
  <1> QED BY <1>1, <1>2, <1>3 DEF EditPlan

\* Transitions, inclusion and deletion preserve the invariant; only a hard
\* delete removes the row.
LEMMA EditStatusStep ==
    ASSUME IInv, NEW v \in Voyages, EditStatus(v)
    PROVE  IInv' /\ (Stored(v)' \/ HardDeleteVoyage(v))
  <1>1. ASSUME NEW to \in Statuses, NEW choice \in Policies \cup {KEEP},
               TransitionVoyage(v, to, choice)
        PROVE  IInv' /\ (Stored(v)' \/ HardDeleteVoyage(v))
    <2>1. Good(voyages[v])
      BY <1>1, StoredGood DEF TransitionVoyage
    <2>2. Good(Transitioned(voyages[v], to, choice))
      BY <1>1, <2>1, TransitionedGood DEF TransitionVoyage
    <2> QED BY <1>1, <2>2, Preserved DEF TransitionVoyage
  <1>2. ASSUME NEW policy \in Policies, SetConfirmedInclusion(v, policy)
        PROVE  IInv' /\ (Stored(v)' \/ HardDeleteVoyage(v))
    <2> DEFINE row == voyages[v]
               new == [row EXCEPT !.policy = policy]
    <2>1. Good(row)
      BY <1>2, StoredGood DEF SetConfirmedInclusion
    <2>2. /\ row.status = "CONFIRMED"
          /\ policy \in PolicyByStatus["CONFIRMED"]
          /\ policy # "EXCLUDE" => row.year # NULL
      BY <1>2 DEF SetConfirmedInclusion
    <2>3. Good(new)
      BY <2>1, <2>2 DEF Good, VoyageRow, RowInv, TimeOrder, YearSpanned
    <2>4. voyages' = [voyages EXCEPT ![v] = new]
      BY <1>2 DEF SetConfirmedInclusion
    <2>5. (MarkAnnual \/ UNCHANGED annual) /\ UNCHANGED calc
      BY <1>2 DEF SetConfirmedInclusion, MarkAnnualIf
    <2> QED BY <2>3, <2>4, <2>5, Preserved
  <1>3. CASE HardDeleteVoyage(v)
    BY <1>3, Preserved DEF HardDeleteVoyage
  <1>4. CASE SoftDeleteVoyage(v)
    <2> DEFINE row == voyages[v]
               new == [row EXCEPT !.is_deleted = TRUE]
    <2>1. Good(row)
      BY <1>4, StoredGood DEF SoftDeleteVoyage
    <2>2. Good(new)
      BY <2>1 DEF Good, VoyageRow, RowInv, TimeOrder, YearSpanned
    <2>3. voyages' = [voyages EXCEPT ![v] = new] /\ MarkAnnual /\ UNCHANGED calc
      BY <1>4 DEF SoftDeleteVoyage
    <2> QED BY <2>2, <2>3, Preserved
  <1> QED BY <1>1, <1>2, <1>3, <1>4 DEF EditStatus

\* Entering actuals and filling them from public records preserve the
\* invariant.
LEMMA EditActualsStep ==
    ASSUME IInv, NEW v \in Voyages, EditActuals(v)
    PROVE  IInv' /\ (Stored(v)' \/ HardDeleteVoyage(v))
  <1>1. ASSUME NEW request \in ActualsRequests, SetActuals(v, request)
        PROVE  IInv' /\ (Stored(v)' \/ HardDeleteVoyage(v))
    <2> DEFINE row == voyages[v]
               new == WithActuals(row, request)
    <2>1. Good(row)
      BY <1>1, StoredGood DEF SetActuals
    <2>2. Good(new)
      BY <1>1, <2>1, WithActualsGood DEF SetActuals
    <2>3. voyages' = [voyages EXCEPT ![v] = new] /\ MarkAnnualIf(new # row) /\ UNCHANGED calc
      BY <1>1 DEF SetActuals
    <2> QED BY <2>2, <2>3, Preserved, MarkIf
  <1>2. ASSUME NEW field \in {"actual_dep", "actual_arr"}, NEW instant \in RecordTimes,
               FillFromPublicRecord(v, field, instant)
        PROVE  IInv' /\ (Stored(v)' \/ HardDeleteVoyage(v))
    <2> DEFINE row == voyages[v]
               back == Reverted(row)
               new == IF field = "actual_dep"
                        THEN [Reverted(row) EXCEPT !.actual_dep = instant]
                        ELSE [Reverted(row) EXCEPT !.actual_arr = instant]
    <2>1. Good(row)
      BY <1>2, StoredGood DEF FillFromPublicRecord
    <2>2. Good(back) /\ back.status \in ActualsAllowedStatuses
      BY <1>2, <2>1, RevertedGood DEF FillFromPublicRecord
    <2>3. instant \in Instant
      BY TimesAssumption DEF Instant
    <2>4. TimeOrder(new.actual_dep, new.actual_arr)
      BY <1>2 DEF FillFromPublicRecord
    <2>5. Good(new)
      <3>1. new \in VoyageRow
        BY <2>2, <2>3 DEF Good, VoyageRow
      <3>2. /\ new.status = back.status
            /\ new.policy = back.policy
            /\ new.year = back.year
            /\ new.planned_dep = back.planned_dep
            /\ new.planned_arr = back.planned_arr
        BY <2>2 DEF Good, VoyageRow
      <3>3. new.status \notin PlanningStatuses \cup {"CONFIRMED", "ARCHIVED"}
        BY <2>2, <3>2 DEF ActualsAllowedStatuses, PlanningStatuses
      <3> QED BY <2>2, <2>4, <3>1, <3>2, <3>3 DEF Good, RowInv
    <2>6. voyages' = [voyages EXCEPT ![v] = new] /\ MarkAnnualIf(new # row) /\ UNCHANGED calc
      BY <1>2 DEF FillFromPublicRecord
    <2> QED BY <2>5, <2>6, Preserved, MarkIf
  <1>3. ASSUME NEW changed \in BOOLEAN, FillBerthFromPublicRecord(v, changed)
        PROVE  IInv' /\ (Stored(v)' \/ HardDeleteVoyage(v))
    <2>1. Good(voyages[v])
      BY <1>3, StoredGood DEF FillBerthFromPublicRecord
    <2>2. Good(Reverted(voyages[v]))
      BY <1>3, <2>1, RevertedGood DEF FillBerthFromPublicRecord
    <2> QED BY <1>3, <2>2, Preserved, MarkIf DEF FillBerthFromPublicRecord
  <1> QED BY <1>1, <1>2, <1>3 DEF EditActuals

\* Every step of the system preserves the invariant.
LEMMA NextStep ==
    ASSUME IInv, [Next]_vars
    PROVE  IInv'
  <1>1. ASSUME NEW v \in Voyages, EstimateVoyage(v)
        PROVE  IInv'
    BY <1>1 DEF EstimateVoyage, IInv, TypeOK, CalculationKeepsRow, Live, Stored, Flags
  <1>2. ASSUME NEW r \in Runs, SaveAnnualRun(r)
        PROVE  IInv'
    BY <1>2 DEF SaveAnnualRun, IInv, TypeOK, CalculationKeepsRow, Stored, Flags
  <1>3. CASE UNCHANGED vars
    BY <1>3 DEF vars, IInv, TypeOK, CalculationKeepsRow, Stored
  <1> QED BY <1>1, <1>2, <1>3, EditPlanStep, EditStatusStep, EditActualsStep DEF Next, Edit

\* The inductive invariant holds throughout every behaviour.
LEMMA Inductive == Spec => []IInv
  <1>1. Init => IInv
    BY RowAssumption DEF Init, IInv, TypeOK, Stored, CalculationKeepsRow, Flags
  <1>2. IInv /\ [Next]_vars => IInv'
    BY NextStep
  <1> QED BY <1>1, <1>2, PTL DEF Spec

-----------------------------------------------------------------------------

\* An edit of one voyage leaves the rows of the others alone, and either marks
\* every stored annual run or changes no voyage.
LEMMA EditEffect ==
    ASSUME IInv, NEW v \in Voyages, Edit(v)
    PROVE  /\ \A w \in Voyages \ {v} : voyages'[w] = voyages[w]
           /\ MarkAnnual \/ UNCHANGED voyages
  <1>1. TypeOK
    BY DEF IInv
  <1>2. ASSUME NEW new, voyages' = [voyages EXCEPT ![v] = new],
               MarkAnnual \/ MarkAnnualIf(new # voyages[v])
        PROVE  /\ \A w \in Voyages \ {v} : voyages'[w] = voyages[w]
               /\ MarkAnnual \/ UNCHANGED voyages
    BY <1>1, <1>2, RowReplaced DEF MarkAnnualIf
  <1>3. CASE EditPlan(v)
    BY <1>2, <1>3 DEF EditPlan, CreateVoyage, UpdateVoyage, AdoptPlan
  <1>4. ASSUME NEW policy \in Policies, SetConfirmedInclusion(v, policy)
        PROVE  MarkAnnual \/ MarkAnnualIf([voyages[v] EXCEPT !.policy = policy] # voyages[v])
    <2>1. voyages[v] \in VoyageRow
      BY <1>4, StoredGood DEF SetConfirmedInclusion, Good
    <2>2. voyages[v].policy # policy <=> [voyages[v] EXCEPT !.policy = policy] # voyages[v]
      BY <2>1 DEF VoyageRow
    <2> QED BY <1>4, <2>2 DEF SetConfirmedInclusion, MarkAnnualIf
  <1>5. CASE EditStatus(v)
    BY <1>2, <1>4, <1>5
    DEF EditStatus, TransitionVoyage, SetConfirmedInclusion, HardDeleteVoyage, SoftDeleteVoyage
  <1>6. ASSUME NEW request \in ActualsRequests, SetActuals(v, request)
        PROVE  /\ \A w \in Voyages \ {v} : voyages'[w] = voyages[w]
               /\ MarkAnnual \/ UNCHANGED voyages
    BY <1>2, <1>6 DEF SetActuals
  <1>7. ASSUME NEW field \in {"actual_dep", "actual_arr"}, NEW instant \in RecordTimes,
               FillFromPublicRecord(v, field, instant)
        PROVE  /\ \A w \in Voyages \ {v} : voyages'[w] = voyages[w]
               /\ MarkAnnual \/ UNCHANGED voyages
    BY <1>2, <1>7 DEF FillFromPublicRecord
  <1>8. ASSUME NEW changed \in BOOLEAN, FillBerthFromPublicRecord(v, changed)
        PROVE  /\ \A w \in Voyages \ {v} : voyages'[w] = voyages[w]
               /\ MarkAnnual \/ UNCHANGED voyages
    BY <1>2, <1>8 DEF FillBerthFromPublicRecord, MarkAnnualIf
  <1>9. CASE EstimateVoyage(v)
    BY <1>9 DEF EstimateVoyage
  <1> QED BY <1>3, <1>5, <1>6, <1>7, <1>8, <1>9 DEF Edit, EditActuals

\* The statuses whose actuals are settled.
Settled == {"CONFIRMED", "ARCHIVED"}

\* What an edit may do to the row of a stored voyage.
RowStep(v, old, new) ==
    /\ old.status \in Settled =>
           /\ new # NULL
           /\ new.status \in Settled => Actuals(new) = Actuals(old)
    /\ new # NULL =>
           /\ old.status \notin PlanningStatuses => PlanValues(new) = PlanValues(old)
           /\ PlanValues(new) # PlanValues(old) \/ new.year # old.year => MarkCalc(v)

\* A step that keeps the plan and the year, and the actuals of a settled
\* voyage, is a RowStep.
LEMMA UnchangedStep ==
    ASSUME NEW v \in Voyages, NEW old, NEW new, new # NULL,
           new.status \in Settled /\ old.status \in Settled => Actuals(new) = Actuals(old),
           PlanValues(new) = PlanValues(old), new.year = old.year
    PROVE  RowStep(v, old, new)
  BY DEF RowStep

\* A transition writes the status and the policy only.
LEMMA TransitionedKeeps ==
    ASSUME NEW row \in VoyageRow, NEW to, NEW choice
    PROVE  LET new == Transitioned(row, to, choice)
           IN  /\ new.status = to
               /\ Actuals(new) = Actuals(row)
               /\ PlanValues(new) = PlanValues(row)
               /\ new.year = row.year
  BY DEF VoyageRow, Transitioned, Actuals, PlanValues

\* So does the reversal of a confirmed voyage.
LEMMA RevertedKeeps ==
    ASSUME NEW row \in VoyageRow
    PROVE  /\ Actuals(Reverted(row)) = Actuals(row)
           /\ PlanValues(Reverted(row)) = PlanValues(row)
           /\ Reverted(row).year = row.year
  BY TransitionedKeeps DEF Reverted

\* Every edit of a stored voyage is a RowStep.
LEMMA EditRowStep ==
    ASSUME IInv, NEW v \in Voyages, Stored(v), Edit(v)
    PROVE  RowStep(v, voyages[v], voyages'[v])
  <1> DEFINE row == voyages[v]
             new == voyages'[v]
  <1>1. TypeOK
    BY DEF IInv
  <1>2. row \in VoyageRow
    BY <1>1 DEF TypeOK, Stored
  <1>3. new # NULL \/ HardDeleteVoyage(v)
    BY EditPlanStep, EditStatusStep, EditActualsStep DEF Edit, EstimateVoyage, Stored
  <1>4. CASE HardDeleteVoyage(v)
    BY <1>1, <1>4, RowReplaced
    DEF HardDeleteVoyage, HardDeleteStatuses, RowStep, Settled
  <1> SUFFICES ASSUME new # NULL
               PROVE  RowStep(v, row, new)
    BY <1>3, <1>4
  <1>5. ASSUME NEW patch \in PlanPatches, UpdateVoyage(v, patch)
        PROVE  RowStep(v, row, new)
    <2>1. new = Patched(row, patch) /\ MarkCalc(v) /\ MayEditPlan(row, patch)
      BY <1>1, <1>5, RowReplaced DEF UpdateVoyage
    <2>2. DOMAIN patch = {"plan", "planned_dep", "planned_arr", "year"}
      BY DEF PlanPatches
    <2>3. row.status \notin PlanningStatuses =>
              patch.plan = KEEP /\ patch.planned_dep = KEEP /\ patch.planned_arr = KEEP
      BY <2>1, <2>2 DEF MayEditPlan, ConfirmedFirstFill, YearOnly, Sent
    <2>4. /\ Actuals(Patched(row, patch)) = Actuals(row)
          /\ row.status \notin PlanningStatuses =>
                 PlanValues(Patched(row, patch)) = PlanValues(row)
      BY <1>2, <2>3 DEF Patched, VoyageRow, Actuals, PlanValues, Given
    <2> QED BY <2>1, <2>4 DEF RowStep
  <1>6. ASSUME NEW plan \in Plans, NEW arr \in Times, AdoptPlan(v, plan, arr)
        PROVE  RowStep(v, row, new)
    BY <1>6 DEF AdoptPlan, RowStep, Settled, PlanningStatuses
  <1>7. CASE EditPlan(v)
    BY <1>5, <1>6, <1>7 DEF EditPlan, CreateVoyage
  <1>8. ASSUME NEW to \in Statuses, NEW choice \in Policies \cup {KEEP},
               TransitionVoyage(v, to, choice)
        PROVE  RowStep(v, row, new)
    <2>1. new = Transitioned(row, to, choice)
      BY <1>1, <1>8, RowReplaced DEF TransitionVoyage
    <2> QED BY <1>2, <2>1, TransitionedKeeps, UnchangedStep
  <1>9. ASSUME NEW policy \in Policies, SetConfirmedInclusion(v, policy)
        PROVE  RowStep(v, row, new)
    <2>1. new = [row EXCEPT !.policy = policy]
      BY <1>1, <1>9 DEF SetConfirmedInclusion, TypeOK
    <2>2. Actuals(new) = Actuals(row) /\ PlanValues(new) = PlanValues(row) /\ new.year = row.year
      BY <1>2, <2>1 DEF VoyageRow, Actuals, PlanValues
    <2> QED BY <2>2, UnchangedStep
  <1>10. CASE SoftDeleteVoyage(v)
    <2>1. new = [row EXCEPT !.is_deleted = TRUE]
      BY <1>1, <1>10 DEF SoftDeleteVoyage, TypeOK
    <2>2. Actuals(new) = Actuals(row) /\ PlanValues(new) = PlanValues(row) /\ new.year = row.year
      BY <1>2, <2>1 DEF VoyageRow, Actuals, PlanValues
    <2> QED BY <2>2, UnchangedStep
  <1>11. CASE EditStatus(v)
    BY <1>4, <1>8, <1>9, <1>10, <1>11 DEF EditStatus
  <1>12. ASSUME NEW request \in ActualsRequests, SetActuals(v, request)
         PROVE  RowStep(v, row, new)
    <2>1. new = WithActuals(row, request) /\ row.status \in ActualsAllowedStatuses
      BY <1>1, <1>12, RowReplaced DEF SetActuals
    <2>2. PlanValues(new) = PlanValues(row) /\ new.year = row.year
      BY <1>2, <2>1 DEF VoyageRow, WithActuals, PlanValues
    <2>3. row.status \notin Settled
      BY <2>1 DEF ActualsAllowedStatuses, Settled
    <2> QED BY <2>2, <2>3, UnchangedStep
  <1>13. ASSUME NEW field \in {"actual_dep", "actual_arr"}, NEW instant \in RecordTimes,
                FillFromPublicRecord(v, field, instant)
         PROVE  RowStep(v, row, new)
    <2> DEFINE back == Reverted(row)
    <2>1. /\ new = IF field = "actual_dep" THEN [back EXCEPT !.actual_dep = instant]
                                          ELSE [back EXCEPT !.actual_arr = instant]
          /\ MayRevert(row)
          /\ row.status \in ActualsAllowedStatuses \cup {"CONFIRMED"}
      BY <1>1, <1>13, RowReplaced DEF FillFromPublicRecord
    <2>2. Good(row)
      BY <1>13, StoredGood DEF FillFromPublicRecord
    <2>3. back \in VoyageRow /\ back.status \in ActualsAllowedStatuses
      BY <2>1, <2>2, RevertedGood DEF Good
    <2>4. new.status \notin Settled
      BY <2>1, <2>3 DEF VoyageRow, ActualsAllowedStatuses, Settled
    <2>5. PlanValues(new) = PlanValues(back) /\ new.year = back.year
      BY <2>1, <2>3 DEF VoyageRow, PlanValues
    <2>6. PlanValues(new) = PlanValues(row) /\ new.year = row.year
      BY <1>2, <2>5, RevertedKeeps
    <2> QED BY <2>4, <2>6, UnchangedStep
  <1>14. ASSUME NEW changed \in BOOLEAN, FillBerthFromPublicRecord(v, changed)
         PROVE  RowStep(v, row, new)
    <2>1. new = Reverted(row)
      BY <1>1, <1>14, RowReplaced DEF FillBerthFromPublicRecord
    <2> QED BY <1>2, <2>1, RevertedKeeps, UnchangedStep
  <1>15. CASE EstimateVoyage(v)
    BY <1>15, UnchangedStep DEF EstimateVoyage
  <1> QED BY <1>7, <1>11, <1>12, <1>13, <1>14, <1>15 DEF Edit, EditActuals

-----------------------------------------------------------------------------

\* Every row, calculation flag and annual flag has its type throughout: no
\* operation writes a status, a policy or a column value outside its domain.
THEOREM TypeCorrect == Spec => []TypeOK
  <1>1. IInv => TypeOK
    BY DEF IInv
  <1> QED BY <1>1, Inductive, PTL

\* A stored voyage has a policy its status allows and, where it is counted,
\* a year: transition_voyage, set_confirmed_inclusion and update_voyage
\* together never write what the database triggers refuse.
THEOREM StatusPolicyYearHolds == Spec => []StatusPolicyYear
  <1>1. IInv => StatusPolicyYear
    BY DEF IInv, RowInv, StatusPolicyYear
  <1> QED BY <1>1, Inductive, PTL

\* Departures precede arrivals, planned and actual, whoever wrote them.
THEOREM TimesOrderedHolds == Spec => []TimesOrdered
  <1>1. IInv => TimesOrdered
    BY DEF IInv, RowInv, TimesOrdered
  <1> QED BY <1>1, Inductive, PTL

\* The year of a planned voyage is one its planned times touch.
THEOREM PlanYearSpannedHolds == Spec => []PlanYearSpanned
  <1>1. IInv => PlanYearSpanned
    BY DEF IInv, RowInv, PlanYearSpanned
  <1> QED BY <1>1, Inductive, PTL

\* A confirmed or archived voyage has its distance and all its fuel.
THEOREM ConfirmedCompleteHolds == Spec => []ConfirmedComplete
  <1>1. IInv => ConfirmedComplete
    BY DEF IInv, RowInv, ConfirmedComplete
  <1> QED BY <1>1, Inductive, PTL

\* delete_voyage never removes a row a stored calculation refers to.
THEOREM CalculationKeepsRowHolds == Spec => []CalculationKeepsRow
  <1>1. IInv => CalculationKeepsRow
    BY DEF IInv
  <1> QED BY <1>1, Inductive, PTL

\* What a step of the system does to each stored voyage.
LEMMA StepRows ==
    ASSUME IInv, [Next]_vars, NEW v \in Voyages, Stored(v)
    PROVE  RowStep(v, voyages[v], voyages'[v])
           \/ voyages'[v] = voyages[v]
  <1>1. ASSUME NEW w \in Voyages, Edit(w)
        PROVE  RowStep(v, voyages[v], voyages'[v]) \/ voyages'[v] = voyages[v]
    BY <1>1, EditEffect, EditRowStep
  <1>2. ASSUME NEW r \in Runs, SaveAnnualRun(r)
        PROVE  voyages'[v] = voyages[v]
    BY <1>2 DEF SaveAnnualRun
  <1> QED BY <1>1, <1>2 DEF Next, vars

\* A stored calculation that is marked is not fresh afterwards.
LEMMA MarkedNotFresh ==
    ASSUME TypeOK, NEW v \in Voyages, MarkCalc(v)
    PROVE  calc'[v] # "fresh"
  BY DEF TypeOK, MarkCalc, Marked, Flags

\* A confirmed voyage keeps its actuals as long as it stays confirmed.
LEMMA StepKeepsSettled ==
    ASSUME IInv, [Next]_vars
    PROVE  SettledKeepsActuals
  <1>1. ASSUME NEW v \in Voyages, Stored(v),
               voyages[v].status \in {"CONFIRMED", "ARCHIVED"}
        PROVE  /\ Stored(v)'
               /\ voyages'[v].status \in {"CONFIRMED", "ARCHIVED"} =>
                      Actuals(voyages'[v]) = Actuals(voyages[v])
    BY <1>1, StepRows DEF RowStep, Settled, Stored
  <1> QED BY <1>1 DEF SettledKeepsActuals

\* set_actuals and the public record fill change a confirmed voyage only
\* after it went back to COMPLETED, and nothing else changes its actuals.
THEOREM ConfirmedActualsFrozenHolds == Spec => ConfirmedActualsFrozen
  BY StepKeepsSettled, Inductive, PTL DEF Spec, ConfirmedActualsFrozen

\* No operation rewrites the plan of a voyage that has departed.
THEOREM PlanFrozenAfterDepartureHolds == Spec => PlanFrozenAfterDeparture
  <1>1. ASSUME IInv, [Next]_vars, NEW v \in Voyages, Stored(v), Stored(v)',
               voyages[v].status \notin PlanningStatuses
        PROVE  PlanValues(voyages'[v]) = PlanValues(voyages[v])
    BY <1>1, StepRows DEF RowStep, Stored
  <1>2. IInv /\ [Next]_vars => DepartedKeepsPlan
    BY <1>1 DEF DepartedKeepsPlan
  <1> QED BY <1>2, Inductive, PTL DEF Spec, PlanFrozenAfterDeparture

\* Every change of a plan or a year marks the calculation made from it.
THEOREM PlanChangeMarksCalculationHolds == Spec => PlanChangeMarksCalculation
  <1>1. ASSUME IInv, [Next]_vars, NEW v \in Voyages, Stored(v), Stored(v)',
               \/ PlanValues(voyages'[v]) # PlanValues(voyages[v])
               \/ voyages'[v].year # voyages[v].year
        PROVE  calc'[v] # "fresh"
    <2>1. MarkCalc(v)
      BY <1>1, StepRows DEF RowStep, Stored
    <2> QED BY <1>1, <2>1, MarkedNotFresh DEF IInv
  <1>2. IInv /\ [Next]_vars => MarksCalculation
    BY <1>1 DEF MarksCalculation
  <1> QED BY <1>2, Inductive, PTL DEF Spec, PlanChangeMarksCalculation

\* An edit that changes what annual runs read marks every stored one.
LEMMA StepMarksRuns ==
    ASSUME IInv, [Next]_vars
    PROVE  MarksAnnualRuns
  <1>1. ASSUME AnnualInput' # AnnualInput, NEW r \in Runs, annual[r] = "fresh"
        PROVE  annual'[r] = "stale"
    <2>1. voyages' # voyages
      BY <1>1 DEF AnnualInput, AnnualView
    <2>2. PICK v \in Voyages : Edit(v)
      BY <2>1 DEF Next, vars, SaveAnnualRun
    <2>3. MarkAnnual
      BY <2>1, <2>2, EditEffect
    <2> QED BY <1>1, <2>3 DEF MarkAnnual, Marked
  <1> QED BY <1>1 DEF MarksAnnualRuns

\* No change of an annual run's inputs leaves a stored run unmarked.
THEOREM ChangeMarksAnnualRunsHolds == Spec => ChangeMarksAnnualRuns
  BY StepMarksRuns, Inductive, PTL DEF Spec, ChangeMarksAnnualRuns

-----------------------------------------------------------------------------
(* VoyageLifecycle implements VoyageStages under the mapping Stage: every  *)
(* operation on a voyage moves it along an edge of its coarse life, or     *)
(* leaves its stage and those of all the others as they are.               *)

\* The edges of the coarse life.
Moves == {<<"none", "planning">>, <<"planning", "sailing">>, <<"sailing", "done">>,
          <<"planning", "cancelled">>, <<"sailing", "cancelled">>,
          <<"planning", "none">>, <<"cancelled", "none">>, <<"done", "hidden">>}

StageStep(old, new) == Stage(new) = Stage(old) \/ <<Stage(old), Stage(new)>> \in Moves

\* The transition table moves along the edges of the coarse life.
LEMMA StageTable ==
    ASSUME NEW s \in Statuses, NEW t \in Transitions[s]
    PROVE  StageOf[t] = StageOf[s] \/ <<StageOf[s], StageOf[t]>> \in Moves
  BY DEF Statuses, Transitions, StageOf, Moves

\* A step that keeps the status and the deletion mark keeps the stage.
LEMMA SameStage ==
    ASSUME NEW old, NEW new, old # NULL, new # NULL,
           new.status = old.status, new.is_deleted = old.is_deleted
    PROVE  StageStep(old, new)
  BY DEF Stage, StageStep

\* A permitted transition is a move of the coarse life.
LEMMA TransitionStage ==
    ASSUME NEW row \in VoyageRow, NEW to, NEW choice, MayTransition(row, to, choice),
           Transitioned(row, to, choice) # NULL, row # NULL
    PROVE  StageStep(row, Transitioned(row, to, choice))
  <1>1. to \in Transitions[row.status] /\ row.status \in Statuses
    BY DEF MayTransition, VoyageRow
  <1>2. /\ Transitioned(row, to, choice).status = to
        /\ Transitioned(row, to, choice).is_deleted = row.is_deleted
    BY DEF Transitioned, VoyageRow
  <1> QED BY <1>1, <1>2, StageTable DEF StageStep, Stage

\* Every edit of a voyage is a move of its coarse life or keeps its stage.
LEMMA EditStage ==
    ASSUME IInv, NEW v \in Voyages, Edit(v)
    PROVE  StageStep(voyages[v], voyages'[v])
  <1> DEFINE row == voyages[v]
             new == voyages'[v]
  <1>1. TypeOK
    BY DEF IInv
  <1>2. row # NULL => row \in VoyageRow
    BY <1>1 DEF TypeOK
  <1>3. row # NULL => new # NULL \/ HardDeleteVoyage(v)
    BY EditPlanStep, EditStatusStep, EditActualsStep DEF Edit, EstimateVoyage, Stored
  <1>4. CASE HardDeleteVoyage(v)
    <2>1. row # NULL /\ new = NULL /\ ~row.is_deleted
      BY <1>1, <1>4, RowReplaced DEF HardDeleteVoyage, Live, Stored
    <2> QED BY <1>4, <2>1
      DEF HardDeleteVoyage, HardDeleteStatuses, StageStep, Stage, StageOf, Moves
  <1>5. ASSUME NEW dep \in Instant, NEW arr \in Instant, NEW year \in Years \cup {NULL},
               NEW plan \in Plans, NEW fuels \in SUBSET Fuels,
               CreateVoyage(v, dep, arr, year, plan, fuels)
        PROVE  StageStep(row, new)
    <2>1. row = NULL /\ new = DraftRow(dep, arr, year, plan, fuels)
      BY <1>1, <1>5, RowReplaced DEF CreateVoyage, Stored
    <2>2. new # NULL
      BY <1>5, <2>1, DraftRowGood, RowAssumption DEF CreateVoyage, Good
    <2> QED BY <2>1, <2>2 DEF DraftRow, StageStep, Stage, StageOf, Moves
  <1>6. CASE /\ ~Live(v) /\ ~EstimateVoyage(v)
             /\ ~(\E dep, arr \in Instant, year \in Years \cup {NULL}, plan \in Plans,
                     fuels \in SUBSET Fuels : CreateVoyage(v, dep, arr, year, plan, fuels))
    BY <1>6 DEF Edit, EditPlan, EditStatus, EditActuals, AdoptPlan, TransitionVoyage,
                SetConfirmedInclusion, HardDeleteVoyage, SoftDeleteVoyage, SetActuals,
                FillFromPublicRecord, FillBerthFromPublicRecord
  <1>7. CASE EstimateVoyage(v)
    BY <1>7 DEF EstimateVoyage, StageStep
  <1> SUFFICES ASSUME Live(v), new # NULL
               PROVE  StageStep(row, new)
    BY <1>3, <1>4, <1>5, <1>6, <1>7 DEF Live, Stored
  <1>8. row \in VoyageRow /\ row # NULL /\ ~row.is_deleted
    BY <1>2 DEF Live, Stored
  <1>9. ASSUME NEW patch \in PlanPatches, UpdateVoyage(v, patch)
        PROVE  StageStep(row, new)
    <2>1. new = Patched(row, patch)
      BY <1>1, <1>9, RowReplaced DEF UpdateVoyage
    <2>2. new.status = row.status /\ new.is_deleted = row.is_deleted
      BY <1>8, <2>1 DEF Patched, VoyageRow
    <2> QED BY <1>8, <2>2, SameStage
  <1>10. ASSUME NEW plan \in Plans, NEW arr \in Times, AdoptPlan(v, plan, arr)
        PROVE  StageStep(row, new)
    <2>1. new = [row EXCEPT !.plan = plan,
                            !.planned_arr = IF row.planned_dep = NULL THEN @ ELSE arr]
      BY <1>1, <1>10, RowReplaced DEF AdoptPlan
    <2>2. new.status = row.status /\ new.is_deleted = row.is_deleted
      BY <1>8, <2>1 DEF VoyageRow
    <2> QED BY <1>8, <2>2, SameStage
  <1>11. ASSUME NEW to \in Statuses, NEW choice \in Policies \cup {KEEP},
                TransitionVoyage(v, to, choice)
         PROVE  StageStep(row, new)
    <2>1. new = Transitioned(row, to, choice) /\ MayTransition(row, to, choice)
      BY <1>1, <1>11, RowReplaced DEF TransitionVoyage
    <2> QED BY <1>8, <2>1, TransitionStage
  <1>12. ASSUME NEW policy \in Policies, SetConfirmedInclusion(v, policy)
         PROVE  StageStep(row, new)
    <2>1. new = [row EXCEPT !.policy = policy]
      BY <1>1, <1>12 DEF SetConfirmedInclusion, TypeOK
    <2>2. new.status = row.status /\ new.is_deleted = row.is_deleted
      BY <1>8, <2>1 DEF VoyageRow
    <2> QED BY <1>8, <2>2, SameStage
  <1>13. CASE SoftDeleteVoyage(v)
    <2>1. new = [row EXCEPT !.is_deleted = TRUE] /\ row.status \in SoftDeleteStatuses
      BY <1>1, <1>13 DEF SoftDeleteVoyage, TypeOK
    <2>2. new.is_deleted
      BY <1>8, <2>1 DEF VoyageRow
    <2> QED BY <1>8, <2>1, <2>2 DEF SoftDeleteStatuses, StageStep, Stage, StageOf, Moves
  <1>14. ASSUME NEW request \in ActualsRequests, SetActuals(v, request)
         PROVE  StageStep(row, new)
    <2>1. new = WithActuals(row, request)
      BY <1>1, <1>14, RowReplaced DEF SetActuals
    <2>2. new.status = row.status /\ new.is_deleted = row.is_deleted
      BY <1>8, <2>1 DEF VoyageRow, WithActuals
    <2> QED BY <1>8, <2>2, SameStage
  <1>15. ASSUME MayRevert(row)
         PROVE  /\ Reverted(row) \in VoyageRow
                /\ StageOf[Reverted(row).status] = StageOf[row.status]
                /\ Reverted(row).is_deleted = row.is_deleted
    <2>1. Good(row)
      BY StoredGood
    <2>2. Reverted(row) \in VoyageRow
      BY <1>15, <2>1, RevertedGood DEF Good
    <2> QED BY <1>8, <2>2 DEF Reverted, Transitioned, VoyageRow, StageOf
  <1>16. ASSUME NEW field \in {"actual_dep", "actual_arr"}, NEW instant \in RecordTimes,
                FillFromPublicRecord(v, field, instant)
         PROVE  StageStep(row, new)
    <2> DEFINE back == Reverted(row)
    <2>1. /\ new = IF field = "actual_dep" THEN [back EXCEPT !.actual_dep = instant]
                                          ELSE [back EXCEPT !.actual_arr = instant]
          /\ MayRevert(row)
      BY <1>1, <1>16, RowReplaced DEF FillFromPublicRecord
    <2>2. new.status = back.status /\ new.is_deleted = back.is_deleted
      BY <1>15, <2>1 DEF VoyageRow
    <2> QED BY <1>8, <1>15, <2>1, <2>2 DEF StageStep, Stage
  <1>17. ASSUME NEW changed \in BOOLEAN, FillBerthFromPublicRecord(v, changed)
         PROVE  StageStep(row, new)
    <2>1. new = Reverted(row) /\ MayRevert(row)
      BY <1>1, <1>17, RowReplaced DEF FillBerthFromPublicRecord
    <2> QED BY <1>8, <1>15, <2>1 DEF StageStep, Stage
  <1> QED BY <1>4, <1>5, <1>9, <1>10, <1>11, <1>12, <1>13, <1>14, <1>16, <1>17, <1>7
      DEF Edit, EditPlan, EditStatus, EditActuals

\* One edge, taken by one voyage, is a step of VoyageStages.
LEMMA MoveIsStep ==
    ASSUME NEW w \in Voyages, StageStep(voyages[w], voyages'[w]),
           \A u \in Voyages \ {w} : voyages'[u] = voyages[u]
    PROVE  [Life!NextStages]_([v \in Voyages |-> Stage(voyages[v])])
  <1> DEFINE now == [v \in Voyages |-> Stage(voyages[v])]
             then == [v \in Voyages |-> Stage(voyages'[v])]
  <1>1. then = [now EXCEPT ![w] = Stage(voyages'[w])]
    OBVIOUS
  <1>2. CASE Stage(voyages'[w]) = Stage(voyages[w])
    <2>1. then = now
      BY <1>1, <1>2
    <2> QED BY <2>1 DEF Stage
  <1>3. CASE <<Stage(voyages[w]), Stage(voyages'[w])>> \in Moves
    <2>1. Life!NextStages
      BY <1>1, <1>3
      DEF Moves, Life!NextStages, Life!MoveOn, Life!Register, Life!Sail, Life!Finish,
          Life!CallOff, Life!Erase, Life!Hide, Life!Move, Stage
    <2> QED BY <2>1
  <1> QED BY <1>2, <1>3 DEF StageStep

\* The coarse life begins where the rows do.
LEMMA StagesFromInit == Init => Life!InitStages
  BY DEF Init, Life!InitStages, Stage

\* Every step of the system is a step of VoyageStages.
LEMMA StepMovesStage ==
    ASSUME IInv, [Next]_vars
    PROVE  [Life!NextStages]_([v \in Voyages |-> Stage(voyages[v])])
  <1>1. ASSUME NEW w \in Voyages, Edit(w)
        PROVE  [Life!NextStages]_([v \in Voyages |-> Stage(voyages[v])])
    BY <1>1, EditEffect, EditStage, MoveIsStep
  <1>2. CASE UNCHANGED voyages
    BY <1>2 DEF Stage
  <1> QED BY <1>1, <1>2 DEF Next, vars, SaveAnnualRun

\* The services implement the coarse life of a voyage: a voyage sailed to its
\* end stays in the database for good, and only planned or called-off voyages
\* are really deleted.
THEOREM StagesImplemented == Spec => ImplementsStages
  <1>1. Init => Life!InitStages
    BY StagesFromInit
  <1>2. IInv /\ [Next]_vars => [Life!NextStages]_([v \in Voyages |-> Stage(voyages[v])])
    BY StepMovesStage
  <1> QED BY <1>1, <1>2, Inductive, PTL DEF Spec, ImplementsStages, Life!SpecStages

-----------------------------------------------------------------------------
(* People alone never put a voyage into a year its actual times do not     *)
(* touch: as long as no departure or arrival is taken from the harbour     *)
(* authority's records, every operation keeps ActualYearSpanned.           *)
(* (Otherwise it does not hold: a record may lie in another year.)         *)
(*                                                                         *)
(* The strengthening is that a voyage still planned has no actual          *)
(* departure: its year is compared with its planned times only.            *)

YearInv(row) ==
    /\ row.status \in PlanningStatuses => row.actual_dep = NULL
    /\ YearSpanned(row.year, row.actual_dep, row.actual_arr)

YInv == \A v \in Voyages : Stored(v) => YearInv(voyages[v])

\* What keeps year, actual times and planning status keeps YearInv.
LEMMA SameYear ==
    ASSUME NEW old, NEW new, YearInv(old),
           new.year = old.year,
           new.actual_dep = old.actual_dep, new.actual_arr = old.actual_arr,
           new.status \in PlanningStatuses => old.status \in PlanningStatuses
    PROVE  YearInv(new)
  BY DEF YearInv

\* A PATCH changes the year of a voyage that has departed only where the
\* new year is compared with the actual times.
LEMMA PatchedYear ==
    ASSUME NEW row \in VoyageRow, YearInv(row), NEW patch \in PlanPatches,
           NEW new, new = Patched(row, patch),
           MayEditPlan(row, patch),
           NEW times, times = AttributionTimes(row, new),
           Sent(patch) # {"plan"} => YearSpanned(new.year, times[1], times[2])
    PROVE  YearInv(new)
  <1>1. /\ new.status = row.status
        /\ new.year = Given(patch.year, row.year)
        /\ new.actual_dep = row.actual_dep
        /\ new.actual_arr = row.actual_arr
    BY DEF Patched, VoyageRow
  <1>2. CASE row.status \in PlanningStatuses
    BY <1>1, <1>2 DEF YearInv, YearSpanned
  <1>3. CASE row.status \notin PlanningStatuses /\ row.actual_dep = NULL
    BY <1>1, <1>3 DEF YearInv, YearSpanned
  <1>4. CASE row.status \notin PlanningStatuses /\ row.actual_dep # NULL
    <2>1. YearOnly(patch)
      BY <1>4 DEF MayEditPlan, ConfirmedFirstFill
    <2>2. Sent(patch) # {"plan"}
      BY <2>1 DEF YearOnly
    <2>3. times = <<row.actual_dep, row.actual_arr>>
      BY <1>4 DEF AttributionTimes
    <2>4. YearSpanned(new.year, row.actual_dep, row.actual_arr)
      BY <2>2, <2>3
    <2> QED BY <1>1, <1>4, <2>4 DEF YearInv
  <1> QED BY <1>2, <1>3, <1>4

\* Creating, editing and adopting keep YearInv.
LEMMA EditPlanYear ==
    ASSUME IInv, YInv, NEW v \in Voyages, EditPlan(v)
    PROVE  YearInv(voyages'[v])
  <1> DEFINE row == voyages[v]
             new == voyages'[v]
  <1>1. TypeOK
    BY DEF IInv
  <1>2. Live(v) => row \in VoyageRow /\ YearInv(row)
    BY <1>1 DEF TypeOK, YInv, Live, Stored
  <1>3. ASSUME NEW dep \in Instant, NEW arr \in Instant, NEW year \in Years \cup {NULL},
               NEW plan \in Plans, NEW fuels \in SUBSET Fuels,
               CreateVoyage(v, dep, arr, year, plan, fuels)
        PROVE  YearInv(new)
    <2>1. new = DraftRow(dep, arr, year, plan, fuels)
      BY <1>1, <1>3, RowReplaced DEF CreateVoyage
    <2> QED BY <2>1 DEF DraftRow, YearInv, YearSpanned
  <1>4. ASSUME NEW patch \in PlanPatches, UpdateVoyage(v, patch)
        PROVE  YearInv(new)
    <2>1. new = Patched(row, patch)
      BY <1>1, <1>4, RowReplaced DEF UpdateVoyage
    <2>2. /\ Live(v) /\ MayEditPlan(row, patch)
          /\ Sent(patch) # {"plan"} =>
                 YearSpanned(Patched(row, patch).year,
                             AttributionTimes(row, Patched(row, patch))[1],
                             AttributionTimes(row, Patched(row, patch))[2])
      BY <1>4 DEF UpdateVoyage
    <2> QED BY <1>2, <2>1, <2>2, PatchedYear
  <1>5. ASSUME NEW plan \in Plans, NEW arr \in Times, AdoptPlan(v, plan, arr)
        PROVE  YearInv(new)
    <2>1. new = [row EXCEPT !.plan = plan,
                            !.planned_arr = IF row.planned_dep = NULL THEN @ ELSE arr]
      BY <1>1, <1>5, RowReplaced DEF AdoptPlan
    <2>2. row \in VoyageRow /\ YearInv(row)
      BY <1>2, <1>5 DEF AdoptPlan
    <2>3. /\ new.year = row.year /\ new.status = row.status
          /\ new.actual_dep = row.actual_dep /\ new.actual_arr = row.actual_arr
      BY <2>1, <2>2 DEF VoyageRow
    <2> QED BY <2>2, <2>3, SameYear
  <1> QED BY <1>3, <1>4, <1>5 DEF EditPlan

\* A transition keeps YearInv.
LEMMA TransitionedYear ==
    ASSUME NEW row \in VoyageRow, YearInv(row), NEW to, NEW choice,
           MayTransition(row, to, choice)
    PROVE  YearInv(Transitioned(row, to, choice))
  <1>1. to \in PlanningStatuses => row.status \in PlanningStatuses
    BY TransitionTable DEF MayTransition, VoyageRow
  <1>2. LET new == Transitioned(row, to, choice)
        IN  /\ new.status = to /\ new.year = row.year
            /\ new.actual_dep = row.actual_dep /\ new.actual_arr = row.actual_arr
    BY DEF VoyageRow, Transitioned
  <1> QED BY <1>1, <1>2, SameYear

\* Changes of status, policy and deletion mark keep YearInv of a row that
\* is still there.
LEMMA EditStatusYear ==
    ASSUME IInv, YInv, NEW v \in Voyages, EditStatus(v), Stored(v)'
    PROVE  YearInv(voyages'[v])
  <1> DEFINE row == voyages[v]
             new == voyages'[v]
  <1>1. TypeOK
    BY DEF IInv
  <1>2. row \in VoyageRow /\ YearInv(row)
    BY <1>1 DEF TypeOK, YInv, Live, Stored, EditStatus, TransitionVoyage,
                SetConfirmedInclusion, HardDeleteVoyage, SoftDeleteVoyage
  <1>3. ASSUME NEW to \in Statuses, NEW choice \in Policies \cup {KEEP},
               TransitionVoyage(v, to, choice)
        PROVE  YearInv(new)
    <2>1. new = Transitioned(row, to, choice) /\ MayTransition(row, to, choice)
      BY <1>1, <1>3, RowReplaced DEF TransitionVoyage
    <2> QED BY <1>2, <2>1, TransitionedYear
  <1>4. ASSUME NEW policy \in Policies, SetConfirmedInclusion(v, policy)
        PROVE  YearInv(new)
    <2>1. new = [row EXCEPT !.policy = policy]
      BY <1>1, <1>4 DEF SetConfirmedInclusion, TypeOK
    <2>2. /\ new.year = row.year /\ new.status = row.status
          /\ new.actual_dep = row.actual_dep /\ new.actual_arr = row.actual_arr
      BY <1>2, <2>1 DEF VoyageRow
    <2> QED BY <1>2, <2>2, SameYear
  <1>5. ~HardDeleteVoyage(v)
    BY <1>1, RowReplaced DEF HardDeleteVoyage, Stored
  <1>6. CASE SoftDeleteVoyage(v)
    <2>1. new = [row EXCEPT !.is_deleted = TRUE]
      BY <1>1, <1>6 DEF SoftDeleteVoyage, TypeOK
    <2>2. /\ new.year = row.year /\ new.status = row.status
          /\ new.actual_dep = row.actual_dep /\ new.actual_arr = row.actual_arr
      BY <1>2, <2>1 DEF VoyageRow
    <2> QED BY <1>2, <2>2, SameYear
  <1> QED BY <1>3, <1>4, <1>5, <1>6 DEF EditStatus

\* Entered actuals are compared with the year.
LEMMA SetActualsYear ==
    ASSUME IInv, YInv, NEW v \in Voyages, NEW request \in ActualsRequests,
           SetActuals(v, request)
    PROVE  YearInv(voyages'[v])
  <1> DEFINE row == voyages[v]
             new == voyages'[v]
  <1>1. TypeOK
    BY DEF IInv
  <1>2. row \in VoyageRow /\ YearInv(row)
    BY <1>1 DEF TypeOK, YInv, Live, Stored, SetActuals
  <1>3. new = WithActuals(row, request)
    BY <1>1, RowReplaced DEF SetActuals
  <1>4. /\ new.year = row.year /\ new.status = row.status
        /\ new.actual_dep = Given(request.actual_dep, row.actual_dep)
        /\ new.actual_arr = Given(request.actual_arr, row.actual_arr)
    BY <1>2, <1>3 DEF VoyageRow, WithActuals
  <1>5. CASE request.actual_dep = KEEP /\ request.actual_arr = KEEP
    BY <1>2, <1>4, <1>5, SameYear DEF Given
  <1>6. CASE request.actual_dep # KEEP \/ request.actual_arr # KEEP
    <2>1. YearSpanned(row.year, new.actual_dep, new.actual_arr)
      BY <1>3, <1>6 DEF SetActuals
    <2>2. row.status \notin PlanningStatuses
      BY DEF SetActuals, ActualsAllowedStatuses, PlanningStatuses
    <2> QED BY <1>4, <2>1, <2>2 DEF YearInv
  <1> QED BY <1>5, <1>6

\* A record of a berth period reopens a confirmed voyage and touches neither
\* its year nor its times; there is no record of its departure or arrival.
LEMMA EditActualsYear ==
    ASSUME RecordTimes = {}, IInv, YInv, NEW v \in Voyages, EditActuals(v)
    PROVE  YearInv(voyages'[v])
  <1>1. ASSUME NEW changed \in BOOLEAN, FillBerthFromPublicRecord(v, changed)
        PROVE  YearInv(voyages'[v])
    <2>1. voyages[v] \in VoyageRow /\ YearInv(voyages[v])
      BY <1>1 DEF IInv, TypeOK, YInv, Live, Stored, FillBerthFromPublicRecord
    <2>2. voyages'[v] = Reverted(voyages[v]) /\ MayRevert(voyages[v])
      BY <1>1, RowReplaced DEF FillBerthFromPublicRecord, IInv
    <2> QED BY <2>1, <2>2, TransitionedYear DEF Reverted, MayRevert
  <1> QED BY <1>1, SetActualsYear DEF EditActuals

\* Every step keeps YearInv of every stored voyage.
LEMMA YearStep ==
    ASSUME RecordTimes = {}, IInv, YInv, [Next]_vars
    PROVE  YInv'
  <1>1. ASSUME NEW w \in Voyages, Edit(w)
        PROVE  YInv'
    <2>1. \A v \in Voyages \ {w} : voyages'[v] = voyages[v]
      BY <1>1, EditEffect
    <2>2. Stored(w)' => YearInv(voyages'[w])
      BY <1>1, EditPlanYear, EditStatusYear, EditActualsYear
      DEF Edit, EstimateVoyage, YInv, Stored
    <2>3. \A v \in Voyages : voyages'[v] # NULL => YearInv(voyages'[v])
      BY <2>1, <2>2 DEF YInv, Stored
    <2> QED BY <2>3 DEF YInv, Stored, YearInv
  <1>2. CASE UNCHANGED voyages
    BY <1>2 DEF YInv, Stored
  <1> QED BY <1>1, <1>2 DEF Next, vars, SaveAnnualRun

\* As long as no actual time is taken from a public record, create_voyage,
\* update_voyage and set_actuals together keep every voyage counted in a
\* year its actual times touch.
THEOREM ActualYearSpannedHolds ==
    ASSUME RecordTimes = {}
    PROVE  Spec => []ActualYearSpanned
  <1>1. Init => YInv
    BY DEF Init, YInv, Stored
  <1>2. IInv /\ YInv /\ [Next]_vars => YInv'
    BY YearStep
  <1>3. YInv => ActualYearSpanned
    BY DEF YInv, YearInv, ActualYearSpanned
  <1> QED BY <1>1, <1>2, <1>3, Inductive, PTL DEF Spec

-----------------------------------------------------------------------------
(* The views of one year fit together (YearViews).  The services that make *)
(* the views never call one another; what they rely on is what the         *)
(* operations let into a row.  Beside IInv that is FuelInv: a stored       *)
(* voyage has a fuel row.  It gets one when it is created, and no          *)
(* operation takes the last one away.                                      *)

\* Every stored voyage lists a fuel.
FuelInv == \A v \in Voyages : Stored(v) => FuelRows(voyages[v]) # {}

\* What an edit keeps of a stored voyage: the fuels it lists, and its status
\* while it is under way, unless the edit is a transition.
ViewStep(old, new) ==
    /\ FuelRows(old) \subseteq FuelRows(new)
    /\ old.status = "IN_PROGRESS" /\ new.status # "IN_PROGRESS" =>
           \E to \in Statuses, choice \in Policies \cup {KEEP} :
               MayTransition(old, to, choice) /\ new = Transitioned(old, to, choice)

\* What keeps status and fuel is such a step.
LEMMA SameView ==
    ASSUME NEW old, NEW new, new.status = old.status, new.fuel = old.fuel
    PROVE  ViewStep(old, new)
  BY DEF ViewStep, FuelRows

\* A transition keeps the fuel.
LEMMA TransitionedView ==
    ASSUME NEW row \in VoyageRow, NEW to \in Statuses, NEW choice \in Policies \cup {KEEP},
           MayTransition(row, to, choice)
    PROVE  ViewStep(row, Transitioned(row, to, choice))
  <1>1. Transitioned(row, to, choice).fuel = row.fuel
    BY DEF VoyageRow, Transitioned
  <1> QED BY <1>1 DEF ViewStep, FuelRows

\* So does the reversal of a confirmed voyage, which is none under way.
LEMMA RevertedView ==
    ASSUME NEW row \in VoyageRow
    PROVE  /\ Reverted(row).fuel = row.fuel
           /\ Reverted(row).status = "IN_PROGRESS" <=> row.status = "IN_PROGRESS"
           /\ MayRevert(row) => Reverted(row) \in VoyageRow
  <1>1. CASE row.status = "CONFIRMED"
    <2>1. Reverted(row) = [row EXCEPT !.status = "COMPLETED",
                                      !.policy = PolicyAfter(row, "COMPLETED", KEEP)]
      BY <1>1 DEF Reverted, Transitioned
    <2>2. PolicyAfter(row, "COMPLETED", KEEP) \in Policies
      BY DEF PolicyAfter, VoyageRow, Policies
    <2> QED BY <1>1, <2>1, <2>2 DEF VoyageRow, Statuses
  <1>2. CASE row.status # "CONFIRMED"
    BY <1>2 DEF Reverted
  <1> QED BY <1>1, <1>2

\* Entered actuals fill fuel rows and remove none.
LEMMA WithActualsView ==
    ASSUME NEW row \in VoyageRow, NEW request \in ActualsRequests
    PROVE  ViewStep(row, WithActuals(row, request))
  <1> DEFINE new == WithActuals(row, request)
  <1>1. /\ new.status = row.status
        /\ new.fuel = [f \in Fuels |-> Given(request.fuel[f], row.fuel[f])]
    BY DEF VoyageRow, WithActuals
  <1>2. \A f \in Fuels : row.fuel[f] # NoRow => new.fuel[f] # NoRow
    BY <1>1, SentinelAssumption DEF ActualsRequests, Given
  <1> QED BY <1>1, <1>2 DEF ViewStep, FuelRows

\* Every edit of a voyage that stays stored is such a step.
LEMMA EditView ==
    ASSUME IInv, NEW v \in Voyages, Edit(v), Stored(v), Stored(v)'
    PROVE  ViewStep(voyages[v], voyages'[v])
  <1> DEFINE row == voyages[v]
             new == voyages'[v]
  <1>1. TypeOK
    BY DEF IInv
  <1>2. row \in VoyageRow /\ new # NULL
    BY <1>1 DEF TypeOK, Stored
  <1>3. ASSUME NEW patch \in PlanPatches, UpdateVoyage(v, patch)
        PROVE  ViewStep(row, new)
    <2>1. new = Patched(row, patch)
      BY <1>1, <1>3, RowReplaced DEF UpdateVoyage
    <2>2. new.status = row.status /\ new.fuel = row.fuel
      BY <1>2, <2>1 DEF Patched, VoyageRow
    <2> QED BY <2>2, SameView
  <1>4. ASSUME NEW plan \in Plans, NEW arr \in Times, AdoptPlan(v, plan, arr)
        PROVE  ViewStep(row, new)
    <2>1. new = [row EXCEPT !.plan = plan,
                            !.planned_arr = IF row.planned_dep = NULL THEN @ ELSE arr]
      BY <1>1, <1>4, RowReplaced DEF AdoptPlan
    <2>2. new.status = row.status /\ new.fuel = row.fuel
      BY <1>2, <2>1 DEF VoyageRow
    <2> QED BY <2>2, SameView
  <1>5. CASE EditPlan(v)
    BY <1>3, <1>4, <1>5 DEF EditPlan, CreateVoyage
  <1>6. ASSUME NEW to \in Statuses, NEW choice \in Policies \cup {KEEP},
               TransitionVoyage(v, to, choice)
        PROVE  ViewStep(row, new)
    <2>1. new = Transitioned(row, to, choice) /\ MayTransition(row, to, choice)
      BY <1>1, <1>6, RowReplaced DEF TransitionVoyage
    <2> QED BY <1>2, <2>1, TransitionedView
  <1>7. ASSUME NEW policy \in Policies, SetConfirmedInclusion(v, policy)
        PROVE  ViewStep(row, new)
    <2>1. new = [row EXCEPT !.policy = policy]
      BY <1>1, <1>7 DEF SetConfirmedInclusion, TypeOK
    <2>2. new.status = row.status /\ new.fuel = row.fuel
      BY <1>2, <2>1 DEF VoyageRow
    <2> QED BY <2>2, SameView
  <1>8. ~HardDeleteVoyage(v)
    BY <1>1, <1>2, RowReplaced DEF HardDeleteVoyage
  <1>9. CASE SoftDeleteVoyage(v)
    <2>1. new = [row EXCEPT !.is_deleted = TRUE]
      BY <1>1, <1>9 DEF SoftDeleteVoyage, TypeOK
    <2>2. new.status = row.status /\ new.fuel = row.fuel
      BY <1>2, <2>1 DEF VoyageRow
    <2> QED BY <2>2, SameView
  <1>10. CASE EditStatus(v)
    BY <1>6, <1>7, <1>8, <1>9, <1>10 DEF EditStatus
  <1>11. ASSUME NEW request \in ActualsRequests, SetActuals(v, request)
         PROVE  ViewStep(row, new)
    <2>1. new = WithActuals(row, request)
      BY <1>1, <1>11, RowReplaced DEF SetActuals
    <2> QED BY <1>2, <2>1, WithActualsView
  <1>12. ASSUME NEW field \in {"actual_dep", "actual_arr"}, NEW instant \in RecordTimes,
                FillFromPublicRecord(v, field, instant)
         PROVE  ViewStep(row, new)
    <2> DEFINE back == Reverted(row)
    <2>1. /\ new = IF field = "actual_dep" THEN [back EXCEPT !.actual_dep = instant]
                                          ELSE [back EXCEPT !.actual_arr = instant]
          /\ MayRevert(row)
      BY <1>1, <1>12, RowReplaced DEF FillFromPublicRecord
    <2>2. back \in VoyageRow
      BY <1>2, <2>1, RevertedView
    <2>3. new.status = back.status /\ new.fuel = back.fuel
      BY <2>1, <2>2 DEF VoyageRow
    <2> QED BY <1>2, <2>3, RevertedView DEF ViewStep, FuelRows
  <1>13. ASSUME NEW changed \in BOOLEAN, FillBerthFromPublicRecord(v, changed)
         PROVE  ViewStep(row, new)
    <2>1. new = Reverted(row)
      BY <1>1, <1>13, RowReplaced DEF FillBerthFromPublicRecord
    <2> QED BY <1>2, <2>1, RevertedView DEF ViewStep, FuelRows
  <1>14. CASE EstimateVoyage(v)
    BY <1>14, SameView DEF EstimateVoyage
  <1> QED BY <1>5, <1>10, <1>11, <1>12, <1>13, <1>14 DEF Edit, EditActuals

\* A voyage is created with a fuel row.
LEMMA CreatedView ==
    ASSUME IInv, NEW v \in Voyages, Edit(v), ~Stored(v), Stored(v)'
    PROVE  FuelRows(voyages'[v]) # {}
  <1>1. PICK dep \in Instant, arr \in Instant, year \in Years \cup {NULL}, plan \in Plans,
             fuels \in SUBSET Fuels : CreateVoyage(v, dep, arr, year, plan, fuels)
    BY DEF Edit, EditPlan, EditStatus, EditActuals, Live, AdoptPlan, TransitionVoyage,
           SetConfirmedInclusion, HardDeleteVoyage, SoftDeleteVoyage, FillFromPublicRecord,
           FillBerthFromPublicRecord, EstimateVoyage
  <1>2. voyages'[v].fuel = [f \in Fuels |-> IF f \in fuels THEN NULL ELSE NoRow] /\ fuels # {}
    BY <1>1, RowReplaced DEF CreateVoyage, DraftRow, IInv
  <1> QED BY <1>2, SentinelAssumption DEF FuelRows

\* Every step keeps the fuel rows.
LEMMA FuelStep ==
    ASSUME IInv, FuelInv, [Next]_vars
    PROVE  FuelInv'
  <1>1. ASSUME NEW w \in Voyages, Edit(w)
        PROVE  FuelInv'
    <2>1. \A v \in Voyages \ {w} : voyages'[v] = voyages[v]
      BY <1>1, EditEffect
    <2>2. Stored(w)' => FuelRows(voyages'[w]) # {}
      BY <1>1, EditView, CreatedView DEF FuelInv, ViewStep
    <2>3. \A v \in Voyages : voyages'[v] # NULL => FuelRows(voyages'[v]) # {}
      BY <2>1, <2>2 DEF FuelInv, Stored
    <2> QED BY <2>3 DEF FuelInv, Stored, FuelRows
  <1>2. CASE UNCHANGED voyages
    BY <1>2 DEF FuelInv, Stored, FuelRows
  <1> QED BY <1>1, <1>2 DEF Next, vars, SaveAnnualRun

\* The two invariants together hold throughout every behaviour.
LEMMA ViewsInductive == Spec => [](IInv /\ FuelInv)
  <1>1. Init => FuelInv
    BY DEF Init, FuelInv, Stored
  <1>2. IInv /\ FuelInv /\ [Next]_vars => FuelInv'
    BY FuelStep
  <1> QED BY <1>1, <1>2, Inductive, PTL DEF Spec

-----------------------------------------------------------------------------

\* What the invariants say of one live row.
LEMMA LiveRow ==
    ASSUME IInv, FuelInv, NEW v \in Voyages, Live(v)
    PROVE  /\ voyages[v] \in VoyageRow
           /\ RowInv(voyages[v])
           /\ ~NoFuelRecord(voyages[v])
  BY DEF IInv, FuelInv, TypeOK, Live, Stored, NoFuelRecord

\* What a run copies of a voyage, and which voyages.
LEMMA SnapshotAt ==
    ASSUME NEW year, NEW at
    PROVE  /\ DOMAIN Snapshot(year, at) = AnnualInclusions(year, at) \cup RemainingPlans(year)
           /\ \A v \in DOMAIN Snapshot(year, at) :
                  LET copy == Snapshot(year, at)[v]
                  IN  /\ copy.kind = "ACTUAL" <=> v \in AnnualInclusions(year, at)
                      /\ copy.kind = "PLAN" <=> v \in RemainingPlans(year)
                      /\ copy.distance = voyages[v].distance
                      /\ copy.fuel = voyages[v].fuel
                      /\ FuelRows(copy) = FuelRows(voyages[v])
  BY DEF Snapshot, SnapshotRow, AnnualInclusions, RemainingPlans, Included, FuelRows

\* A voyage that contributes its progress has declared the year: without one
\* it could not be included.
LEMMA ContributorPlanned ==
    ASSUME IInv, FuelInv, NEW v \in Voyages, NEW year \in Years, NEW at \in Times,
           Contributes(v, year, at)
    PROVE  /\ Live(v) /\ voyages[v].status = "IN_PROGRESS"
           /\ voyages[v].year = year
           /\ v \in RemainingPlans(year)
  <1>1. Live(v) /\ voyages[v].status = "IN_PROGRESS"
    BY DEF Contributes, FindInProgress, InProgress
  <1>2. RowInv(voyages[v])
    BY <1>1, LiveRow
  <1>3. voyages[v].year = year
    BY <1>2 DEF Contributes, RowInv
  <1> QED BY <1>1, <1>3 DEF Contributes, RemainingPlans, Included

\* The plans of the year hold the voyage whose progress counts, with a fuel row.
LEMMA ProgressPlanned == IInv /\ FuelInv => ProgressIsPlanned
  <1>1. ASSUME IInv, FuelInv, NEW v \in Voyages, NEW year \in Years, NEW at \in Times,
               Contributes(v, year, at)
        PROVE  v \in CurrentVoyageInFull(year, at)
    <2>1. v \in RemainingPlans(year) /\ Live(v)
      BY <1>1, ContributorPlanned
    <2>2. FuelRows(voyages[v]) # {}
      BY <1>1, <2>1, LiveRow DEF NoFuelRecord
    <2>3. /\ v \in DOMAIN Snapshot(year, at)
          /\ Snapshot(year, at)[v].kind = "PLAN"
          /\ ~NoFuelRecord(Snapshot(year, at)[v])
      BY <2>1, <2>2, SnapshotAt DEF NoFuelRecord
    <2>4. v \in YearEnd(year, at).remaining
      BY <2>3 DEF YearEnd, ProjectionInput
    <2> QED BY <1>1, <2>4 DEF CurrentVoyageInFull, Contributes
  <1> QED BY <1>1 DEF ProgressIsPlanned

\* The running total counts the elapsed part of a voyage only where the
\* projection of that year holds the voyage in full (ytd_cii and the
\* snapshot of annual_simulation choose by different columns).
THEOREM ProgressIsPlannedHolds == Spec => []ProgressIsPlanned
  BY ProgressPlanned, ViewsInductive, PTL

\* Nothing is substituted in a confirmed voyage.
LEMMA ConfirmedUnsubstituted ==
    ASSUME IInv, FuelInv, NEW v \in Voyages, Live(v), voyages[v].status = "CONFIRMED"
    PROVE  Substitutions(voyages[v]) = {} /\ ~NoFuelRecord(voyages[v])
  BY LiveRow DEF RowInv, Substitutions, FuelRows

\* Where one of the voyages that count has fuel and is none under way, there
\* is a total.
LEMMA SomeData ==
    ASSUME NEW counted, NEW v \in counted, ~NoFuelRecord(voyages[v])
    PROVE  DataAvailable(counted)
  BY DEF DataAvailable

\* A voyage feeds the feedback factor exactly when the total replaces
\* nothing of it, as long as it has a fuel row at all.
LEMMA PairIffUnsubstituted ==
    ASSUME IInv, FuelInv, NEW year \in Years, NEW at \in Times, NEW v \in AnnualInclusions(year, at)
    PROVE  v \in CompletedPairs(Snapshot(year, at)) <=> Substitutions(voyages[v]) = {}
  <1>1. v \in Voyages /\ Live(v)
    BY DEF AnnualInclusions, Included
  <1>2. ~NoFuelRecord(voyages[v])
    BY <1>1, LiveRow
  <1>3. LET copy == Snapshot(year, at)[v]
        IN  /\ v \in DOMAIN Snapshot(year, at)
            /\ copy.kind = "ACTUAL"
            /\ copy.distance = voyages[v].distance
            /\ copy.fuel = voyages[v].fuel
            /\ FuelRows(copy) = FuelRows(voyages[v])
    <2>1. /\ DOMAIN Snapshot(year, at) = AnnualInclusions(year, at) \cup RemainingPlans(year)
          /\ \A w \in DOMAIN Snapshot(year, at) :
                 /\ Snapshot(year, at)[w].kind = "ACTUAL" <=> w \in AnnualInclusions(year, at)
                 /\ Snapshot(year, at)[w].distance = voyages[w].distance
                 /\ Snapshot(year, at)[w].fuel = voyages[w].fuel
                 /\ FuelRows(Snapshot(year, at)[w]) = FuelRows(voyages[w])
      BY SnapshotAt, Zenon
    <2> QED BY <2>1
  <1>4. v \in CompletedPairs(Snapshot(year, at)) <=>
            /\ voyages[v].distance # NULL
            /\ \A f \in FuelRows(voyages[v]) : voyages[v].fuel[f] # NULL
    BY <1>2, <1>3 DEF CompletedPairs, NoFuelRecord
  <1> QED BY <1>4 DEF Substitutions

\* Only actuals make pairs, and what is missing of one is substituted.
LEMMA PairsUnsubstituted == IInv /\ FuelInv => PairsAreUnsubstituted
  <1>1. ASSUME IInv, FuelInv, NEW year \in Years, NEW at \in Times
        PROVE  CompletedPairs(Snapshot(year, at)) =
                   {v \in AnnualInclusions(year, at) : Substitutions(voyages[v]) = {}}
    <2>1. CompletedPairs(Snapshot(year, at)) \subseteq AnnualInclusions(year, at)
      BY SnapshotAt DEF CompletedPairs
    <2> QED BY <1>1, <2>1, PairIffUnsubstituted
  <1> QED BY <1>1 DEF PairsAreUnsubstituted

\* The feedback factor of a run and the substitutions of the running total
\* are two readings of the same rows and never contradict one another.
THEOREM PairsAreUnsubstitutedHolds == Spec => []PairsAreUnsubstituted
  BY PairsUnsubstituted, ViewsInductive, PTL

\* What confirm_voyage demands is what the data check, the pairs and the total
\* look for.
LEMMA ConfirmedMeasured == IInv /\ FuelInv => ConfirmedIsMeasured
  <1>1. ASSUME IInv, FuelInv, NEW v \in Voyages, NEW year \in Years,
               v \in Everything(year), voyages[v].status = "CONFIRMED"
        PROVE  /\ CompletenessAxis(voyages[v], FALSE) = "MEASURED"
               /\ VesselReason(year) = "none"
               /\ Impact(v, year) # "BASE_UNAVAILABLE"
               /\ \A at \in Times :
                      v \in AnnualInclusions(year, at) =>
                          v \in CompletedPairs(Snapshot(year, at))
    <2>1. Substitutions(voyages[v]) = {} /\ ~NoFuelRecord(voyages[v])
      BY <1>1, ConfirmedUnsubstituted DEF Everything, Included
    <2>2. CompletenessAxis(voyages[v], FALSE) = "MEASURED"
      BY <1>1, <2>1 DEF CompletenessAxis, Severities
    <2>3. DataAvailable(Everything(year))
      BY <1>1, <2>1, SomeData
    <2>4. Impact(v, year) # "BASE_UNAVAILABLE"
      BY <2>3 DEF Impact
    <2> QED BY <1>1, <2>1, <2>2, <2>3, <2>4, PairIffUnsubstituted DEF VesselReason
  <1>2. ASSUME IInv, FuelInv, NEW year \in Years, NEW at \in Times,
               \A v \in AnnualInclusions(year, at) : voyages[v].status = "CONFIRMED"
        PROVE  YtdTotal(year, at).warnings = {}
    <2>1. \A v \in AnnualInclusions(year, at) :
              Substitutions(voyages[v]) = {} /\ ~NoFuelRecord(voyages[v])
      BY <1>2, ConfirmedUnsubstituted DEF AnnualInclusions, Included
    <2>2. TotalWarnings(year, at) = {}
      BY <2>1 DEF TotalWarnings
    <2> QED BY <2>2 DEF YtdTotal
  <1> QED BY <1>1, <1>2 DEF ConfirmedIsMeasured

\* What is confirmed is measured, in the data check, the feedback factor and
\* the running total alike: confirm_voyage demands what each of them asks for.
THEOREM ConfirmedIsMeasuredHolds == Spec => []ConfirmedIsMeasured
  BY ConfirmedMeasured, ViewsInductive, PTL

\* The completion of a voyage that counts.
LEMMA CompletedStays ==
    ASSUME IInv, FuelInv, [Next]_vars, NEW v \in Voyages, NEW year \in Years, NEW at \in Times,
           Contributes(v, year, at), Stored(v)', voyages'[v].status = "COMPLETED",
           voyages'[v].policy # "EXCLUDE",
           ~(Arrival(voyages[v]) # NULL /\ Arrival(voyages[v]) > at)
    PROVE  v \in AnnualInclusions(year, at)'
  <1> DEFINE row == voyages[v]
             new == voyages'[v]
  <1>1. /\ Live(v) /\ row.status = "IN_PROGRESS" /\ row.year = year /\ row \in VoyageRow
    BY ContributorPlanned, LiveRow
  <1>2. PICK w \in Voyages : Edit(w)
    BY <1>1 DEF Next, vars, SaveAnnualRun
  <1>3. w = v
    BY <1>1, <1>2, EditEffect
  <1>4. PICK to \in Statuses, choice \in Policies \cup {KEEP} :
            MayTransition(row, to, choice) /\ new = Transitioned(row, to, choice)
    BY <1>1, <1>2, <1>3, EditView DEF ViewStep, Live
  <1>5. /\ new.status = to /\ new.policy = PolicyAfter(row, to, choice)
        /\ new.year = row.year /\ new.is_deleted = row.is_deleted
        /\ new.planned_arr = row.planned_arr /\ new.actual_arr = row.actual_arr
    BY <1>1, <1>4 DEF Transitioned, VoyageRow
  <1>6. new.policy = "INCLUDE_AS_ACTUAL"
    BY <1>4, <1>5 DEF MayTransition, PolicyByStatus
  <1>7. Arrival(new) = Arrival(row)
    BY <1>5 DEF Arrival
  <1>8. Arrival(row) \in Times \cup {NULL}
    BY <1>1 DEF Arrival, VoyageRow, Instant
  <1>9. ArrivedBy(new, at)
    BY <1>7, <1>8, TimesAssumption DEF ArrivedBy
  <1>10. Included(v, year, "INCLUDE_AS_ACTUAL")'
    BY <1>1, <1>5, <1>6 DEF Included, Live
  <1> QED BY <1>9, <1>10 DEF AnnualInclusions, ArrivedBy, Arrival

\* transition_voyage keeps year and arrival, and a completed voyage that is
\* not excluded is included as an actual: the running total has no gap.
THEOREM CompletionKeepsVoyageCountedHolds == Spec => CompletionKeepsVoyageCounted
  <1>1. IInv /\ FuelInv /\ [Next]_vars => LandsInTheTotal
    BY CompletedStays DEF LandsInTheTotal
  <1> QED BY <1>1, ViewsInductive, PTL DEF Spec, CompletionKeepsVoyageCounted

\* Whatever year and cut-off a stored run has, no change of the snapshot it
\* would take today passes it by.
THEOREM SnapshotChangeMarksRunsHolds == Spec => SnapshotChangeMarksRuns
  <1>1. ASSUME IInv, [Next]_vars, ProjectionMoves, NEW r \in Runs, annual[r] = "fresh"
        PROVE  annual'[r] = "stale"
    <2>1. voyages' # voyages
      BY <1>1 DEF ProjectionMoves, Snapshot, SnapshotRow, AnnualInclusions, RemainingPlans,
                  Included, ArrivedBy, Arrival, Live, Stored
    <2>2. PICK v \in Voyages : Edit(v)
      BY <1>1, <2>1 DEF Next, vars, SaveAnnualRun
    <2>3. MarkAnnual
      BY <1>1, <2>1, <2>2, EditEffect
    <2> QED BY <1>1, <2>3 DEF MarkAnnual, Marked
  <1>2. IInv /\ [Next]_vars =>
            (ProjectionMoves => \A r \in Runs : annual[r] = "fresh" => annual'[r] = "stale")
    BY <1>1
  <1> QED BY <1>2, Inductive, PTL DEF Spec, SnapshotChangeMarksRuns

-----------------------------------------------------------------------------
(* Annual runs beside the edits of voyages and of the vessel (AnnualRuns). *)
(* What a run has read so far is, at each of its steps, the corresponding  *)
(* part of what it would read now, as long as nothing that commits changes *)
(* that; what changes it after the INSERT marks the run.                   *)

\* The steps a run can be at.
RunSteps == {"idle", "saved", "refused"} \cup Reading

RunType == [pc : RunSteps, vessel : Particulars,
            input : [Voyages -> View \cup {NULL}], overtaken : BOOLEAN]

ARTypes ==
    /\ IInv
    /\ vessel \in Particulars
    /\ rows \subseteq Particulars
    /\ run \in [Runs -> RunType]

\* The rows of some policies that a run counts, without their fuel rows.
WithoutFuel(r, policies) ==
    [v \in Voyages |->
        LET view == RunInput(r)[v]
        IN  IF view # NULL /\ view.kind \in policies
              THEN [view EXCEPT !.fuel = NULL]
              ELSE NULL]

\* What an undisturbed run holds at each of its steps, of what is there now.
ReadSoFar(r, pc) ==
    CASE pc = "actual" -> NothingRead
      [] pc = "planned" -> WithoutFuel(r, {"INCLUDE_AS_ACTUAL"})
      [] pc = "fuel" -> WithoutFuel(r, Policies)
      [] OTHER -> RunInput(r)

\* A run is stored once and after its reads; while nothing overtakes it, its
\* reads are of what is there now.
RunInv(r) ==
    /\ annual[r] # "none" => run[r].pc = "saved"
    /\ run[r].pc = "idle" => run[r].input = NothingRead
    /\ run[r].pc \in Reading /\ ~run[r].overtaken =>
           /\ run[r].input = ReadSoFar(r, run[r].pc)
           /\ run[r].vessel = vessel
    /\ annual[r] = "fresh" /\ ~run[r].overtaken =>
           /\ run[r].input = RunInput(r)
           /\ run[r].vessel.specs = vessel.specs

ARInv == ARTypes /\ \A r \in Runs : RunInv(r)

\* What a run counts of a voyage is a view of its row, with the row's fuel.
LEMMA InputType ==
    ASSUME IInv, NEW r \in Runs, NEW v \in Voyages
    PROVE  /\ RunInput(r)[v] \in View \cup {NULL}
           /\ RunInput(r)[v] # NULL =>
                  /\ RunInput(r)[v] \in View
                  /\ Stored(v)
                  /\ RunInput(r)[v].fuel = voyages[v].fuel
                  /\ RunInput(r)[v].kind \in {"INCLUDE_AS_ACTUAL", "INCLUDE_AS_PLAN"}
  <1>1. voyages[v] \in VoyageRow \cup {NULL}
    BY DEF IInv, TypeOK
  <1>2. RunInput(r)[v] = CountedIn(r, AnnualView(voyages[v]))
    BY DEF RunInput
  <1>3. RunInput(r)[v] = NULL \/ RunInput(r)[v] = AnnualView(voyages[v])
    BY <1>2 DEF CountedIn
  <1>4. ASSUME AnnualView(voyages[v]) # NULL
        PROVE  /\ AnnualView(voyages[v]) \in View
               /\ Stored(v)
               /\ AnnualView(voyages[v]).fuel = voyages[v].fuel
               /\ AnnualView(voyages[v]).kind \in {"INCLUDE_AS_ACTUAL", "INCLUDE_AS_PLAN"}
    <2>1. voyages[v] \in VoyageRow /\ voyages[v] # NULL /\ voyages[v].policy # "EXCLUDE"
      BY <1>1, <1>4 DEF AnnualView
    <2>2. PICK arrival \in Instant :
            AnnualView(voyages[v]) =
              [kind |-> voyages[v].policy, year |-> voyages[v].year,
               plan |-> voyages[v].plan, distance |-> voyages[v].distance,
               fuel |-> voyages[v].fuel, arrival |-> arrival]
      <3>1. /\ NULL \in Instant
            /\ voyages[v].actual_arr \in Instant
            /\ voyages[v].planned_arr \in Instant
        BY <2>1 DEF VoyageRow, Instant
      <3> QED BY <1>4, <3>1 DEF AnnualView
    <2>3. /\ voyages[v].policy \in Policies
          /\ voyages[v].year \in Years \cup {NULL}
          /\ voyages[v].plan \in Plans
          /\ voyages[v].distance \in Distances \cup {NULL}
          /\ voyages[v].fuel \in [Fuels -> Tons \cup {NULL, NoRow}]
      BY <2>1 DEF VoyageRow
    <2> QED BY <2>1, <2>2, <2>3 DEF View, Stored, Policies
  <1> QED BY <1>3, <1>4

\* Taking the fuel from a view leaves a view.
LEMMA FuelTaken ==
    ASSUME NEW view \in View, NEW fuel \in [Fuels -> Tons \cup {NULL, NoRow}] \cup {NULL}
    PROVE  /\ [view EXCEPT !.fuel = fuel] \in View
           /\ [view EXCEPT !.fuel = fuel] # NULL
           /\ [[view EXCEPT !.fuel = NULL] EXCEPT !.fuel = view.fuel] = view
           /\ [view EXCEPT !.fuel = NULL] # NULL
  <1>1. [view EXCEPT !.fuel = fuel] \in View /\ [view EXCEPT !.fuel = NULL] \in View
    BY DEF View
  <1>2. [[view EXCEPT !.fuel = NULL] EXCEPT !.fuel = view.fuel] = view
    BY DEF View
  <1> QED BY <1>1, <1>2, ViewAssumption


\* Where the rows, the particulars and the run itself stay, nothing changes.
LEMMA Elsewhere ==
    ASSUME ARInv, NEW s \in Runs, run'[s] = run[s], annual'[s] = annual[s],
           UNCHANGED <<voyages, vessel>>
    PROVE  RunInv(s)'
  <1>1. RunInput(s)' = RunInput(s)
    BY DEF RunInput
  <1>2. ReadSoFar(s, run[s].pc)' = ReadSoFar(s, run[s].pc)
    BY <1>1 DEF ReadSoFar, WithoutFuel
  <1> QED BY <1>1, <1>2 DEF ARInv, RunInv

\* A SELECT of run r replaces what the run holds.
LEMMA SelectKeeps ==
    ASSUME ARInv, NEW r \in Runs, NEW step \in RunSteps, NEW v0 \in Particulars,
           NEW input \in [Voyages -> View \cup {NULL}],
           run' = [run EXCEPT ![r].pc = step, ![r].vessel = v0, ![r].input = input],
           UNCHANGED vars, UNCHANGED <<vessel, rows>>,
           run[r].pc \notin {"saved"},
           step \in Reading \cup {"refused"},
           step \in Reading /\ ~run[r].overtaken =>
               input = ReadSoFar(r, step) /\ v0 = vessel
    PROVE  ARInv'
  <1>1. run[r] \in RunType
    BY DEF ARInv, ARTypes
  <1>2. run'[r] = [pc |-> step, vessel |-> v0, input |-> input, overtaken |-> run[r].overtaken]
    BY <1>1 DEF ARInv, ARTypes, RunType
  <1>3. \A s \in Runs \ {r} : run'[s] = run[s]
    BY DEF ARInv, ARTypes
  <1>4. run'[r] \in RunType
    <2>1. run'[r] = [run[r] EXCEPT !.pc = step, !.vessel = v0, !.input = input]
      BY DEF ARInv, ARTypes
    <2>2. [run[r] EXCEPT !.pc = step, !.vessel = v0, !.input = input] \in RunType
      BY <1>1 DEF RunType
    <2> QED BY <2>1, <2>2
  <1>5. run' \in [Runs -> RunType]
    BY <1>3, <1>4 DEF ARInv, ARTypes
  <1>6. IInv'
    BY NextStep DEF ARInv, ARTypes
  <1>7. ARTypes'
    BY <1>5, <1>6 DEF ARInv, ARTypes
  <1>8. UNCHANGED <<voyages, vessel>> /\ annual' = annual
    BY DEF vars
  <1>9. ASSUME NEW s \in Runs, s # r
        PROVE  RunInv(s)'
    BY <1>3, <1>8, <1>9, Elsewhere
  <1>10. RunInv(r)'
    <2>1. RunInput(r)' = RunInput(r)
      BY <1>8 DEF RunInput
    <2>2. ReadSoFar(r, step)' = ReadSoFar(r, step)
      BY <2>1 DEF ReadSoFar, WithoutFuel
    <2>3. ReadSoFar(r, run[r].pc)' = ReadSoFar(r, step)
      BY <1>2, <2>1 DEF ReadSoFar, WithoutFuel
    <2>4. annual'[r] = "none"
      BY <1>8 DEF ARInv, ARTypes, IInv, TypeOK, Flags, RunInv
    <2> QED BY <1>2, <1>8, <2>3, <2>4 DEF RunInv, Reading
  <1> QED BY <1>7, <1>9, <1>10 DEF ARInv

\* The SELECT of the vessel.
LEMMA ReadVesselKeeps ==
    ASSUME ARInv, NEW r \in Runs, ByRun(ReadVessel(r))
    PROVE  ARInv'
  <1>1. run[r] \in RunType /\ run[r].pc = "idle" /\ run[r].input = NothingRead
    BY DEF ARInv, ARTypes, ByRun, ReadVessel, RunInv
  <1>2. run[r].input \in [Voyages -> View \cup {NULL}]
    BY <1>1 DEF RunType
  <1>3. run' = [run EXCEPT ![r].pc = "actual", ![r].vessel = vessel, ![r].input = run[r].input]
    BY <1>1 DEF ARInv, ARTypes, ByRun, ReadVessel, RunType
  <1>4. "actual" \in RunSteps \cap Reading /\ vessel \in Particulars
    BY DEF RunSteps, Reading, ARInv, ARTypes
  <1>5. run[r].input = ReadSoFar(r, "actual")
    BY <1>1 DEF ReadSoFar
  <1> QED BY <1>1, <1>2, <1>3, <1>4, <1>5, SelectKeeps DEF ByRun, ReadVessel

\* What the two SELECTs of voyages return.
LEMMA SelectedType ==
    ASSUME ARInv, NEW r \in Runs, NEW policy
    PROVE  Selected(r, policy) \in [Voyages -> View \cup {NULL}]
  <1>1. ASSUME NEW v \in Voyages
        PROVE  Selected(r, policy)[v] \in View \cup {NULL}
    <2>1. run[r].input[v] \in View \cup {NULL}
      BY DEF ARInv, ARTypes, RunType
    <2>2. RunInput(r)[v] # NULL => [RunInput(r)[v] EXCEPT !.fuel = NULL] \in View
      BY InputType, FuelTaken DEF ARInv, ARTypes
    <2> QED BY <2>1, <2>2 DEF Selected
  <1> QED BY <1>1 DEF Selected

\* The SELECT of the actuals.
LEMMA ReadActualKeeps ==
    ASSUME ARInv, NEW r \in Runs, ByRun(ReadActual(r))
    PROVE  ARInv'
  <1>1. run[r] \in RunType /\ run[r].pc = "actual"
    BY DEF ARInv, ARTypes, ByRun, ReadActual
  <1>2. run' = [run EXCEPT ![r].pc = "planned", ![r].vessel = run[r].vessel,
                           ![r].input = Selected(r, "INCLUDE_AS_ACTUAL")]
    BY <1>1 DEF ARInv, ARTypes, ByRun, ReadActual, RunType
  <1>3. "planned" \in RunSteps \cap Reading /\ run[r].vessel \in Particulars
    BY <1>1 DEF RunSteps, Reading, RunType
  <1>4. ~run[r].overtaken => run[r].input = NothingRead /\ run[r].vessel = vessel
    BY <1>1 DEF ARInv, RunInv, Reading, ReadSoFar
  <1>5. run[r].input = NothingRead =>
            Selected(r, "INCLUDE_AS_ACTUAL") = WithoutFuel(r, {"INCLUDE_AS_ACTUAL"})
    BY DEF Selected, WithoutFuel, NothingRead
  <1>6. WithoutFuel(r, {"INCLUDE_AS_ACTUAL"}) = ReadSoFar(r, "planned")
    BY DEF ReadSoFar
  <1>7. UNCHANGED vars /\ UNCHANGED <<vessel, rows>>
    BY DEF ByRun, ReadActual
  <1>8. Selected(r, "INCLUDE_AS_ACTUAL") \in [Voyages -> View \cup {NULL}]
    BY SelectedType
  <1>9. ~run[r].overtaken =>
            Selected(r, "INCLUDE_AS_ACTUAL") = ReadSoFar(r, "planned") /\ run[r].vessel = vessel
    BY <1>4, <1>5, <1>6
  <1>10. run[r].pc \notin {"saved"}
    BY <1>1
  <1> QED BY <1>2, <1>3, <1>7, <1>8, <1>9, <1>10, SelectKeeps

\* The SELECT of the plans.
LEMMA ReadPlannedKeeps ==
    ASSUME ARInv, NEW r \in Runs, ByRun(ReadPlanned(r))
    PROVE  ARInv'
  <1>1. run[r] \in RunType /\ run[r].pc = "planned"
    BY DEF ARInv, ARTypes, ByRun, ReadPlanned
  <1>2. run' = [run EXCEPT ![r].pc = "fuel", ![r].vessel = run[r].vessel,
                           ![r].input = Selected(r, "INCLUDE_AS_PLAN")]
    BY <1>1 DEF ARInv, ARTypes, ByRun, ReadPlanned, RunType
  <1>3. "fuel" \in RunSteps \cap Reading /\ run[r].vessel \in Particulars
    BY <1>1 DEF RunSteps, Reading, RunType
  <1>4. ~run[r].overtaken =>
            run[r].input = WithoutFuel(r, {"INCLUDE_AS_ACTUAL"}) /\ run[r].vessel = vessel
    BY <1>1 DEF ARInv, RunInv, Reading, ReadSoFar
  <1>5. ASSUME run[r].input = WithoutFuel(r, {"INCLUDE_AS_ACTUAL"})
        PROVE  Selected(r, "INCLUDE_AS_PLAN") = WithoutFuel(r, Policies)
    <2>1. ASSUME NEW v \in Voyages
          PROVE  Selected(r, "INCLUDE_AS_PLAN")[v] = WithoutFuel(r, Policies)[v]
      BY <1>5, InputType DEF ARInv, ARTypes, Selected, WithoutFuel, Policies
    <2> QED BY <2>1 DEF Selected, WithoutFuel
  <1>6. WithoutFuel(r, Policies) = ReadSoFar(r, "fuel")
    BY DEF ReadSoFar
  <1>7. UNCHANGED vars /\ UNCHANGED <<vessel, rows>>
    BY DEF ByRun, ReadPlanned
  <1>8. Selected(r, "INCLUDE_AS_PLAN") \in [Voyages -> View \cup {NULL}]
    BY SelectedType
  <1>9. ~run[r].overtaken =>
            Selected(r, "INCLUDE_AS_PLAN") = ReadSoFar(r, "fuel") /\ run[r].vessel = vessel
    BY <1>4, <1>5, <1>6
  <1>10. run[r].pc \notin {"saved"}
    BY <1>1
  <1> QED BY <1>2, <1>3, <1>7, <1>8, <1>9, <1>10, SelectKeeps

\* The SELECT of the fuel rows.
LEMMA ReadFuelKeeps ==
    ASSUME ARInv, NEW r \in Runs, ByRun(ReadFuel(r))
    PROVE  ARInv'
  <1> DEFINE input == [v \in Voyages |->
                          IF run[r].input[v] = NULL THEN NULL
                          ELSE [run[r].input[v] EXCEPT !.fuel = FuelOf(v)]]
  <1>1. run[r] \in RunType /\ run[r].pc = "fuel"
    BY DEF ARInv, ARTypes, ByRun, ReadFuel
  <1>2. run' = [run EXCEPT ![r].pc = "save", ![r].vessel = run[r].vessel, ![r].input = input]
    BY <1>1 DEF ARInv, ARTypes, ByRun, ReadFuel, RunType
  <1>3. "save" \in RunSteps \cap Reading /\ run[r].vessel \in Particulars
    BY <1>1 DEF RunSteps, Reading, RunType
  <1>4. ~run[r].overtaken => run[r].input = WithoutFuel(r, Policies) /\ run[r].vessel = vessel
    BY <1>1 DEF ARInv, RunInv, Reading, ReadSoFar
  <1>5. ASSUME NEW v \in Voyages
        PROVE  FuelOf(v) \in [Fuels -> Tons \cup {NULL, NoRow}]
    BY DEF FuelOf, Stored, ARInv, ARTypes, IInv, TypeOK, VoyageRow
  <1>6. input \in [Voyages -> View \cup {NULL}]
    <2>1. ASSUME NEW v \in Voyages
          PROVE  input[v] \in View \cup {NULL}
      <3>1. run[r].input[v] \in View \cup {NULL}
        BY <1>1 DEF RunType
      <3> QED BY <1>5, <3>1, FuelTaken
    <2> QED BY <2>1
  <1>7. ASSUME run[r].input = WithoutFuel(r, Policies)
        PROVE  input = RunInput(r)
    <2>1. ASSUME NEW v \in Voyages
          PROVE  input[v] = RunInput(r)[v]
      <3>1. CASE RunInput(r)[v] = NULL
        BY <1>7, <3>1 DEF WithoutFuel
      <3>2. CASE RunInput(r)[v] # NULL
        <4>1. /\ RunInput(r)[v] \in View
              /\ RunInput(r)[v].kind \in Policies
              /\ FuelOf(v) = RunInput(r)[v].fuel
          BY <3>2, InputType DEF ARInv, ARTypes, FuelOf, Policies
        <4>2. run[r].input[v] = [RunInput(r)[v] EXCEPT !.fuel = NULL]
          BY <1>7, <3>2, <4>1 DEF WithoutFuel
        <4>3. NULL \in [Fuels -> Tons \cup {NULL, NoRow}] \cup {NULL}
          OBVIOUS
        <4>4. run[r].input[v] # NULL
          BY <4>1, <4>2, <4>3, FuelTaken
        <4>5. [[RunInput(r)[v] EXCEPT !.fuel = NULL] EXCEPT !.fuel = RunInput(r)[v].fuel]
                = RunInput(r)[v]
          BY <4>1, <4>3, FuelTaken
        <4> QED BY <4>1, <4>2, <4>4, <4>5
      <3> QED BY <3>1, <3>2
    <2>2. RunInput(r) = [v \in Voyages |-> RunInput(r)[v]]
      BY DEF RunInput
    <2> QED BY <2>1, <2>2
  <1>8. RunInput(r) = ReadSoFar(r, "save")
    BY DEF ReadSoFar
  <1> HIDE DEF input
  <1> QED BY <1>1, <1>2, <1>3, <1>4, <1>6, <1>7, <1>8, SelectKeeps DEF ByRun, ReadFuel

\* A projection without a basis ends the run.
LEMMA RefuseKeeps ==
    ASSUME ARInv, NEW r \in Runs, ByRun(Refuse(r))
    PROVE  ARInv'
  <1>1. run[r] \in RunType /\ run[r].pc = "save"
    BY DEF ARInv, ARTypes, ByRun, Refuse
  <1>2. run' = [run EXCEPT ![r].pc = "refused", ![r].vessel = run[r].vessel,
                           ![r].input = run[r].input]
    BY <1>1 DEF ARInv, ARTypes, ByRun, Refuse, RunType
  <1>3. "refused" \in RunSteps \ Reading
    BY DEF RunSteps, Reading
  <1>4. run[r].vessel \in Particulars /\ run[r].input \in [Voyages -> View \cup {NULL}]
    BY <1>1 DEF RunType
  <1> QED BY <1>1, <1>2, <1>3, <1>4, SelectKeeps DEF ByRun, Refuse

\* The INSERT of the run.
LEMMA SaveKeeps ==
    ASSUME ARInv, NEW r \in Runs, ByRun(Save(r))
    PROVE  ARInv'
  <1>1. run[r] \in RunType /\ run[r].pc = "save"
    BY DEF ARInv, ARTypes, ByRun, Save
  <1>2. run'[r] = [run[r] EXCEPT !.pc = "saved"] /\ \A s \in Runs \ {r} : run'[s] = run[s]
    BY DEF ARInv, ARTypes, ByRun, Save
  <1>3. run'[r] \in RunType
    BY <1>1, <1>2 DEF RunType, RunSteps
  <1>4. run' \in [Runs -> RunType]
    BY <1>2, <1>3 DEF ARInv, ARTypes, ByRun, Save
  <1>5. IInv'
    BY NextStep DEF ARInv, ARTypes, ByRun, Save, Next
  <1>6. ARTypes'
    BY <1>4, <1>5 DEF ARInv, ARTypes, ByRun
  <1>7. /\ UNCHANGED <<voyages, vessel>>
        /\ annual'[r] = "fresh"
        /\ \A s \in Runs \ {r} : annual'[s] = annual[s]
    BY DEF ByRun, Save, SaveAnnualRun, ARInv, ARTypes, IInv, TypeOK
  <1>8. ASSUME NEW s \in Runs, s # r
        PROVE  RunInv(s)'
    BY <1>2, <1>7, <1>8, Elsewhere
  <1>9. RunInv(r)'
    <2>1. RunInput(r)' = RunInput(r)
      BY <1>7 DEF RunInput
    <2>2. ~run[r].overtaken => run[r].input = RunInput(r) /\ run[r].vessel = vessel
      BY <1>1 DEF ARInv, RunInv, Reading, ReadSoFar
    <2>3. /\ run'[r].pc = "saved"
          /\ run'[r].input = run[r].input
          /\ run'[r].vessel = run[r].vessel
          /\ run'[r].overtaken = run[r].overtaken
      BY <1>1, <1>2 DEF RunType
    <2> QED BY <1>7, <2>1, <2>2, <2>3 DEF RunInv, Reading
  <1> QED BY <1>6, <1>8, <1>9 DEF ARInv

\* What the history variable remembers of a step of somebody else.
LEMMA OvertakingKeeps ==
    ASSUME ARInv, NEW CONSTANT changed \in [Runs -> BOOLEAN],
           run' = [r \in Runs |->
                      [run[r] EXCEPT !.overtaken = @ \/ (run[r].pc \in Reading /\ changed[r])]]
    PROVE  /\ run' \in [Runs -> RunType]
           /\ \A r \in Runs :
                  /\ run'[r].pc = run[r].pc
                  /\ run'[r].input = run[r].input
                  /\ run'[r].vessel = run[r].vessel
                  /\ ~run'[r].overtaken =>
                         ~run[r].overtaken /\ (run[r].pc \in Reading => ~changed[r])
  <1>1. ASSUME NEW r \in Runs
        PROVE  /\ run'[r] \in RunType
               /\ run'[r].pc = run[r].pc
               /\ run'[r].input = run[r].input
               /\ run'[r].vessel = run[r].vessel
               /\ ~run'[r].overtaken =>
                      ~run[r].overtaken /\ (run[r].pc \in Reading => ~changed[r])
    <2>1. run[r] \in RunType /\ run[r].overtaken \in BOOLEAN
      BY DEF ARInv, ARTypes, RunType
    <2>2. run'[r] = [run[r] EXCEPT !.overtaken =
                        run[r].overtaken \/ (run[r].pc \in Reading /\ changed[r])]
      OBVIOUS
    <2>3. PICK overtaken \in BOOLEAN :
              overtaken = (run[r].overtaken \/ (run[r].pc \in Reading /\ changed[r]))
      OBVIOUS
    <2>4. run'[r] = [run[r] EXCEPT !.overtaken = overtaken]
      BY <2>2, <2>3
    <2>5. run'[r] \in RunType
      BY <2>1, <2>4 DEF RunType
    <2>6. /\ run'[r].pc = run[r].pc
          /\ run'[r].input = run[r].input
          /\ run'[r].vessel = run[r].vessel
          /\ run'[r].overtaken = overtaken
      BY <2>1, <2>4 DEF RunType
    <2> QED BY <2>3, <2>5, <2>6
  <1> QED BY <1>1

\* An edit marks every stored run or leaves the marks alone.
LEMMA EditMarks ==
    ASSUME NEW v \in Voyages, Edit(v)
    PROVE  MarkAnnual \/ UNCHANGED annual
  BY DEF Edit, EditPlan, CreateVoyage, UpdateVoyage, AdoptPlan, EditStatus, TransitionVoyage,
         SetConfirmedInclusion, HardDeleteVoyage, SoftDeleteVoyage, EditActuals, SetActuals,
         FillFromPublicRecord, FillBerthFromPublicRecord, EstimateVoyage, MarkAnnualIf

\* A mark leaves no run fresh and invents none.
LEMMA MarkedRun ==
    ASSUME ARInv, NEW r \in Runs, MarkAnnual
    PROVE  annual'[r] # "fresh" /\ (annual'[r] # "none" => annual[r] # "none")
  BY DEF ARInv, ARTypes, IInv, TypeOK, MarkAnnual, Marked, Flags

\* An operation on a voyage, beside runs that are reading.
LEMMA EditVoyageKeeps ==
    ASSUME ARInv, NEW v \in Voyages, EditVoyage(v)
    PROVE  ARInv'
  <1>1. PICK changed \in [Runs -> BOOLEAN] :
            \A r \in Runs : changed[r] <=> RunInput(r)' # RunInput(r)
    <2>1. [r \in Runs |-> RunInput(r)' # RunInput(r)] \in [Runs -> BOOLEAN]
      OBVIOUS
    <2> QED BY <2>1
  <1>2. run' = [r \in Runs |->
                   [run[r] EXCEPT !.overtaken = @ \/ (run[r].pc \in Reading /\ changed[r])]]
    BY <1>1 DEF EditVoyage, Overtaking
  <1>3. IInv'
    BY NextStep DEF ARInv, ARTypes, EditVoyage, Next
  <1>4. ARTypes'
    BY <1>2, <1>3, OvertakingKeeps DEF ARInv, ARTypes, EditVoyage
  <1>5. ASSUME NEW r \in Runs
        PROVE  RunInv(r)'
    <2>1. /\ run'[r].pc = run[r].pc
          /\ run'[r].input = run[r].input
          /\ run'[r].vessel = run[r].vessel
          /\ ~run'[r].overtaken =>
                 /\ ~run[r].overtaken
                 /\ run[r].pc \in Reading => RunInput(r)' = RunInput(r)
      BY <1>1, <1>2, OvertakingKeeps
    <2>2. annual'[r] # "none" => annual[r] # "none"
      BY EditMarks, MarkedRun DEF EditVoyage
    <2>3. annual'[r] = "fresh" => annual[r] = "fresh" /\ RunInput(r)' = RunInput(r)
      BY EditMarks, EditEffect, MarkedRun DEF ARInv, ARTypes, EditVoyage, RunInput
    <2>4. RunInput(r)' = RunInput(r) => ReadSoFar(r, run[r].pc)' = ReadSoFar(r, run[r].pc)
      BY <2>1 DEF ReadSoFar, WithoutFuel
    <2>5. vessel' = vessel
      BY DEF EditVoyage
    <2> QED BY <2>1, <2>2, <2>3, <2>4, <2>5 DEF ARInv, RunInv
  <1> QED BY <1>4, <1>5 DEF ARInv

\* A PATCH of the vessel, which may compare with an earlier row.
LEMMA UpdateVesselKeeps ==
    ASSUME ARInv, NEW loaded \in rows, NEW asked \in Particulars, UpdateVessel(loaded, asked)
    PROVE  ARInv'
  <1>1. PICK changed \in [Runs -> BOOLEAN] : \A r \in Runs : changed[r] <=> vessel' # vessel
    <2>1. [r \in Runs |-> vessel' # vessel] \in [Runs -> BOOLEAN]
      OBVIOUS
    <2> QED BY <2>1
  <1>2. run' = [r \in Runs |->
                   [run[r] EXCEPT !.overtaken = @ \/ (run[r].pc \in Reading /\ changed[r])]]
    BY <1>1 DEF UpdateVessel, Overtaking
  <1>3. vessel' \in Particulars /\ (asked.specs = loaded.specs => vessel'.specs = vessel.specs)
    BY DEF UpdateVessel, Particulars, ARInv, ARTypes
  <1>4. MarkAnnual \/ UNCHANGED annual
    BY DEF UpdateVessel
  <1>5. IInv'
    <2>1. UNCHANGED voyages
      BY DEF UpdateVessel
    <2>2. annual' \in [Runs -> Flags]
      BY <1>4, MarkType DEF ARInv, ARTypes, IInv, TypeOK
    <2>3. /\ calc' \in [Voyages -> Flags]
          /\ \A v \in Voyages : calc'[v] # "none" => calc[v] # "none"
      BY DEF UpdateVessel, Marked, Flags, ARInv, ARTypes, IInv, TypeOK
    <2> QED BY <2>1, <2>2, <2>3 DEF ARInv, ARTypes, IInv, TypeOK, CalculationKeepsRow, Stored
  <1>6. ARTypes'
    BY <1>2, <1>3, <1>5, OvertakingKeeps DEF ARInv, ARTypes, UpdateVessel
  <1>7. ASSUME NEW r \in Runs
        PROVE  RunInv(r)'
    <2>1. /\ run'[r].pc = run[r].pc
          /\ run'[r].input = run[r].input
          /\ run'[r].vessel = run[r].vessel
          /\ ~run'[r].overtaken =>
                 ~run[r].overtaken /\ (run[r].pc \in Reading => vessel' = vessel)
      BY <1>1, <1>2, OvertakingKeeps
    <2>2. annual'[r] # "none" => annual[r] # "none"
      BY <1>4, MarkedRun
    <2>3. annual'[r] = "fresh" => annual[r] = "fresh" /\ vessel'.specs = vessel.specs
      BY <1>3, MarkedRun DEF UpdateVessel
    <2>4. RunInput(r)' = RunInput(r)
      BY DEF UpdateVessel, RunInput
    <2>5. ReadSoFar(r, run[r].pc)' = ReadSoFar(r, run[r].pc)
      BY <2>1, <2>4 DEF ReadSoFar, WithoutFuel
    <2> QED BY <2>1, <2>2, <2>3, <2>4, <2>5 DEF ARInv, RunInv
  <1> QED BY <1>6, <1>7 DEF ARInv

\* The tool only marks.
LEMMA ApplyApprovedKeeps ==
    ASSUME ARInv, ApplyApproved
    PROVE  ARInv'
  <1>1. \A r \in Runs : annual'[r] = annual[r] \/ (annual'[r] = "stale" /\ annual[r] = "fresh")
    BY DEF ApplyApproved, Outdated
  <1>2. annual' \in [Runs -> Flags]
    BY DEF ApplyApproved, ARInv, ARTypes, IInv, TypeOK, Flags
  <1>3. ARTypes'
    BY <1>2 DEF ApplyApproved, ARInv, ARTypes, IInv, TypeOK, CalculationKeepsRow, Stored
  <1>4. ASSUME NEW r \in Runs
        PROVE  RunInv(r)'
    <2>1. RunInput(r)' = RunInput(r)
      BY DEF ApplyApproved, RunInput
    <2>2. ReadSoFar(r, run[r].pc)' = ReadSoFar(r, run[r].pc)
      BY <2>1 DEF ApplyApproved, ReadSoFar, WithoutFuel
    <2> QED BY <1>1, <2>1, <2>2 DEF ApplyApproved, ARInv, RunInv
  <1> QED BY <1>3, <1>4 DEF ARInv

\* A step that touches neither rows nor runs.
LEMMA IdleKeeps ==
    ASSUME ARInv, UNCHANGED <<vars, run, vessel, rows>>
    PROVE  ARInv'
  <1>1. IInv'
    BY NextStep DEF ARInv, ARTypes
  <1>2. ASSUME NEW r \in Runs
        PROVE  RunInv(r)'
    BY Elsewhere DEF vars
  <1> QED BY <1>1, <1>2 DEF ARInv, ARTypes

\* The invariant holds in every behaviour.
LEMMA ARInductive == SpecAR => []ARInv
  <1>1. InitAR => ARInv
    <2> SUFFICES ASSUME InitAR
                 PROVE  ARInv
      OBVIOUS
    <2>1. IInv
      BY RowAssumption DEF InitAR, Init, IInv, TypeOK, Stored, CalculationKeepsRow, Flags
    <2>2. run \in [Runs -> RunType]
      BY DEF InitAR, RunType, RunSteps, NothingRead
    <2>3. ASSUME NEW r \in Runs
          PROVE  RunInv(r)
      BY DEF InitAR, Init, RunInv, Reading
    <2> QED BY <2>1, <2>2, <2>3 DEF InitAR, ARInv, ARTypes
  <1>2. ASSUME ARInv, [NextAR]_varsAR
        PROVE  ARInv'
    <2>1. ASSUME NEW r \in Runs, ByRun(RunStep(r))
          PROVE  ARInv'
      BY <1>2, <2>1, ReadVesselKeeps, ReadActualKeeps, ReadPlannedKeeps, ReadFuelKeeps,
         SaveKeeps, RefuseKeeps DEF ByRun, RunStep
    <2>2. CASE Preview
      BY <1>2, <2>2, IdleKeeps DEF Preview
    <2>3. CASE UNCHANGED varsAR
      BY <1>2, <2>3, IdleKeeps DEF varsAR, vars
    <2> QED BY <1>2, <2>1, <2>2, <2>3, EditVoyageKeeps, UpdateVesselKeeps, ApplyApprovedKeeps
        DEF NextAR
  <1> QED BY <1>1, <1>2, PTL DEF SpecAR

\* A stored run without a mark that no commit overtook while it read says
\* what the voyages say now, and has the vessel's type and size.
THEOREM UndisturbedRunIsCurrentHolds == SpecAR => []UndisturbedRunIsCurrent
  <1>1. ARInv => UndisturbedRunIsCurrent
    BY DEF ARInv, RunInv, UndisturbedRunIsCurrent
  <1> QED BY <1>1, ARInductive, PTL

\* Beside runs, PATCHes of the vessel and the marking tool, a step is one of
\* VoyageLifecycle or leaves the voyages alone.
LEMMA StepBesideRuns ==
    ASSUME [NextAR]_varsAR
    PROVE  [Next]_vars \/ UNCHANGED voyages
  BY DEF NextAR, EditVoyage, UpdateVessel, ByRun, RunStep, ReadVessel, ReadActual, ReadPlanned,
         ReadFuel, Save, Refuse, Preview, ApplyApproved, Next, varsAR, vars

\* Beside runs, too, the actuals of a confirmed voyage stay, and a change of
\* what annual runs read marks every stored one.
THEOREM BesideRunsHolds == SpecAR => ConfirmedActualsFrozen /\ ChangeMarksAnnualRuns
  <1>1. ASSUME ARInv, [NextAR]_varsAR
        PROVE  SettledKeepsActuals /\ MarksAnnualRuns
    <2>1. CASE [Next]_vars
      BY <1>1, <2>1, StepKeepsSettled, StepMarksRuns DEF ARInv, ARTypes
    <2>2. CASE UNCHANGED voyages
      BY <2>2 DEF SettledKeepsActuals, MarksAnnualRuns, AnnualInput, Stored
    <2> QED BY <1>1, <2>1, <2>2, StepBesideRuns
  <1> QED BY <1>1, ARInductive, PTL DEF SpecAR, ConfirmedActualsFrozen, ChangeMarksAnnualRuns

\* What the rows of voyages promise, their policies, years, times, completeness
\* and calculations, they also promise while annual runs read them, the vessel
\* is PATCHed (which marks calculations) and the marking tool runs.
THEOREM RowsBesideRunsHold ==
    SpecAR => [](/\ TypeOK /\ StatusPolicyYear /\ TimesOrdered /\ PlanYearSpanned
                 /\ ConfirmedComplete /\ CalculationKeepsRow)
  <1>1. ARInv => /\ TypeOK /\ StatusPolicyYear /\ TimesOrdered /\ PlanYearSpanned
                 /\ ConfirmedComplete /\ CalculationKeepsRow
    <2>1. ARInv => IInv
      BY DEF ARInv, ARTypes
    <2>2. IInv => TypeOK /\ CalculationKeepsRow
      BY DEF IInv
    <2>3. IInv => StatusPolicyYear /\ TimesOrdered /\ PlanYearSpanned /\ ConfirmedComplete
      BY DEF IInv, RowInv, StatusPolicyYear, TimesOrdered, PlanYearSpanned, ConfirmedComplete
    <2> QED BY <2>1, <2>2, <2>3
  <1> QED BY <1>1, ARInductive, PTL

\* The fuel rows that the screens rely on stay beside runs.
LEMMA ViewsBesideRuns == SpecAR => [](IInv /\ FuelInv)
  <1>1. InitAR => FuelInv
    BY DEF InitAR, Init, FuelInv, Stored
  <1>2. ASSUME ARInv, FuelInv, [NextAR]_varsAR
        PROVE  FuelInv'
    <2>1. CASE [Next]_vars
      BY <1>2, <2>1, FuelStep DEF ARInv, ARTypes
    <2>2. CASE UNCHANGED voyages
      BY <1>2, <2>2 DEF FuelInv, Stored, FuelRows
    <2> QED BY <1>2, <2>1, <2>2, StepBesideRuns
  <1>3. ARInv => IInv
    BY DEF ARInv, ARTypes
  <1> QED BY <1>1, <1>2, <1>3, ARInductive, PTL DEF SpecAR

\* The screens of one vessel fit together while runs read and the vessel's
\* particulars are rewritten: the total, the projection and the data check
\* contradict one another nowhere.
THEOREM ScreensBesideRunsHold ==
    SpecAR => [](ProgressIsPlanned /\ PairsAreUnsubstituted /\ ConfirmedIsMeasured)
  <1>1. IInv /\ FuelInv => ProgressIsPlanned /\ PairsAreUnsubstituted /\ ConfirmedIsMeasured
    BY ProgressPlanned, PairsUnsubstituted, ConfirmedMeasured
  <1> QED BY <1>1, ViewsBesideRuns, PTL

\* The coarse life of a voyage, too, is kept beside runs: no run, PATCH of the
\* vessel or marking tool moves a voyage.
THEOREM StagesBesideRunsImplemented == SpecAR => ImplementsStages
  <1>1. InitAR => Life!InitStages
    BY StagesFromInit DEF InitAR
  <1>2. ASSUME ARInv, [NextAR]_varsAR
        PROVE  [Life!NextStages]_([v \in Voyages |-> Stage(voyages[v])])
    <2>1. CASE [Next]_vars
      BY <1>2, <2>1, StepMovesStage DEF ARInv, ARTypes
    <2>2. CASE UNCHANGED voyages
      BY <2>2 DEF Stage
    <2> QED BY <1>2, <2>1, <2>2, StepBesideRuns
  <1> QED BY <1>1, <1>2, ARInductive, PTL DEF SpecAR, ImplementsStages, Life!SpecStages

\* The marking tool (annual_needs_recalc) finds only runs the marks could not
\* reach: a stored run in its preview was overtaken by a commit while it read,
\* or the vessel's speed or consumption, whose change marks nothing, is
\* another since.
ToolFindsOnlyUnreached ==
    \A r \in Outdated : run[r].overtaken \/ run[r].vessel.rates # vessel.rates

\* The tool never corrects a mark that an edit of a voyage or of the vessel's
\* type and size should have set.
THEOREM ToolFindsOnlyUnreachedHolds == SpecAR => []ToolFindsOnlyUnreached
  <1>1. ASSUME ARInv, NEW r \in Outdated, ~run[r].overtaken
        PROVE  run[r].vessel.rates # vessel.rates
    <2>1. /\ r \in Runs /\ annual[r] = "fresh"
          /\ run[r].vessel # vessel \/ run[r].input # RunInput(r)
      BY <1>1 DEF Outdated
    <2>2. run[r].input = RunInput(r) /\ run[r].vessel.specs = vessel.specs
      BY <1>1, <2>1 DEF ARInv, RunInv
    <2>3. run[r].vessel \in Particulars /\ vessel \in Particulars
      BY <1>1, <2>1 DEF ARInv, ARTypes, RunType
    <2> QED BY <2>1, <2>2, <2>3 DEF Particulars
  <1>2. ARInv => ToolFindsOnlyUnreached
    BY <1>1 DEF ToolFindsOnlyUnreached
  <1> QED BY <1>2, ARInductive, PTL
=============================================================================
