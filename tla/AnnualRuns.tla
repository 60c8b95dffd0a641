------------------------------ MODULE AnnualRuns ------------------------------
(***************************************************************************)
(* Annual simulation runs beside the operations of VoyageLifecycle         *)
(* (services/annual_simulation.py, run_annual_simulation), the edit of the *)
(* vessel's particulars (services/vessel.py) and the tool that marks       *)
(* outdated runs after the fact (maintenance/annual_needs_recalc.py).      *)
(*                                                                         *)
(* A run takes no lock.  It reads the vessel, then its voyages in three    *)
(* SELECTs under READ COMMITTED (the actuals, the remaining plans, their   *)
(* fuel rows), computes, and then inserts its snapshot and its run, with   *)
(* needs_recalc false.  Edits commit between any two of these steps and    *)
(* mark only the runs that are already stored.  An edit holds the vessel's *)
(* row from before it marks until it commits, and the foreign key of the   *)
(* INSERT waits for that row, so an edit is one action beside a run.       *)
(***************************************************************************)
EXTENDS VoyageLifecycle

CONSTANTS
    RunYear,   \* the regulation year a run is asked for
    CutOff,    \* its as_of: actuals that arrive later are not counted
    Specs,     \* values of ship type, deadweight and gross tonnage together
    Rates      \* values of reference speed and daily consumption together

ASSUME RunAssumption ==
    /\ RunYear \in [Runs -> Years]
    /\ CutOff \in [Runs -> Nat]

VARIABLES
    run,       \* what each run has read so far
    vessel,    \* the particulars a run takes from the vessel's row
    rows,      \* the particulars the row has had, for late PATCHes
    approved   \* the runs in the approved preview of the marking tool

varsAR == <<voyages, calc, annual, run, vessel, rows, approved>>

Particulars == [specs : Specs, rates : Rates]

\* What a run holds of one voyage; the fuel comes from the last SELECT.
View ==
    [kind     : Policies,
     year     : Years \cup {NULL},
     plan     : Plans,
     distance : Distances \cup {NULL},
     fuel     : [Fuels -> Tons \cup {NULL, NoRow}] \cup {NULL},
     arrival  : Instant]

\* The voyage that is not counted is none that is.
ASSUME ViewAssumption == NULL \notin View

\* The read or step that comes next, once a run has begun.
Reading == {"actual", "planned", "fuel", "save"}

\* The part of a voyage that run r counts, NULL when it does not count it.
CountedIn(r, view) ==
    IF view = NULL THEN NULL
    ELSE IF view.year # RunYear[r] THEN NULL
    ELSE IF view.arrival # NULL /\ view.arrival > CutOff[r] THEN NULL
    ELSE view

RunInput(r) == [v \in Voyages |-> CountedIn(r, AnnualView(voyages[v]))]

NothingRead == [v \in Voyages |-> NULL]

InitAR ==
    /\ Init
    /\ vessel \in Particulars
    /\ rows = {vessel}
    /\ approved = {}
    /\ run = [r \in Runs |-> [pc |-> "idle", vessel |-> vessel,
                              input |-> NothingRead, overtaken |-> FALSE]]

ByRun(A) == A /\ UNCHANGED <<vessel, rows, approved>>

\* The snapshot of the particulars.
ReadVessel(r) ==
    /\ run[r].pc = "idle"
    /\ run' = [run EXCEPT ![r].pc = "actual", ![r].vessel = vessel]
    /\ UNCHANGED vars

\* The rows of one policy that the run counts, without their fuel rows.
Selected(r, policy) ==
    [v \in Voyages |->
        LET view == RunInput(r)[v]
        IN  IF view # NULL /\ view.kind = policy
              THEN [view EXCEPT !.fuel = NULL]
              ELSE run[r].input[v]]

ReadActual(r) ==
    /\ run[r].pc = "actual"
    /\ run' = [run EXCEPT ![r].pc = "planned",
                          ![r].input = Selected(r, "INCLUDE_AS_ACTUAL")]
    /\ UNCHANGED vars

ReadPlanned(r) ==
    /\ run[r].pc = "planned"
    /\ run' = [run EXCEPT ![r].pc = "fuel",
                          ![r].input = Selected(r, "INCLUDE_AS_PLAN")]
    /\ UNCHANGED vars

\* The fuel rows of the voyages read before; a voyage deleted for good in
\* between has none left.
FuelOf(v) == IF Stored(v) THEN voyages[v].fuel ELSE [f \in Fuels |-> NoRow]

ReadFuel(r) ==
    /\ run[r].pc = "fuel"
    /\ run' = [run EXCEPT ![r].pc = "save",
                          ![r].input = [v \in Voyages |->
                               IF @[v] = NULL THEN NULL
                               ELSE [@[v] EXCEPT !.fuel = FuelOf(v)]]]
    /\ UNCHANGED vars

\* Something was read that gives the projection a distance: an actual, or
\* a plan with a fuel row.
HasBasis(input) ==
    \E v \in Voyages :
        /\ input[v] # NULL
        /\ input[v].kind = "INCLUDE_AS_PLAN" =>
               \E f \in Fuels : input[v].fuel[f] # NoRow

Save(r) ==
    /\ run[r].pc = "save"
    /\ HasBasis(run[r].input)
    /\ SaveAnnualRun(r)
    /\ run' = [run EXCEPT ![r].pc = "saved"]

\* The projection has nothing to divide by: the request fails and stores
\* nothing.
Refuse(r) ==
    /\ run[r].pc = "save"
    /\ ~HasBasis(run[r].input)
    /\ run' = [run EXCEPT ![r].pc = "refused"]
    /\ UNCHANGED vars

RunStep(r) ==
    ReadVessel(r) \/ ReadActual(r) \/ ReadPlanned(r) \/ ReadFuel(r) \/ Save(r) \/ Refuse(r)

\* What commits under a run that is reading is remembered, for the
\* properties only.
Overtaking(changes(_)) ==
    run' = [r \in Runs |->
               [run[r] EXCEPT !.overtaken = @ \/ (run[r].pc \in Reading /\ changes(r))]]

EditVoyage(v) ==
    /\ Edit(v)
    /\ Overtaking(LAMBDA r : RunInput(r)' # RunInput(r))
    /\ UNCHANGED <<vessel, rows, approved>>

\* A PATCH of the vessel takes no lock before its UPDATE: the row it compares
\* with may be an earlier one.  The UPDATE names what differs from that row,
\* and only ship type, deadweight and gross tonnage mark.
UpdateVessel(loaded, asked) ==
    LET Written(field) ==
            IF asked[field] = loaded[field] THEN vessel[field] ELSE asked[field]
    IN  /\ vessel' = [specs |-> Written("specs"), rates |-> Written("rates")]
        /\ rows' = rows \cup {vessel'}
        /\ IF asked.specs # loaded.specs
             THEN MarkAnnual /\ calc' = [v \in Voyages |-> Marked(calc[v])]
             ELSE UNCHANGED <<annual, calc>>
        /\ Overtaking(LAMBDA r : vessel' # vessel)
        /\ UNCHANGED <<voyages, approved>>

\* The tool finds an unmarked run outdated if what it read of the vessel or
\* of the voyages is not what it would read now.
Outdated ==
    {r \in Runs : /\ annual[r] = "fresh"
                  /\ run[r].vessel # vessel \/ run[r].input # RunInput(r)}

Preview ==
    /\ approved' = Outdated
    /\ UNCHANGED <<vars, run, vessel, rows>>

\* Marks the runs of the approved preview that are still outdated.
ApplyApproved ==
    /\ approved # {}
    /\ annual' = [r \in Runs |->
                     IF r \in approved \cap Outdated THEN "stale" ELSE annual[r]]
    /\ UNCHANGED <<voyages, calc, run, vessel, rows, approved>>

NextAR ==
    \/ \E v \in Voyages : EditVoyage(v)
    \/ \E loaded \in rows, asked \in Particulars : UpdateVessel(loaded, asked)
    \/ \E r \in Runs : ByRun(RunStep(r))
    \/ Preview
    \/ ApplyApproved

SpecAR == InitAR /\ [][NextAR]_varsAR

-----------------------------------------------------------------------------
(* Properties.                                                             *)

\* A stored run that is not marked was computed from what the voyages say
\* now: the promise of the needs_recalc mark.
FreshRunIsCurrent ==
    \A r \in Runs : annual[r] = "fresh" => run[r].input = RunInput(r)

\* The code keeps it for every run that no committed change overtook
\* between its first SELECT and its INSERT: whatever happens after the
\* INSERT marks the run, undisturbed reads fit together, and a PATCH of the
\* vessel that compared with an old row does not slip by.  Of the vessel it
\* holds for ship type, deadweight and gross tonnage only.
UndisturbedRunIsCurrent ==
    \A r \in Runs :
        annual[r] = "fresh" /\ ~run[r].overtaken =>
            /\ run[r].input = RunInput(r)
            /\ run[r].vessel.specs = vessel.specs
=============================================================================
