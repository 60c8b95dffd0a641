----------------------------- MODULE NotUnderway -----------------------------
(***************************************************************************)
(* The not-underway periods (berth, anchorage, drifting) of one vessel:    *)
(* services/not_underway.py, and the import of a file of them,             *)
(* services/not_underway_import.py.                                        *)
(*                                                                         *)
(* Creating a period locks the vessel row before it looks for an overlap,  *)
(* so it is one action.  A PATCH is two: it reads its period without a     *)
(* lock, merges the request into that copy, and only then locks the vessel *)
(* row, and only when it moves a time.  Its UPDATE names the columns whose *)
(* new value differs from the copy.  public_record_fill runs the same code *)
(* under the vessel lock: a PATCH whose two steps follow each other.  An   *)
(* import creates a period per row of its file and commits each, so that   *)
(* anything may come between two rows.                                     *)
(***************************************************************************)
EXTENDS Naturals, Sequences

CONSTANTS
    Periods,     \* ids of period rows
    Requests,    \* PATCH requests, each with a session of its own
    Times,       \* instants
    YearOf,      \* the UTC year of an instant
    Years,
    Values,      \* values of period type and distance together
    FuelKeys,    \* pairs of consumer and fuel type
    Files,       \* files to import, as the rows that could be parsed
    Runs,        \* ids of stored annual simulation runs of this vessel
    NULL,
    KEEP         \* a field that the request leaves out

ASSUME TimesAssumption ==
    /\ Times \subseteq Nat
    /\ YearOf \in [Times -> Years]

ASSUME SentinelAssumption ==
    /\ {NULL, KEEP} \cap (Times \cup Years \cup Values) = {}
    /\ NULL # KEEP

VARIABLES
    period,      \* the not_underway_period rows, each a PeriodRow or NULL
    fuel,        \* the fuel rows of each period, by their unique key
    request,     \* the copy each PATCH has read
    annual,      \* the stored ANNUAL_MONTE_CARLO runs: none, fresh or stale
    left         \* the rows an import still has to store

vars == <<period, fuel, request, annual, left>>

Columns == [start : Times, end : Times \cup {NULL}, year : Years, value : Values]

PeriodRow == [columns : Columns, is_deleted : BOOLEAN]

\* The row that does not exist is none that does.
ASSUME RowAssumption == NULL \notin PeriodRow

FileRow == [start : Times, end : Times \cup {NULL}, value : Values, key : FuelKeys]

ASSUME FilesAssumption == Files \subseteq Seq(FileRow)

Idle == [pc |-> "idle"]

Live(p) == period[p] # NULL /\ ~period[p].is_deleted

Given(field, column) == IF field = KEEP THEN column ELSE field

\* The years of both ends; an open period touches the year of its start.
SpannedYears(start, end) ==
    {YearOf[start]} \cup (IF end = NULL THEN {} ELSE {YearOf[end]})

Ordered(start, end) == end # NULL => start < end

\* find_overlapping: periods are closed at the start and open at the end,
\* and one without an end lasts for ever.
Overlap(a, start, end) ==
    /\ a.end # NULL => start < a.end
    /\ end # NULL => a.start < end

\* Mutant: open periods are not looked at.
FreeOfClosed(p, start, end) ==
    \A other \in Periods \ {p} :
        Live(other) /\ period[other].columns.end # NULL =>
            ~Overlap(period[other].columns, start, end)

FreeFor(p, start, end) ==
    \A other \in Periods \ {p} :
        Live(other) => ~Overlap(period[other].columns, start, end)

\* needs_recalc goes from false to true only.
Marked(flag) == IF flag = "fresh" THEN "stale" ELSE flag
MarkAnnual == annual' = [r \in Runs |-> Marked(annual[r])]

-----------------------------------------------------------------------------
(* Operations.                                                             *)

Init ==
    /\ period = [p \in Periods |-> NULL]
    /\ fuel = [p \in Periods |-> {}]
    /\ request = [q \in Requests |-> Idle]
    /\ annual = [r \in Runs |-> "none"]
    /\ left = <<>>

\* The year of a new period is the one asked for, which the period must
\* touch, or that of its start.
YearFor(start, end, asked) == IF asked = NULL THEN YearOf[start] ELSE asked

YearAllowed(start, end, asked) ==
    asked # NULL => asked \in SpannedYears(start, end)

CreatePeriod(p, start, end, asked, value, keys) ==
    /\ period[p] = NULL
    /\ Ordered(start, end)
    /\ YearAllowed(start, end, asked)
    /\ FreeFor(p, start, end)
    /\ period' = [period EXCEPT ![p] =
                     [columns |-> [start |-> start, end |-> end, value |-> value,
                                   year |-> YearFor(start, end, asked)],
                      is_deleted |-> FALSE]]
    /\ fuel' = [fuel EXCEPT ![p] = keys]
    /\ MarkAnnual
    /\ UNCHANGED request

LoadPeriod(q, p) ==
    /\ request[q] = Idle
    /\ Live(p)
    /\ request' = [request EXCEPT ![q] =
                      [pc |-> "loaded", period |-> p, copy |-> period[p].columns]]
    /\ UNCHANGED <<period, fuel, annual>>

Patches == [start : Times \cup {KEEP},
            end   : Times \cup {NULL, KEEP},
            year  : Years \cup {NULL, KEEP},
            value : Values \cup {KEEP}]

MovesTime(patch) == patch.start # KEEP \/ patch.end # KEEP

\* Mutant: a PATCH of the times keeps the year.
YearKept(copy, start, end, patch) ==
    IF patch.year # KEEP THEN YearFor(start, end, patch.year) ELSE copy.year

\* The year after a PATCH: as for a new period if it was sent; if only times
\* were, the present one while it still is one the period touches.
PatchedYear(copy, start, end, patch) ==
    IF patch.year # KEEP THEN YearFor(start, end, patch.year)
    ELSE IF MovesTime(patch) /\ copy.year \notin SpannedYears(start, end)
           THEN YearOf[start]
    ELSE copy.year

Merged(copy, patch) ==
    LET start == Given(patch.start, copy.start)
        end == Given(patch.end, copy.end)
    IN  [start |-> start, end |-> end, value |-> Given(patch.value, copy.value),
         year |-> PatchedYear(copy, start, end, patch)]

\* The UPDATE: the columns that differ from the copy.
Written(row, copy, new) ==
    [column \in DOMAIN row |->
        IF new[column] = copy[column] THEN row[column] ELSE new[column]]

PatchPeriod(q, patch) ==
    LET p == request[q].period
        copy == request[q].copy
        new == Merged(copy, patch)
        row == Written(period[p].columns, copy, new)
    IN  /\ request[q].pc = "loaded"
        /\ Ordered(new.start, new.end)
        /\ MovesTime(patch) => FreeFor(p, new.start, new.end)
        /\ patch.year # KEEP => YearAllowed(new.start, new.end, patch.year)
        /\ Ordered(row.start, row.end)    \* chk_not_underway_period_time_order
        /\ period' = [period EXCEPT ![p].columns = row]
        /\ IF new # copy THEN MarkAnnual ELSE UNCHANGED annual
        /\ request' = [request EXCEPT ![q] = Idle]
        /\ UNCHANGED fuel

RefusePatch(q) ==
    /\ request[q].pc = "loaded"
    /\ request' = [request EXCEPT ![q] = Idle]
    /\ UNCHANGED <<period, fuel, annual>>

DeletePeriod(p) ==
    /\ Live(p)
    /\ period' = [period EXCEPT ![p].is_deleted = TRUE]
    /\ MarkAnnual
    /\ UNCHANGED <<fuel, request>>

\* The key is checked without a lock; of two that pass, the unique index
\* fails the second INSERT.
AddFuelUse(p, key) ==
    /\ Live(p)
    /\ key \notin fuel[p]
    /\ fuel' = [fuel EXCEPT ![p] = @ \cup {key}]
    /\ MarkAnnual
    /\ UNCHANGED <<period, request>>

\* Mutant: deleting a fuel row marks no annual run.
DeleteFuelUseUnmarked(p, key) ==
    /\ Live(p)
    /\ key \in fuel[p]
    /\ fuel' = [fuel EXCEPT ![p] = @ \ {key}]
    /\ UNCHANGED <<period, request, annual>>

DeleteFuelUse(p, key) ==
    /\ Live(p)
    /\ key \in fuel[p]
    /\ fuel' = [fuel EXCEPT ![p] = @ \ {key}]
    /\ MarkAnnual
    /\ UNCHANGED <<period, request>>

StartImport(file) ==
    /\ left = <<>>
    /\ left' = file
    /\ UNCHANGED <<period, fuel, request, annual>>

\* The next row, with the year left to its start, is one transaction.
ImportRow(p) ==
    LET row == Head(left)
    IN  /\ left # <<>>
        /\ CreatePeriod(p, row.start, row.end, NULL, row.value, {row.key})
        /\ left' = Tail(left)

\* A row that overlaps, or that the database refuses, drops out alone.
SkipRow ==
    /\ left # <<>>
    /\ left' = Tail(left)
    /\ UNCHANGED <<period, fuel, request, annual>>

\* The server stops; the rows stored so far stay, and the file may be sent
\* again.
AbortImport ==
    /\ left # <<>>
    /\ left' = <<>>
    /\ UNCHANGED <<period, fuel, request, annual>>

\* run_annual_simulation stores its run, with needs_recalc false.
SaveAnnualRun(r) ==
    /\ annual[r] = "none"
    /\ annual' = [annual EXCEPT ![r] = "fresh"]
    /\ UNCHANGED <<period, fuel, request>>

Edit(p) ==
    \/ \E start \in Times, end \in Times \cup {NULL}, asked \in Years \cup {NULL},
          value \in Values, keys \in SUBSET FuelKeys :
           CreatePeriod(p, start, end, asked, value, keys)
    \/ DeletePeriod(p)
    \/ \E key \in FuelKeys : AddFuelUse(p, key) \/ DeleteFuelUse(p, key)

Patch(q) ==
    \/ \E p \in Periods : LoadPeriod(q, p)
    \/ request[q].pc = "loaded" /\ \E patch \in Patches : PatchPeriod(q, patch)
    \/ RefusePatch(q)

Import ==
    \/ \E file \in Files : StartImport(file)
    \/ \E p \in Periods : ImportRow(p)
    \/ SkipRow
    \/ AbortImport

Next ==
    \/ /\ \/ \E p \in Periods : Edit(p)
          \/ \E q \in Requests : Patch(q)
          \/ \E r \in Runs : SaveAnnualRun(r)
       /\ UNCHANGED left
    \/ Import

Spec == Init /\ [][Next]_vars

-----------------------------------------------------------------------------
(* Properties.                                                             *)

\* No two periods of the vessel overlap, imported or entered: fuel burnt at
\* one berth is never counted twice, not even if a file is sent again after
\* it was stored in part.
NoOverlap ==
    \A p, other \in Periods :
        p # other /\ Live(p) /\ Live(other) =>
            ~Overlap(period[p].columns, period[other].columns.start,
                     period[other].columns.end)

\* The year a period is counted in is one it touches, whichever of start,
\* end and year was edited last: otherwise it drops out of every total.
YearTouched ==
    \A p \in Periods :
        Live(p) => period[p].columns.year
                       \in SpannedYears(period[p].columns.start, period[p].columns.end)

\* What an annual run counts of a period.
Counted(p) == IF Live(p) THEN <<period[p].columns, fuel[p]>> ELSE NULL

\* Every change of what an annual run counts marks, in the same step, each
\* stored run that was still valid, however old the copy was that the PATCH
\* compared with.
ChangeMarksAnnualRuns ==
    [][(\E p \in Periods : Counted(p)' # Counted(p)) =>
          \A r \in Runs : annual[r] = "fresh" => annual'[r] = "stale"]_vars
=============================================================================
