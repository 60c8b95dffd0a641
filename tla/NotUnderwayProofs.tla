--------------------------- MODULE NotUnderwayProofs ---------------------------
(***************************************************************************)
(* Proofs about the not-underway periods of a vessel, for any number of    *)
(* periods, requests, instants, files and runs.                            *)
(*                                                                         *)
(* That periods do not overlap and touch their year is no promise of the   *)
(* code as such: two PATCHes of the same period can cross, and then the    *)
(* row gets one time from each, checked by neither (run crossed_patches).  *)
(* It is kept in every behaviour in which no two PATCHes of one period are *)
(* under way together, whatever else overlaps: PATCHes of different        *)
(* periods, creations, deletions, imports.  The reason is CopyCurrent: the *)
(* copy a PATCH merges into, which it read without a lock, is then still   *)
(* the row, because nothing but a PATCH changes the columns of a period.   *)
(***************************************************************************)
EXTENDS NotUnderway, TLAPS

Flags == {"none", "fresh", "stale"}

LoadedRequest == [pc : {"loaded"}, period : Periods, copy : Columns]

\* Types, and: what a PATCH has read is still there, since rows are never
\* really deleted.
Types ==
    /\ period \in [Periods -> PeriodRow \cup {NULL}]
    /\ fuel \in [Periods -> SUBSET FuelKeys]
    /\ request \in [Requests -> {Idle} \cup LoadedRequest]
    /\ annual \in [Runs -> Flags]
    /\ left \in Seq(FileRow)
    /\ \A q \in Requests : request[q].pc = "loaded" => period[request[q].period] # NULL

Touches(columns) == columns.year \in SpannedYears(columns.start, columns.end)

Apart(a, b) == ~Overlap(a, b.start, b.end)

-----------------------------------------------------------------------------
(* The operators.                                                          *)

\* Which of two periods is new does not matter.
LEMMA ApartSymmetric ==
    ASSUME NEW a, NEW b, Apart(a, b)
    PROVE  Apart(b, a)
  BY DEF Apart, Overlap

\* The year of a new period is one it touches.
LEMMA YearForTouches ==
    ASSUME NEW start \in Times, NEW end \in Times \cup {NULL}, NEW asked \in Years \cup {NULL},
           YearAllowed(start, end, asked)
    PROVE  /\ YearFor(start, end, asked) \in Years
           /\ YearFor(start, end, asked) \in SpannedYears(start, end)
  BY TimesAssumption DEF YearFor, YearAllowed, SpannedYears

\* What a PATCH makes of its copy: columns that touch their year if those of
\* the copy did, with the times of the copy unless it moves one.
LEMMA MergedColumns ==
    ASSUME NEW copy \in Columns, NEW patch \in Patches, NEW new, new = Merged(copy, patch),
           patch.year # KEEP => YearAllowed(new.start, new.end, patch.year)
    PROVE  /\ new \in Columns
           /\ Touches(copy) => Touches(new)
           /\ ~MovesTime(patch) => new.start = copy.start /\ new.end = copy.end
  <1> DEFINE start == Given(patch.start, copy.start)
             end == Given(patch.end, copy.end)
  <1>1. /\ start \in Times /\ end \in Times \cup {NULL}
        /\ Given(patch.value, copy.value) \in Values
    BY DEF Columns, Patches, Given
  <1>2. /\ new.start = start /\ new.end = end
        /\ new.value = Given(patch.value, copy.value)
        /\ new.year = PatchedYear(copy, start, end, patch)
        /\ new = [start |-> start, end |-> end, value |-> Given(patch.value, copy.value),
                  year |-> PatchedYear(copy, start, end, patch)]
    BY DEF Merged
  <1>3. ~MovesTime(patch) => start = copy.start /\ end = copy.end
    BY DEF MovesTime, Given
  <1>4. CASE patch.year # KEEP
    <2>1. patch.year \in Years \cup {NULL}
      BY <1>4 DEF Patches
    <2>2. new.year = YearFor(start, end, patch.year) /\ YearAllowed(start, end, patch.year)
      BY <1>2, <1>4 DEF PatchedYear
    <2>3. new.year \in Years /\ new.year \in SpannedYears(start, end)
      BY <1>1, <2>1, <2>2, YearForTouches
    <2> QED BY <1>1, <1>2, <1>3, <2>3 DEF Columns, Touches
  <1>5. CASE patch.year = KEEP
    <2>1. new.year = IF MovesTime(patch) /\ copy.year \notin SpannedYears(start, end)
                       THEN YearOf[start] ELSE copy.year
      BY <1>2, <1>5 DEF PatchedYear
    <2>2. new.year \in Years
      BY <1>1, <2>1, TimesAssumption DEF Columns
    <2>3. Touches(copy) => Touches(new)
      BY <1>1, <1>2, <1>3, <2>1 DEF Touches, SpannedYears
    <2> QED BY <1>1, <1>2, <1>3, <2>2, <2>3 DEF Columns
  <1> QED BY <1>4, <1>5

\* The UPDATE writes columns; nothing if the merge changed nothing, and the
\* merge as it is if the copy is the row.
LEMMA WrittenColumns ==
    ASSUME NEW row \in Columns, NEW copy \in Columns, NEW new \in Columns
    PROVE  /\ Written(row, copy, new) \in Columns
           /\ new = copy => Written(row, copy, new) = row
           /\ copy = row => Written(row, copy, new) = new
  <1> DEFINE written == Written(row, copy, new)
  <1>1. DOMAIN row = {"start", "end", "year", "value"}
    BY DEF Columns
  <1>2. written = [column \in {"start", "end", "year", "value"} |->
                      IF new[column] = copy[column] THEN row[column] ELSE new[column]]
    BY <1>1 DEF Written
  <1>3. written = [start |-> written.start, end |-> written.end,
                   year |-> written.year, value |-> written.value]
    BY <1>2
  <1>4. /\ written.start = IF new.start = copy.start THEN row.start ELSE new.start
        /\ written.end = IF new.end = copy.end THEN row.end ELSE new.end
        /\ written.year = IF new.year = copy.year THEN row.year ELSE new.year
        /\ written.value = IF new.value = copy.value THEN row.value ELSE new.value
    BY <1>2
  <1>5. \A x \in Columns : x = [start |-> x.start, end |-> x.end,
                                year |-> x.year, value |-> x.value]
    BY DEF Columns
  <1> HIDE DEF written
  <1>6. written \in Columns
    BY <1>3, <1>4 DEF Columns
  <1>7. new = copy => written = row
    BY <1>4, <1>5, <1>6
  <1>8. copy = row => written = new
    BY <1>4, <1>5, <1>6
  <1> QED BY <1>6, <1>7, <1>8 DEF written

-----------------------------------------------------------------------------
(* What the steps do to the rows.                                          *)

\* Marking keeps the types.
LEMMA MarkedTypes ==
    ASSUME annual \in [Runs -> Flags], MarkAnnual
    PROVE  annual' \in [Runs -> Flags]
  BY DEF MarkAnnual, Marked, Flags

\* A step that puts a period in the place of none.
Creates(p, columns) ==
    /\ period[p] = NULL
    /\ FreeFor(p, columns.start, columns.end)
    /\ Touches(columns)
    /\ period' = [period EXCEPT ![p] = [columns |-> columns, is_deleted |-> FALSE]]
    /\ MarkAnnual
    /\ UNCHANGED request

\* A step that ends a PATCH of q and writes its columns.
Writes(q, patch) ==
    LET p == request[q].period
        new == Merged(request[q].copy, patch)
    IN  /\ request[q].pc = "loaded"
        /\ new \in Columns
        /\ Touches(request[q].copy) => Touches(new)
        /\ \/ FreeFor(p, new.start, new.end)
           \/ new.start = request[q].copy.start /\ new.end = request[q].copy.end
        /\ period' = [period EXCEPT ![p].columns =
                         Written(period[p].columns, request[q].copy, new)]
        /\ MarkAnnual \/ UNCHANGED <<period, annual>>
        /\ request' = [request EXCEPT ![q] = Idle]

\* A creation, by hand or from a file, is such a step.
LEMMA CreateEffect ==
    ASSUME Types, NEW p \in Periods, NEW start \in Times, NEW end \in Times \cup {NULL},
           NEW asked \in Years \cup {NULL}, NEW value \in Values, NEW keys \in SUBSET FuelKeys,
           CreatePeriod(p, start, end, asked, value, keys)
    PROVE  /\ \E columns \in Columns : Creates(p, columns)
           /\ fuel' \in [Periods -> SUBSET FuelKeys]
  <1> DEFINE columns == [start |-> start, end |-> end, value |-> value,
                         year |-> YearFor(start, end, asked)]
  <1>1. /\ YearFor(start, end, asked) \in Years
        /\ YearFor(start, end, asked) \in SpannedYears(start, end)
    BY YearForTouches DEF CreatePeriod
  <1>2. columns \in Columns /\ Touches(columns)
    BY <1>1 DEF Columns, Touches
  <1>3. Creates(p, columns)
    BY <1>2 DEF CreatePeriod, Creates
  <1>4. fuel' \in [Periods -> SUBSET FuelKeys]
    BY DEF CreatePeriod, Types
  <1> QED BY <1>2, <1>3, <1>4

\* The PATCH is such a step: a PATCH that changes nothing marks nothing.
LEMMA PatchEffect ==
    ASSUME Types, NEW q \in Requests, NEW patch \in Patches, PatchPeriod(q, patch)
    PROVE  Writes(q, patch)
  <1> DEFINE p == request[q].period
             copy == request[q].copy
             new == Merged(copy, patch)
  <1>1. request[q] \in LoadedRequest
    BY DEF Types, PatchPeriod, Idle
  <1>2. p \in Periods /\ copy \in Columns
    BY <1>1 DEF LoadedRequest
  <1>3. period[p] \in PeriodRow
    BY <1>2 DEF Types, PatchPeriod
  <1>4. period[p].columns \in Columns
    BY <1>3 DEF PeriodRow
  <1>5. /\ MovesTime(patch) => FreeFor(p, new.start, new.end)
        /\ patch.year # KEEP => YearAllowed(new.start, new.end, patch.year)
        /\ period' = [period EXCEPT ![p].columns = Written(period[p].columns, copy, new)]
        /\ IF new # copy THEN MarkAnnual ELSE UNCHANGED annual
        /\ request[q].pc = "loaded" /\ request' = [request EXCEPT ![q] = Idle]
    BY DEF PatchPeriod
  <1> HIDE DEF p, copy, new
  <1>6. /\ new \in Columns
        /\ Touches(copy) => Touches(new)
        /\ ~MovesTime(patch) => new.start = copy.start /\ new.end = copy.end
    BY <1>2, <1>5, MergedColumns DEF new
  <1>7. new = copy => period' = period
    <2>1. new = copy => Written(period[p].columns, copy, new) = period[p].columns
      BY <1>2, <1>4, <1>6, WrittenColumns
    <2> QED BY <1>2, <1>3, <1>5, <2>1 DEF Types, PeriodRow
  <1>8. MarkAnnual \/ UNCHANGED <<period, annual>>
    BY <1>5, <1>7
  <1> QED BY <1>5, <1>6, <1>8 DEF Writes, p, copy, new

\* A step that touches neither the columns nor who has read them; the marks
\* are set unless nothing counted changes.
Leaves ==
    /\ \A p \in Periods :
          /\ period'[p] = NULL <=> period[p] = NULL
          /\ period[p] # NULL => /\ period'[p].columns = period[p].columns
                                 /\ period[p].is_deleted => period'[p].is_deleted
    /\ MarkAnnual \/ UNCHANGED <<period, fuel>>

\* Every step creates, writes or leaves the columns alone, and only LoadPeriod
\* gives a request a copy.
StepKind ==
    \/ \E p \in Periods, columns \in Columns : Creates(p, columns)
    \/ (\E q \in Requests, patch \in Patches : Writes(q, patch)) /\ UNCHANGED fuel
    \/ Leaves /\ (\E q \in Requests, p \in Periods : LoadPeriod(q, p))
    \/ Leaves /\ \A q \in Requests : request'[q] \in {request[q], Idle}

\* Every step is of one of these kinds and keeps the types.
LEMMA StepKinds ==
    ASSUME Types, [Next]_vars
    PROVE  /\ StepKind
           /\ period' \in [Periods -> PeriodRow \cup {NULL}]
           /\ fuel' \in [Periods -> SUBSET FuelKeys]
           /\ request' \in [Requests -> {Idle} \cup LoadedRequest]
           /\ annual' \in [Runs -> Flags]
           /\ left' \in Seq(FileRow)
  <1> DEFINE Goal == /\ StepKind
                     /\ period' \in [Periods -> PeriodRow \cup {NULL}]
                     /\ fuel' \in [Periods -> SUBSET FuelKeys]
                     /\ request' \in [Requests -> {Idle} \cup LoadedRequest]
                     /\ annual' \in [Runs -> Flags]
  <1>1. ASSUME NEW p \in Periods, NEW columns \in Columns, Creates(p, columns),
               fuel' \in [Periods -> SUBSET FuelKeys]
        PROVE  Goal
    <2>1. [columns |-> columns, is_deleted |-> FALSE] \in PeriodRow
      BY DEF PeriodRow
    <2>2. period' \in [Periods -> PeriodRow \cup {NULL}]
      BY <1>1, <2>1 DEF Creates, Types
    <2>3. annual' \in [Runs -> Flags] /\ request' = request
      BY <1>1, MarkedTypes DEF Creates, Types
    <2> QED BY <1>1, <2>2, <2>3 DEF StepKind, Types
  <1>2. ASSUME NEW q \in Requests, NEW patch \in Patches, Writes(q, patch), UNCHANGED fuel
        PROVE  Goal
    <2> DEFINE p == request[q].period
               columns == Written(period[p].columns, request[q].copy,
                                  Merged(request[q].copy, patch))
    <2>1. request[q] \in LoadedRequest
      BY <1>2 DEF Types, Writes, Idle
    <2>2. p \in Periods /\ period[p] \in PeriodRow
      BY <1>2, <2>1 DEF Types, Writes, LoadedRequest
    <2>3. columns \in Columns
      BY <1>2, <2>1, <2>2, WrittenColumns DEF Writes, LoadedRequest, PeriodRow
    <2>4. period' = [period EXCEPT ![p].columns = columns]
      BY <1>2 DEF Writes
    <2>5. period' \in [Periods -> PeriodRow \cup {NULL}]
      <3> HIDE DEF p, columns
      <3>1. [period[p] EXCEPT !.columns = columns] \in PeriodRow
        BY <2>2, <2>3 DEF PeriodRow
      <3> QED BY <2>2, <2>4, <3>1 DEF Types
    <2>6. annual' \in [Runs -> Flags]
      BY <1>2, MarkedTypes DEF Writes, Types
    <2>7. request' \in [Requests -> {Idle} \cup LoadedRequest]
      BY <1>2 DEF Writes, Types
    <2> QED BY <1>2, <2>5, <2>6, <2>7 DEF StepKind, Types
  <1>3. ASSUME UNCHANGED <<period, request>>, MarkAnnual \/ UNCHANGED fuel,
               fuel' \in [Periods -> SUBSET FuelKeys], annual' \in [Runs -> Flags]
        PROVE  Goal
    BY <1>3 DEF StepKind, Leaves, Types
  <1>4. ASSUME NEW p \in Periods, Edit(p)
        PROVE  Goal
    <2>1. ASSUME NEW start \in Times, NEW end \in Times \cup {NULL}, NEW asked \in Years \cup {NULL},
                 NEW value \in Values, NEW keys \in SUBSET FuelKeys,
                 CreatePeriod(p, start, end, asked, value, keys)
          PROVE  Goal
      <3> HIDE DEF Goal
      <3> QED BY <2>1, <1>1, CreateEffect
    <2>2. CASE DeletePeriod(p)
      <3>1. /\ period[p] \in PeriodRow /\ period[p] # NULL
            /\ period' = [period EXCEPT ![p].is_deleted = TRUE]
            /\ MarkAnnual /\ UNCHANGED <<fuel, request>>
        BY <2>2 DEF DeletePeriod, Live, Types
      <3>2. [period[p] EXCEPT !.is_deleted = TRUE] \in PeriodRow
        BY <3>1 DEF PeriodRow
      <3>3. period' \in [Periods -> PeriodRow \cup {NULL}]
        BY <3>1, <3>2 DEF Types
      <3>4. /\ period'[p] = [period[p] EXCEPT !.is_deleted = TRUE]
            /\ \A other \in Periods \ {p} : period'[other] = period[other]
        BY <3>1 DEF Types
      <3>5. /\ period'[p].columns = period[p].columns /\ period'[p].is_deleted
            /\ period'[p] # NULL
        BY <3>1, <3>2, <3>4, RowAssumption DEF PeriodRow
      <3>6. Leaves
        BY <3>1, <3>4, <3>5 DEF Leaves
      <3> QED BY <3>1, <3>3, <3>6, MarkedTypes DEF StepKind, Types
    <2>3. ASSUME NEW key \in FuelKeys, AddFuelUse(p, key)
          PROVE  Goal
      <3>1. fuel' \in [Periods -> SUBSET FuelKeys] /\ UNCHANGED <<period, request>> /\ MarkAnnual
        BY <2>3 DEF AddFuelUse, Types
      <3> HIDE DEF Goal
      <3> QED BY <3>1, <1>3, MarkedTypes DEF Types
    <2>4. ASSUME NEW key \in FuelKeys, DeleteFuelUse(p, key)
          PROVE  Goal
      <3>1. fuel' \in [Periods -> SUBSET FuelKeys] /\ UNCHANGED <<period, request>> /\ MarkAnnual
        BY <2>4 DEF DeleteFuelUse, Types
      <3> HIDE DEF Goal
      <3> QED BY <3>1, <1>3, MarkedTypes DEF Types
    <2> HIDE DEF Goal
    <2> QED BY <1>4, <2>1, <2>2, <2>3, <2>4 DEF Edit
  <1>5. ASSUME NEW q \in Requests, Patch(q)
        PROVE  Goal
    <2>1. ASSUME NEW p \in Periods, LoadPeriod(q, p)
          PROVE  Goal
      <3>1. period[p] \in PeriodRow
        BY <2>1 DEF LoadPeriod, Live, Types
      <3>2. [pc |-> "loaded", period |-> p, copy |-> period[p].columns] \in LoadedRequest
        BY <3>1 DEF LoadedRequest, PeriodRow
      <3>3. request' \in [Requests -> {Idle} \cup LoadedRequest]
        BY <2>1, <3>2 DEF LoadPeriod, Types
      <3>4. UNCHANGED <<period, fuel, annual>>
        BY <2>1 DEF LoadPeriod
      <3>5. Leaves
        BY <3>4 DEF Leaves
      <3> QED BY <2>1, <3>3, <3>4, <3>5 DEF StepKind, Types
    <2>2. ASSUME NEW patch \in Patches, PatchPeriod(q, patch)
          PROVE  Goal
      <3>1. Writes(q, patch) /\ UNCHANGED fuel
        BY <2>2, PatchEffect DEF PatchPeriod
      <3> HIDE DEF Goal
      <3> QED BY <3>1, <1>2
    <2>3. CASE RefusePatch(q)
      <3>1. /\ request' = [request EXCEPT ![q] = Idle]
            /\ UNCHANGED <<period, fuel, annual>>
        BY <2>3 DEF RefusePatch
      <3>2. Leaves
        BY <3>1 DEF Leaves
      <3>3. \A r \in Requests : request'[r] \in {request[r], Idle}
        BY <3>1 DEF Types
      <3> QED BY <3>1, <3>2, <3>3 DEF StepKind, Types
    <2> HIDE DEF Goal
    <2> QED BY <1>5, <2>1, <2>2, <2>3 DEF Patch
  <1>6. ASSUME NEW r \in Runs, SaveAnnualRun(r)
        PROVE  Goal
    <2>1. annual' \in [Runs -> Flags] /\ UNCHANGED <<period, fuel, request>>
      BY <1>6 DEF SaveAnnualRun, Types, Flags
    <2> HIDE DEF Goal
    <2> QED BY <2>1, <1>3 DEF Types
  <1>7. ASSUME Import
        PROVE  Goal /\ left' \in Seq(FileRow)
    <2>1. ASSUME NEW p \in Periods, ImportRow(p)
          PROVE  Goal /\ left' \in Seq(FileRow)
      <3> DEFINE row == Head(left)
      <3>1. left # <<>> /\ left' = Tail(left)
        BY <2>1 DEF ImportRow
      <3>2. row \in FileRow /\ left' \in Seq(FileRow)
        BY <3>1 DEF Types
      <3>3. CreatePeriod(p, row.start, row.end, NULL, row.value, {row.key})
        BY <2>1 DEF ImportRow
      <3> HIDE DEF row, Goal
      <3>4. /\ row.start \in Times /\ row.end \in Times \cup {NULL}
            /\ row.value \in Values /\ {row.key} \in SUBSET FuelKeys
        BY <3>2 DEF FileRow
      <3>5. /\ \E columns \in Columns : Creates(p, columns)
            /\ fuel' \in [Periods -> SUBSET FuelKeys]
        BY <3>3, <3>4, CreateEffect
      <3> QED BY <3>2, <3>5, <1>1
    <2>2. ASSUME NEW file \in Files, StartImport(file)
          PROVE  Goal /\ left' \in Seq(FileRow)
      <3>1. UNCHANGED <<period, fuel, request, annual>> /\ left' \in Seq(FileRow)
        BY <2>2, FilesAssumption DEF StartImport
      <3> HIDE DEF Goal
      <3> QED BY <3>1, <1>3 DEF Types
    <2>3. ASSUME SkipRow
          PROVE  Goal /\ left' \in Seq(FileRow)
      <3>1. UNCHANGED <<period, fuel, request, annual>>
        BY <2>3 DEF SkipRow
      <3>2. left' \in Seq(FileRow)
        BY <2>3 DEF SkipRow, Types
      <3> HIDE DEF Goal
      <3> QED BY <3>1, <3>2, <1>3 DEF Types
    <2>4. ASSUME AbortImport
          PROVE  Goal /\ left' \in Seq(FileRow)
      <3>1. UNCHANGED <<period, fuel, request, annual>> /\ left' \in Seq(FileRow)
        BY <2>4 DEF AbortImport
      <3> HIDE DEF Goal
      <3> QED BY <3>1, <1>3 DEF Types
    <2> HIDE DEF Goal
    <2> QED BY <1>7, <2>1, <2>2, <2>3, <2>4 DEF Import
  <1>8. ASSUME UNCHANGED vars
        PROVE  Goal /\ left' \in Seq(FileRow)
    <2> HIDE DEF Goal
    <2> QED BY <1>3, <1>8 DEF vars, Types
  <1> HIDE DEF Goal
  <1>9. Goal /\ left' \in Seq(FileRow)
    BY <1>4, <1>5, <1>6, <1>7, <1>8 DEF Next, Types
  <1> QED BY <1>9 DEF Goal

\* What a PATCH has read stays there.
LEMMA TypesStep ==
    ASSUME Types, [Next]_vars
    PROVE  Types'
  <1>1. /\ StepKind
        /\ period' \in [Periods -> PeriodRow \cup {NULL}]
        /\ fuel' \in [Periods -> SUBSET FuelKeys]
        /\ request' \in [Requests -> {Idle} \cup LoadedRequest]
        /\ annual' \in [Runs -> Flags]
        /\ left' \in Seq(FileRow)
    BY StepKinds
  <1>2. \A p \in Periods : period[p] # NULL => period'[p] # NULL
    <2>1. ASSUME NEW p \in Periods, NEW columns \in Columns, Creates(p, columns)
          PROVE  \A other \in Periods \ {p} : period'[other] = period[other]
      BY <2>1 DEF Creates, Types
    <2>2. ASSUME NEW q \in Requests, NEW patch \in Patches, Writes(q, patch)
          PROVE  \A p \in Periods : period[p] # NULL => period'[p] # NULL
      <3> DEFINE r == request[q].period
                 columns == Written(period[r].columns, request[q].copy,
                                    Merged(request[q].copy, patch))
      <3>1. period' = [period EXCEPT ![r].columns = columns]
        BY <2>2 DEF Writes
      <3>2. [period[r] EXCEPT !.columns = columns] \in PeriodRow
        <4>1. request[q] \in LoadedRequest
          BY <2>2 DEF Types, Writes, Idle
        <4>2. r \in Periods /\ period[r] \in PeriodRow
          BY <2>2, <4>1 DEF Types, Writes, LoadedRequest
        <4>3. columns \in Columns
          BY <2>2, <4>1, <4>2, WrittenColumns DEF Writes, LoadedRequest, PeriodRow
        <4> HIDE DEF r, columns
        <4> QED BY <4>2, <4>3 DEF PeriodRow
      <3> HIDE DEF r, columns
      <3> QED BY <3>1, <3>2, RowAssumption DEF Types
    <2> QED BY <1>1, <2>1, <2>2 DEF StepKind, Leaves, Creates
  <1>3. ASSUME NEW q \in Requests, request'[q].pc = "loaded"
        PROVE  period'[request'[q].period] # NULL
    <2>1. request'[q] \in LoadedRequest
      BY <1>1, <1>3 DEF Idle
    <2>2. CASE request'[q] = request[q]
      BY <1>2, <1>3, <2>1, <2>2 DEF Types, LoadedRequest
    <2>3. CASE request'[q] # request[q]
      <3>0. request'[q] # Idle
        BY <1>3 DEF Idle
      <3>4. ~\E r \in Requests, patch \in Patches : Writes(r, patch)
        <4>1. SUFFICES ASSUME NEW r \in Requests, NEW patch \in Patches,
                              Writes(r, patch)
                       PROVE  FALSE
          OBVIOUS
        <4>2. request' = [request EXCEPT ![r] = Idle]
          BY <4>1 DEF Writes
        <4> QED BY <2>3, <3>0, <4>2 DEF Types
      <3>5. ~\E p \in Periods, columns \in Columns : Creates(p, columns)
        BY <2>3 DEF Creates
      <3>1. PICK r \in Requests, p \in Periods : LoadPeriod(r, p)
        BY <1>1, <2>3, <3>0, <3>4, <3>5 DEF StepKind
      <3>2. r = q
        BY <2>3, <3>1 DEF LoadPeriod, Types
      <3>3. request'[q].period = p /\ period[p] # NULL
        BY <3>1, <3>2 DEF LoadPeriod, Live, Types
      <3> QED BY <1>2, <3>3
    <2> QED BY <2>2, <2>3
  <1> QED BY <1>1, <1>3 DEF Types

\* The types hold throughout every behaviour, whatever requests cross.
THEOREM NotUnderwayTypes == Spec => []Types
  <1>1. Init => Types
    BY DEF Init, Types, Idle, Flags
  <1>2. Types /\ [Next]_vars => Types'
    BY TypesStep
  <1> QED BY <1>1, <1>2, PTL DEF Spec

\* Whatever a step changes of what an annual run counts, it marks the runs:
\* a PATCH decides by comparing the merge with its copy, and an UPDATE made
\* from a merge that equals the copy writes no column, however old the copy.
THEOREM ChangeMarksAnnualRunsHolds == Spec => ChangeMarksAnnualRuns
  <1>1. ASSUME Types, [Next]_vars, NEW p \in Periods, Counted(p)' # Counted(p),
               NEW r \in Runs, annual[r] = "fresh"
        PROVE  annual'[r] = "stale"
    <2>1. ~UNCHANGED <<period, fuel>>
      BY <1>1 DEF Counted, Live
    <2>2. MarkAnnual
      BY <1>1, <2>1, StepKinds DEF StepKind, Creates, Writes, Leaves
    <2> QED BY <1>1, <2>2 DEF MarkAnnual, Marked
  <1>2. Types /\ [Next]_vars =>
            ((\E p \in Periods : Counted(p)' # Counted(p)) =>
                \A r \in Runs : annual[r] = "fresh" => annual'[r] = "stale")
    BY <1>1
  <1> QED BY <1>2, NotUnderwayTypes, PTL DEF Spec, ChangeMarksAnnualRuns

-----------------------------------------------------------------------------
(* PATCHes of one period that follow one another, while PATCHes of others  *)
(* cross: P is any set of periods.                                         *)

\* A period of P has at most one PATCH under way.
NoCrossing(P) ==
    \A q, r \in Requests :
        /\ q # r
        /\ request[q].pc = "loaded" /\ request[q].period \in P
        /\ request[r].pc = "loaded"
        => request[q].period # request[r].period

\* What a PATCH has read of a period of P is what the row says.
CopyCurrent(P) ==
    \A q \in Requests :
        request[q].pc = "loaded" /\ request[q].period \in P =>
            request[q].copy = period[request[q].period].columns

\* No two periods of P overlap.
ApartAmong(P) ==
    \A p, other \in Periods \cap P :
        p # other /\ Live(p) /\ Live(other) =>
            Apart(period[p].columns, period[other].columns)

\* Each of them touches its year.
TouchedAmong(P) == \A p \in Periods \cap P : Live(p) => Touches(period[p].columns)

Inv(P) == Types /\ CopyCurrent(P) /\ ApartAmong(P) /\ TouchedAmong(P)

\* A new period keeps all the others as they are.
LEMMA CreatesKeeps ==
    ASSUME NEW P, Inv(P), Types', NEW p \in Periods, NEW columns \in Columns, Creates(p, columns)
    PROVE  CopyCurrent(P)' /\ ApartAmong(P)' /\ TouchedAmong(P)'
  <1>1. /\ period'[p] = [columns |-> columns, is_deleted |-> FALSE]
        /\ \A other \in Periods \ {p} : period'[other] = period[other]
        /\ request' = request
    BY DEF Inv, Types, Creates
  <1>2. CopyCurrent(P)'
    <2> SUFFICES ASSUME NEW q \in Requests, request'[q].pc = "loaded", request'[q].period \in P
                 PROVE  request'[q].copy = period'[request'[q].period].columns
      BY DEF CopyCurrent
    <2>1. request[q] \in LoadedRequest /\ period[request[q].period] # NULL
      BY <1>1 DEF Inv, Types, Idle
    <2>2. request[q].period \in Periods \ {p}
      BY <2>1 DEF LoadedRequest, Creates
    <2> QED BY <1>1, <2>2 DEF Inv, CopyCurrent
  <1>3. \A other \in Periods \ {p} :
            Live(other)' => Live(other) /\ Apart(period[other].columns, columns)
    BY <1>1 DEF Live, Creates, FreeFor, Apart
  <1>4. \A other \in Periods \ {p} : Live(other)' => Apart(columns, period[other].columns)
    BY <1>3, ApartSymmetric
  <1>5. ApartAmong(P)'
    BY <1>1, <1>3, <1>4 DEF ApartAmong, Live, Apart, Inv, Overlap
  <1>6. TouchedAmong(P)'
    BY <1>1, <1>3 DEF TouchedAmong, Live, Inv, Creates, Touches, SpannedYears
  <1> QED BY <1>2, <1>5, <1>6

\* A PATCH writes the columns of its period only.
LEMMA WritesEffect ==
    ASSUME Types, NEW q \in Requests, NEW patch \in Patches, NEW p, NEW columns,
           p = request[q].period,
           columns = Written(period[p].columns, request[q].copy,
                             Merged(request[q].copy, patch)),
           Writes(q, patch)
    PROVE  /\ request[q] \in LoadedRequest
           /\ p \in Periods /\ period[p] # NULL
           /\ request[q].copy \in Columns /\ period[p].columns \in Columns
           /\ period'[p].columns = columns
           /\ \A other \in Periods : Live(other)' <=> Live(other)
           /\ \A other \in Periods \ {p} : period'[other] = period[other]
           /\ \A r \in Requests : request'[r].pc = "loaded" => r # q /\ request'[r] = request[r]
  <1>1. request[q] \in LoadedRequest
    BY DEF Types, Writes, Idle
  <1>2. /\ p \in Periods /\ period[p] \in PeriodRow /\ period[p] # NULL
        /\ request[q].copy \in Columns /\ period[p].columns \in Columns
    BY <1>1 DEF Types, Writes, LoadedRequest, PeriodRow
  <1>3. /\ period' = [period EXCEPT ![p].columns = columns]
        /\ request' = [request EXCEPT ![q] = Idle]
        /\ Merged(request[q].copy, patch) \in Columns
    BY DEF Writes
  <1>4. columns \in Columns
    BY <1>2, <1>3, WrittenColumns
  <1>5. period'[p] = [period[p] EXCEPT !.columns = columns]
    BY <1>2, <1>3 DEF Types
  <1>6. period'[p] \in PeriodRow
    BY <1>2, <1>4, <1>5 DEF PeriodRow
  <1>7. period'[p].columns = columns /\ (period'[p].is_deleted <=> period[p].is_deleted)
    BY <1>2, <1>5 DEF PeriodRow
  <1>8. \A other \in Periods \ {p} : period'[other] = period[other]
    BY <1>3 DEF Types
  <1>9. \A other \in Periods : Live(other)' <=> Live(other)
    BY <1>2, <1>6, <1>7, <1>8, RowAssumption DEF Live
  <1>10. \A r \in Requests : request'[r].pc = "loaded" => r # q /\ request'[r] = request[r]
    BY <1>3 DEF Types, Idle
  <1> QED BY <1>1, <1>2, <1>7, <1>8, <1>9, <1>10

\* A PATCH whose copy is the row writes what it has checked.
LEMMA WritesKeeps ==
    ASSUME NEW P, Inv(P), NoCrossing(P), NEW q \in Requests, NEW patch \in Patches,
           Writes(q, patch), request[q].period \in P
    PROVE  CopyCurrent(P)' /\ ApartAmong(P)' /\ TouchedAmong(P)'
  <1>1. PICK p, new : p = request[q].period /\ new = Merged(request[q].copy, patch)
    OBVIOUS
  <1>2. /\ p \in Periods /\ p \in P /\ period[p] # NULL
        /\ request[q].copy \in Columns /\ period[p].columns \in Columns
        /\ request[q].copy = period[p].columns
    <2>1. /\ p \in Periods /\ period[p] # NULL
          /\ request[q].copy \in Columns /\ period[p].columns \in Columns
      BY <1>1, WritesEffect DEF Inv
    <2>2. request[q].pc = "loaded"
      BY DEF Writes
    <2> QED BY <1>1, <2>1, <2>2 DEF Inv, CopyCurrent
  <1>3. /\ new \in Columns
        /\ Touches(period[p].columns) => Touches(new)
        /\ \/ FreeFor(p, new.start, new.end)
           \/ new.start = period[p].columns.start /\ new.end = period[p].columns.end
    BY <1>1, <1>2 DEF Writes
  <1>4. Written(period[p].columns, request[q].copy, new) = new
    BY <1>2, <1>3, WrittenColumns
  <1>5. /\ period'[p].columns = new
        /\ \A other \in Periods : Live(other)' <=> Live(other)
        /\ \A other \in Periods \ {p} : period'[other] = period[other]
        /\ \A r \in Requests : request'[r].pc = "loaded" => r # q /\ request'[r] = request[r]
    BY <1>1, <1>4, WritesEffect DEF Inv
  <1>6. CopyCurrent(P)'
    <2> SUFFICES ASSUME NEW r \in Requests, request'[r].pc = "loaded", request'[r].period \in P
                 PROVE  request'[r].copy = period'[request'[r].period].columns
      BY DEF CopyCurrent
    <2>1. r # q /\ request'[r] = request[r]
      BY <1>5
    <2>2. request[r] \in LoadedRequest
      BY <2>1 DEF Inv, Types, Idle
    <2>3. request[r].period \in Periods \ {p}
      BY <1>1, <2>1, <2>2 DEF NoCrossing, LoadedRequest, Writes
    <2> QED BY <1>5, <2>1, <2>3 DEF Inv, CopyCurrent
  <1>7. \A other \in (Periods \cap P) \ {p} :
            Live(p) /\ Live(other) => Apart(period[other].columns, new)
    <2>1. CASE FreeFor(p, new.start, new.end)
      BY <2>1 DEF FreeFor, Apart
    <2>2. CASE new.start = period[p].columns.start /\ new.end = period[p].columns.end
      BY <1>2, <2>2 DEF Apart, Inv, ApartAmong
    <2> QED BY <1>3, <2>1, <2>2
  <1>8. \A other \in (Periods \cap P) \ {p} :
            Live(p) /\ Live(other) => Apart(new, period[other].columns)
    BY <1>7, ApartSymmetric
  <1>9. ApartAmong(P)'
    <2> SUFFICES ASSUME NEW a \in Periods \cap P, NEW b \in Periods \cap P, a # b,
                        Live(a)', Live(b)'
                 PROVE  Apart(period'[a].columns, period'[b].columns)
      BY DEF ApartAmong, Apart, Overlap
    <2>1. Live(a) /\ Live(b)
      BY <1>5
    <2>2. CASE a = p
      BY <1>5, <1>8, <2>1, <2>2
    <2>3. CASE b = p
      BY <1>5, <1>7, <2>1, <2>3
    <2>4. CASE a # p /\ b # p
      BY <1>5, <2>1, <2>4 DEF Inv, ApartAmong
    <2> QED BY <2>2, <2>3, <2>4
  <1>10. TouchedAmong(P)'
    <2> SUFFICES ASSUME NEW a \in Periods \cap P, Live(a)'
                 PROVE  Touches(period'[a].columns)
      BY DEF TouchedAmong, Touches, SpannedYears
    <2>1. Live(a) /\ Touches(period[a].columns)
      BY <1>5 DEF Inv, TouchedAmong
    <2>2. CASE a = p
      BY <1>3, <1>5, <2>1, <2>2
    <2>3. CASE a # p
      BY <1>5, <2>1, <2>3
    <2> QED BY <2>2, <2>3
  <1> QED BY <1>6, <1>9, <1>10

\* A PATCH of a period outside P may write anything: no row of P changes.
LEMMA WritesElsewhere ==
    ASSUME NEW P, Inv(P), NEW q \in Requests, NEW patch \in Patches,
           Writes(q, patch), request[q].period \notin P
    PROVE  CopyCurrent(P)' /\ ApartAmong(P)' /\ TouchedAmong(P)'
  <1>1. /\ \A p \in Periods \cap P : period'[p] = period[p] /\ (Live(p)' <=> Live(p))
        /\ \A r \in Requests : request'[r].pc = "loaded" => r # q /\ request'[r] = request[r]
    BY WritesEffect DEF Inv
  <1>2. CopyCurrent(P)'
    <2> SUFFICES ASSUME NEW r \in Requests, request'[r].pc = "loaded", request'[r].period \in P
                 PROVE  request'[r].copy = period'[request'[r].period].columns
      BY DEF CopyCurrent
    <2>1. request'[r] = request[r] /\ request[r] \in LoadedRequest
      BY <1>1 DEF Inv, Types, Idle
    <2>2. request[r].period \in Periods \cap P
      BY <2>1 DEF LoadedRequest
    <2> QED BY <1>1, <2>1, <2>2 DEF Inv, CopyCurrent
  <1>3. ApartAmong(P)'
    BY <1>1 DEF ApartAmong, Apart, Overlap, Inv
  <1>4. TouchedAmong(P)'
    BY <1>1 DEF TouchedAmong, Touches, SpannedYears, Inv
  <1> QED BY <1>2, <1>3, <1>4

\* A step that leaves the columns alone.
LEMMA LeavesKeeps ==
    ASSUME NEW P, Inv(P), Types', Leaves,
           \/ \E q \in Requests, p \in Periods : LoadPeriod(q, p)
           \/ \A q \in Requests : request'[q] \in {request[q], Idle}
    PROVE  CopyCurrent(P)' /\ ApartAmong(P)' /\ TouchedAmong(P)'
  <1>1. \A p \in Periods : period[p] # NULL => period'[p].columns = period[p].columns
    BY DEF Leaves
  <1>2. \A p \in Periods : Live(p)' => Live(p)
    BY DEF Leaves, Live
  <1>3. CopyCurrent(P)'
    <2> SUFFICES ASSUME NEW q \in Requests, request'[q].pc = "loaded", request'[q].period \in P
                 PROVE  request'[q].copy = period'[request'[q].period].columns
      BY DEF CopyCurrent
    <2>1. CASE request'[q] = request[q]
      <3>1. request[q] \in LoadedRequest /\ period[request[q].period] # NULL
        BY <2>1 DEF Inv, Types, Idle
      <3> QED BY <1>1, <2>1, <3>1 DEF Inv, CopyCurrent, LoadedRequest
    <2>2. CASE request'[q] # request[q]
      <3>1. PICK r \in Requests, p \in Periods : LoadPeriod(r, p)
        BY <2>2 DEF Idle
      <3>2. /\ request'[q].period = p /\ request'[q].copy = period[p].columns
            /\ period[p] # NULL
        BY <2>2, <3>1 DEF LoadPeriod, Live, Inv, Types
      <3> QED BY <1>1, <3>2
    <2> QED BY <2>1, <2>2
  <1>4. ApartAmong(P)'
    BY <1>1, <1>2 DEF ApartAmong, Apart, Live, Inv, Overlap
  <1>5. TouchedAmong(P)'
    BY <1>1, <1>2 DEF TouchedAmong, Touches, Live, Inv, SpannedYears
  <1> QED BY <1>3, <1>4, <1>5

\* The invariant holds where nothing is stored,
LEMMA InvInit ==
    ASSUME NEW P, Init
    PROVE  Inv(P)
  BY DEF Init, Inv, Types, Idle, Flags, CopyCurrent, ApartAmong, TouchedAmong, Live

\* and after every step.
LEMMA InvStep ==
    ASSUME NEW P, Inv(P), NoCrossing(P), [Next]_vars
    PROVE  Inv(P)'
  <1>1. Types' /\ StepKind
    BY TypesStep, StepKinds DEF Inv
  <1>2. CopyCurrent(P)' /\ ApartAmong(P)' /\ TouchedAmong(P)'
    BY <1>1, CreatesKeeps, WritesKeeps, WritesElsewhere, LeavesKeeps DEF StepKind
  <1> QED BY <1>1, <1>2 DEF Inv

\* Periods whose PATCHes never cross do not overlap one another and touch
\* their years, however the PATCHes of other periods cross: the row that two
\* crossed PATCHes leave may overlap others, but moves none of them.
THEOREM ApartAmongHolds ==
    ASSUME NEW P
    PROVE  Spec /\ []NoCrossing(P) => [](ApartAmong(P) /\ TouchedAmong(P))
  <1>1. Init => Inv(P)
    BY InvInit
  <1>2. Inv(P) /\ NoCrossing(P) /\ [Next]_vars => Inv(P)'
    BY InvStep
  <1>3. Inv(P) => ApartAmong(P) /\ TouchedAmong(P)
    BY DEF Inv
  <1> QED BY <1>1, <1>2, <1>3, PTL DEF Spec

\* The invariant for all the periods of the vessel.
LEMMA InvHolds == Spec /\ []NoCrossing(Periods) => []Inv(Periods)
  <1>1. Init => Inv(Periods)
    BY InvInit
  <1>2. Inv(Periods) /\ NoCrossing(Periods) /\ [Next]_vars => Inv(Periods)'
    BY InvStep
  <1> QED BY <1>1, <1>2, PTL DEF Spec

\* Fuel of a berth is never counted twice: as long as no two PATCHes of one
\* period cross, creation, import, PATCH and deletion keep the periods of the
\* vessel apart, although a PATCH looks for an overlap with times it read
\* before it took the lock.
THEOREM NoOverlapHolds == Spec /\ []NoCrossing(Periods) => []NoOverlap
  <1>1. Inv(Periods) => NoOverlap
    BY DEF Inv, ApartAmong, Apart, NoOverlap
  <1> QED BY <1>1, InvHolds, PTL

\* Nor does a period ever leave the years it touches, whichever of start,
\* end and year is edited.
THEOREM YearTouchedHolds == Spec /\ []NoCrossing(Periods) => []YearTouched
  <1>1. Inv(Periods) => YearTouched
    BY DEF Inv, TouchedAmong, Touches, YearTouched
  <1> QED BY <1>1, InvHolds, PTL
=============================================================================
