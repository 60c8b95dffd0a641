---------------------------- MODULE Reproductions ----------------------------
(***************************************************************************)
(* Annual runs computed again: services/annual_simulation.py, the storing  *)
(* of a run and reproduce_annual_simulation.  A run keeps a copy of what   *)
(* it counted, the regulation it used and its outcome.  Later the copy is  *)
(* computed again with the regulation of that day, which tells a revision  *)
(* (409), a changed environment (409) and a defect (500) apart.            *)
(*                                                                         *)
(* Both read the regulation in several SELECTs under READ COMMITTED, and   *)
(* imports commit in between; SELECTs that follow one another with nothing *)
(* decided in between are one step.  AnnualRuns has the reading of the     *)
(* voyages themselves in detail.                                           *)
(*                                                                         *)
(* A hash stands for what it is made from.  An outcome stands for all that *)
(* the engine is given, so two different inputs never agree by chance.     *)
(* Seed, target, number of draws and as_of belong to the run, go unchanged *)
(* into both hashes and both computations, and are left out.  A draw is    *)
(* taken to depend on nothing of the machine that model_version omits.     *)
(***************************************************************************)
EXTENDS Naturals

CONSTANTS
    Runs,
    Vessels,       \* particulars of the vessel; each has its reference line
    Fuels,
    Later,         \* regulation years after the one of the runs
    Year, Profile, \* the regulation year of the runs, the distribution profile
    Rows,          \* a row of a parameter table: a value and where it is from
    Values,
    ValueOf,
    Environments,  \* what model_version records: engine, NumPy, Python
    Numerics,      \* environments that draw alike
    NULL

\* A reference line goes by the vessel it is for.
Params == {Year, Profile} \cup Vessels \cup Later \cup Fuels

ASSUME ReproductionAssumption ==
    /\ ValueOf \in [Rows -> Values]
    /\ NULL \notin Rows \cup Values \cup Fuels
    /\ Year # Profile
    /\ {Year, Profile} \cap (Vessels \cup Later \cup Fuels) = {}
    /\ Vessels \cap (Later \cup Fuels) = {} /\ Later \cap Fuels = {}

VARIABLES
    law,       \* the active row of every parameter, NULL when there is none
    live,      \* the vessel and the voyages a run would copy now
    deployed,  \* the deployed software: environment and schema of new blocks
    run,
    check,     \* the reproduction under way, or the last one
    tampered,  \* runs whose snapshot was altered behind its trigger
    since      \* parameters revised since a run read them (properties only)

vars == <<law, live, deployed, run, check, tampered, since>>

Val(row) == IF row = NULL THEN NULL ELSE ValueOf[row]

NothingRead == [p \in Params |-> NULL]

\* What was read before, and now the active rows of `group'.
ReadAlso(read, group) ==
    [p \in Params |-> IF p \in group THEN law[p] ELSE read[p]]

Factors == [Fuels -> Values \cup {NULL}]

\* What is planned and what is settled (actual voyages, not-underway fuel),
\* each with the factor (cf_used) it was counted with.
Snapshots == [vessel : Vessels, plan : Factors, settled : Factors]

PlanFuels(snapshot) == {f \in Fuels : snapshot.plan[f] # NULL}

Schemas == 1..3

-----------------------------------------------------------------------------
(* Blocks, hashes and outcomes.                                            *)

\* parameters_used.  Schema 1 has the values of year, reference line (with
\* its boundary) and profile; 2 adds where they are from and the active
\* factors of the planned fuels; 3 adds the later years.
Block(schema, vessel, read) ==
    [schema |-> schema,
     values |-> [p \in Params |->
                    IF p \in {Year, Profile, vessel} THEN Val(read[p]) ELSE NULL],
     rows |-> [p \in Params |->
                  IF \/ schema >= 2 /\ p \in {Year, vessel} \cup Fuels
                     \/ schema >= 3 /\ p \in Later
                    THEN read[p] ELSE NULL]]

\* The input hash covers the whole copy and the choice of a fuel.
Material(snapshot, alternative) ==
    [snapshot |-> snapshot, alternative |-> alternative]

\* Only the draw depends on the environment.  The later years are rated in
\* runs of schema 3, the lever is there when a fuel was chosen.
Outcome(schema, snapshot, read, alternative, environment) ==
    LET rating == [snapshot |-> snapshot, year |-> Val(read[Year]),
                   line |-> Val(read[snapshot.vessel])]
    IN  [rating |-> rating,
         chances |-> <<Val(read[Profile]), Numerics[environment]>>,
         outlook |-> [y \in Later |-> IF schema >= 3 THEN Val(read[y]) ELSE NULL],
         lever |-> IF alternative = NULL THEN NULL ELSE Val(law[alternative])]

\* What is compared; the lever of a chosen fuel is not.
Compared(outcome) == <<outcome.chances, outcome.rating, outcome.outlook>>

SameOutcome(stored, again) == Compared(stored) = Compared(again)

-----------------------------------------------------------------------------
(* Runs.                                                                   *)

NoRun == [step |-> "none"]

\* `lacks': runs stored before the body, the seed or the particulars were.
Lacks == {"nothing", "body", "seed", "vessel"}

Init ==
    /\ law \in [Params -> Rows \cup {NULL}]
    /\ \A p \in Params \ Later : law[p] # NULL
    /\ live \in [vessel : Vessels, plan : SUBSET Fuels, settled : Factors]
    /\ deployed \in [environment : Environments, schema : Schemas]
    /\ run = [r \in Runs |-> NoRun]
    /\ check = [step |-> "idle"]
    /\ tampered = {}
    /\ since = [r \in Runs |-> {}]

Running(r) == run[r].step \in {"voyages", "tables", "store"}

Stored(r) == run[r].step = "stored"

\* The run has read the rows of `group' just now.
HasRead(r, group) == since' = [since EXCEPT ![r] = @ \ group]

ByRun == UNCHANGED <<law, live, deployed, check, tampered>>

\* The particulars, the year and the reference line; 409 without a row.
StartRun(r, alternative) ==
    LET group == {Year, live.vessel}
    IN  /\ run[r] = NoRun
        /\ \A p \in group : law[p] # NULL
        /\ run' = [run EXCEPT ![r] =
               [step |-> "voyages", alternative |-> alternative, vessel |-> live.vessel,
                read |-> ReadAlso(NothingRead, group)]]
        /\ HasRead(r, Params)
        /\ ByRun

\* The voyages, plans with the factors of now (collect_annual_inputs).
CopyVoyages(r) ==
    /\ run[r].step = "voyages"
    /\ \A f \in live.plan : law[f] # NULL
    /\ run' = [run EXCEPT ![r] =
           [step |-> "tables", alternative |-> @.alternative,
            snapshot |->
                [vessel |-> @.vessel, settled |-> live.settled,
                 plan |-> [f \in Fuels |->
                              IF f \in live.plan THEN Val(law[f]) ELSE NULL]],
            read |-> ReadAlso(@.read, live.plan)]]
    /\ HasRead(r, Fuels)
    /\ ByRun

\* The distribution profile and all later years there are.
ReadTables(r) ==
    /\ run[r].step = "tables"
    /\ law[Profile] # NULL
    /\ run' = [run EXCEPT ![r].step = "store",
                          ![r].read = ReadAlso(@, {Profile} \cup Later)]
    /\ HasRead(r, {Profile} \cup Later)
    /\ ByRun

\* Snapshot, calculation and run are inserted together.
Store(r, lacks) ==
    LET made == run[r]
    IN  /\ made.step = "store"
        /\ made.alternative # NULL => law[made.alternative] # NULL
        /\ lacks # "nothing" => deployed.schema = 1
        /\ run' = [run EXCEPT ![r] =
               [step |-> "stored", lacks |-> lacks, alternative |-> made.alternative,
                snapshot |-> made.snapshot, read |-> made.read,
                input |-> Material(made.snapshot, made.alternative),
                block |-> Block(deployed.schema, made.snapshot.vessel, made.read),
                outcome |-> Outcome(deployed.schema, made.snapshot, made.read,
                                    made.alternative, deployed.environment),
                model |-> deployed.environment]]
        /\ ByRun
        /\ UNCHANGED since

\* A row the next step needs is not there.
RefuseRun(r) ==
    /\ \/ run[r].step = "voyages" /\ \E f \in live.plan : law[f] = NULL
       \/ run[r].step = "tables" /\ law[Profile] = NULL
       \/ /\ run[r].step = "store"
          /\ run[r].alternative # NULL
          /\ law[run[r].alternative] = NULL
    /\ run' = [run EXCEPT ![r] = NoRun]
    /\ ByRun
    /\ UNCHANGED since

RunStep(r) ==
    \/ \E alternative \in Fuels \cup {NULL} : StartRun(r, alternative)
    \/ CopyVoyages(r) \/ ReadTables(r)
    \/ \E lacks \in Lacks : Store(r, lacks)
    \/ RefuseRun(r)

-----------------------------------------------------------------------------
(* Reproductions.                                                          *)

\* Mutant: all later years there are now.
AllYears(r) == Later

\* Only the years the run itself was rated against: a year that is loaded
\* later is no revision.
StoredYears(r) == {y \in Later : run[r].block.rows[y] # NULL}

\* What the reproduction of run r reads beside year and reference line.
Tables(r) ==
    LET schema == run[r].block.schema
    IN  {Profile} \cup (IF schema >= 2 THEN PlanFuels(run[r].snapshot) ELSE {})
                  \cup (IF schema >= 3 THEN StoredYears(r) ELSE {})

\* What run r used and its block names.
Used(r) ==
    LET made == run[r]
    IN  {Year, Profile, made.input.snapshot.vessel}
        \cup (IF made.block.schema >= 2 THEN PlanFuels(made.input.snapshot) ELSE {})
        \cup (IF made.block.schema >= 3 THEN {y \in Later : made.read[y] # NULL} ELSE {})

\* What run r used and what has another value now.
Overturned(r) == {p \in Used(r) : Val(law[p]) # Val(run[r].read[p])}

\* A reproduction is asked for.  It reads the copied particulars, not the
\* vessel's; a run that lacks body, seed or particulars is 404.
Ask(r) ==
    /\ check.step \in {"idle", "answered"}
    /\ Stored(r)
    /\ check' = [step |-> IF run[r].lacks = "nothing" THEN "law" ELSE "answered",
                 run |-> r, vessel |-> run[r].snapshot.vessel, read |-> NothingRead,
                 tampered |-> r \in tampered, overturned |-> Overturned(r),
                 answer |-> "unknown"]

Answer(answer) ==
    check' = [check EXCEPT !.step = "answered", !.answer = answer]

\* 409 without a row, before anything is compared.
CheckLaw ==
    LET group == {Year, check.vessel}
    IN  /\ check.step = "law"
        /\ IF \A p \in group : law[p] # NULL
             THEN check' = [check EXCEPT !.step = "tables",
                                         !.read = ReadAlso(@, group)]
             ELSE Answer("missing")

\* Mutant: the regulation is compared first and settles it.
HastyVerdict(r, read) ==
    IF Block(run[r].block.schema, check.vessel, read) # run[r].block THEN "revised"
    ELSE IF Material(run[r].snapshot, run[r].alternative) # run[r].input THEN "broken"
    ELSE "passed"

\* The verdict of the two hashes; a copy that does not match (500) weighs
\* more than a revision (409).
Verdict(r, read) ==
    IF Material(run[r].snapshot, run[r].alternative) # run[r].input THEN "broken"
    ELSE IF Block(run[r].block.schema, check.vessel, read) # run[r].block THEN "revised"
    ELSE "passed"

CheckTables ==
    LET read == ReadAlso(check.read, Tables(check.run))
        verdict == Verdict(check.run, read)
    IN  /\ check.step = "tables"
        /\ IF verdict = "passed"
             THEN check' = [check EXCEPT !.step = "outcome", !.read = read]
             ELSE Answer(verdict)

\* The factor of the chosen fuel is read, the copy, whose hash has matched,
\* is computed, and only when the outcome differs does it matter where.
CheckOutcome ==
    LET made == run[check.run]
        again == Outcome(made.block.schema, made.input.snapshot, check.read,
                         made.alternative, deployed.environment)
        moved == made.model # deployed.environment
    IN  /\ check.step = "outcome"
        /\ IF made.alternative # NULL /\ law[made.alternative] = NULL
             THEN Answer("missing")
           ELSE IF SameOutcome(made.outcome, again)
             THEN Answer(IF moved THEN "warned" ELSE "same")
             ELSE Answer(IF moved THEN "moved" ELSE "broken")

CheckStep == CheckLaw \/ CheckTables \/ CheckOutcome

-----------------------------------------------------------------------------
(* What happens beside them.                                               *)

\* An import gives a parameter another row, or a row is turned off; a
\* later year is loaded.
Revise(p, row) ==
    /\ row # law[p]
    /\ law' = [law EXCEPT ![p] = row]
    /\ since' = [r \in Runs |-> since[r] \cup {p}]
    /\ check' = IF check.step = "idle" THEN check
                ELSE [check EXCEPT !.overturned = @ \ {p}]
    /\ UNCHANGED <<live, deployed, run, tampered>>

EditLive(now) ==
    /\ live' = now
    /\ UNCHANGED <<law, deployed, run, check, tampered, since>>

EditVessel(v) == EditLive([live EXCEPT !.vessel = v])

EditPlan(f) ==
    EditLive([live EXCEPT !.plan = IF f \in @ THEN @ \ {f} ELSE @ \cup {f}])

EditSettled(f, factor) == EditLive([live EXCEPT !.settled[f] = factor])

\* New software is deployed, or the same is restarted: what was under way is
\* lost, what was stored in an older schema stays so.
Deploy(software) ==
    /\ software.schema >= deployed.schema
    /\ deployed' = software
    /\ run' = [r \in Runs |-> IF Running(r) THEN NoRun ELSE run[r]]
    /\ check' = IF check.step = "answered" THEN check ELSE [step |-> "idle"]
    /\ UNCHANGED <<law, live, tampered, since>>

Altered(snapshot) ==
    {[snapshot EXCEPT !.vessel = v] : v \in Vessels}
    \cup {[snapshot EXCEPT !.plan[f] = x] : f \in Fuels, x \in Values \cup {NULL}}
    \cup {[snapshot EXCEPT !.settled[f] = x] : f \in Fuels, x \in Values \cup {NULL}}

\* A snapshot is immutable by a trigger; reproduction is there to notice
\* when it was altered all the same.
Tamper(r) ==
    /\ Stored(r)
    /\ r \notin tampered
    /\ \E snapshot \in Altered(run[r].snapshot) \ {run[r].snapshot} :
           run' = [run EXCEPT ![r].snapshot = snapshot]
    /\ tampered' = tampered \cup {r}
    /\ UNCHANGED <<law, live, deployed, check, since>>

Requests ==
    \/ \E r \in Runs : RunStep(r)
    \/ /\ (\E r \in Runs : Ask(r)) \/ CheckStep
       /\ UNCHANGED <<law, live, deployed, run, tampered, since>>

Surroundings ==
    \/ \E p \in Params, row \in Rows \cup {NULL} : Revise(p, row)
    \/ \E v \in Vessels : EditVessel(v)
    \/ \E f \in Fuels : EditPlan(f)
    \/ \E f \in Fuels, factor \in Values \cup {NULL} : EditSettled(f, factor)
    \/ \E software \in [environment : Environments, schema : Schemas] : Deploy(software)
    \/ \E r \in Runs : Tamper(r)

Next == Requests \/ Surroundings

Spec == Init /\ [][Next]_vars

-----------------------------------------------------------------------------
(* Properties.                                                             *)

Readings == [Params -> Rows \cup {NULL}]

Blocks == [schema : Schemas, values : [Params -> Values \cup {NULL}], rows : Readings]

Choices == Fuels \cup {NULL}

\* What has been stored of a run grows with its steps.
RunType(made) ==
    \/ made = NoRun
    \/ made \in [step : {"voyages"}, alternative : Choices, vessel : Vessels,
                  read : Readings]
    \/ made \in [step : {"tables", "store"}, alternative : Choices,
                  snapshot : Snapshots, read : Readings]
    \/ made \in [step : {"stored"}, lacks : Lacks, alternative : Choices,
                  snapshot : Snapshots, read : Readings,
                  input : [snapshot : Snapshots, alternative : Choices],
                  block : Blocks, outcome : {made.outcome},
                  model : Environments]

Answers == {"unknown", "missing", "broken", "revised", "same", "warned", "moved"}

CheckType ==
    \/ check = [step |-> "idle"]
    \/ check \in [step : {"law", "tables", "outcome", "answered"}, run : Runs,
                   vessel : Vessels, read : Readings, tampered : BOOLEAN,
                   overturned : SUBSET Params, answer : Answers]

\* Every variable keeps its type.
TypeOK ==
    /\ law \in Readings
    /\ live \in [vessel : Vessels, plan : SUBSET Fuels, settled : Factors]
    /\ deployed \in [environment : Environments, schema : Schemas]
    /\ run \in [Runs -> {run[r] : r \in Runs}] /\ \A r \in Runs : RunType(run[r])
    /\ CheckType
    /\ tampered \subseteq Runs
    /\ since \in [Runs -> SUBSET Params]

Answered == check.step = "answered"

Found == {"same", "warned", "moved"}

\* A reproduction blames the stored run (500) only if its snapshot was
\* altered, whatever was revised, edited and deployed meanwhile; and one
\* that began after the alteration neither confirms the run nor sends the
\* user off with a revision (reproduce_annual_simulation, "the heavier
\* side wins"), unless it stopped before at a row that is not there.
BrokenMeansTampered ==
    Answered =>
        /\ check.answer = "broken" => check.run \in tampered
        /\ check.tampered => check.answer \in {"unknown", "missing", "broken"}

\* A reproduction of an untouched run speaks of a revision only if something
\* the run itself used was revised since, so neither edits nor years that
\* are loaded nor newer schemas make it do so; and it never passes in
\* silence over another value of what its block names that stood from the
\* question to the answer.
RevisedMeansRevised ==
    Answered /\ check.run \notin tampered =>
        /\ check.answer = "revised" => since[check.run] \cap Used(check.run) # {}
        /\ check.answer = "missing" =>
               since[check.run] \cap
                   (Used(check.run) \cup ({run[check.run].alternative} \ {NULL})) # {}
        /\ check.answer \in Found => check.overturned = {}
=============================================================================
