# A formal model of the CII platform

The repository is a FastAPI/SQLAlchemy service (`src/src/cii_platform`) with a
React front end. It keeps the voyages of ships, computes their carbon intensity
(CII), simulates the year with Monte Carlo runs, compares and adopts scenarios,
and records what ships do when they are not under way.

The numbers are the business of the calculation engines and of their numeric
tests. What this directory specifies is the other half: *which rows may exist
together, who may change them in which order, what happens when two requests
overlap, and which stored results are marked out of date by a change*. The
modules are TLA+, small instances are checked with TLC, and all the safety
and action properties that the passing runs check have proofs for every value of
the constants, checked with TLAPS, some of them under a stated condition on which requests
overlap.

## 1. Inventory

Paths are relative to `src/src/cii_platform`.

| Part | State | Operations | What is hard | What makes it correct |
|---|---|---|---|---|
| Voyages (`services/voyage.py`, `services/public_record_fill.py`) | `voyage`, `voyage_fuel_use` | create, PATCH, transition, inclusion of a confirmed voyage, delete (real or soft), actuals, fill from public records | seven statuses, three policies, four instants and a year, edited one at a time by seven handlers; each sees only what the others left | policy fits status, included means dated, times in order, year touched by the times, confirmed means complete, history is not rewritten |
| Annual runs (`services/annual_simulation.py`) | `calculation_run` of type ANNUAL_MONTE_CARLO, `needs_recalc` | run, reproduce | three unlocked SELECTs, a long computation, then an INSERT; every voyage operation commits in between | an unmarked run equals what a new one would read |
| Annual runs computed again (`reproduce_annual_simulation`) | `simulation_snapshot`, `parameters_used` in three schemas, `input_hash`, `parameter_hash`, `model_version` | store, reproduce | regulation, vessel, voyages, schema and environment all change between a run and its reproduction, and in the middle of both | a defect is answered only for an altered snapshot, a revision only for something the run used |
| Voyage estimates (`services/voyage_cii.py`) | `calculation_run` of one voyage | estimate, optionally kept | refers to a voyage that may be deleted | the mark follows the plan; a referred row stays |
| Scenario comparison and adoption (`services/scenario_compare.py`, `services/scenario_adopt.py`) | `voyage_scenario`, the comparison's run | compare, adopt into a voyage, adopt into a new voyage | the scenario row is read before the lock and written through the unit of work | one adopted scenario per voyage, the one just adopted |
| Not-underway periods (`services/not_underway.py`) | `not_underway_period`, `not_underway_fuel_use` | create, PATCH, delete, add and delete fuel | PATCH reads before it locks; open periods; the year follows the times | no overlap, the year is touched, annual runs are marked |
| Accounts and roles (`api/routes/auth.py`, `auth/role_bootstrap.py`) | `app_user` | sign up, log in, withdraw, change role, promotion of initial administrators | the role is read before administrators are locked and counted | an administrator always remains |
| Account tokens, sessions (`services/auth_token.py`, `auth/session.py`) | `user_token`, `user_session` | issue, consume, revoke | one-use tokens beside password resets and logins | used once; nothing survives a reset |
| Login backoff (`auth/backoff.py`) | in-process table | failure, success, eviction | a full table | an e-mail under delay keeps its delay |
| Lists and views of a year (`services/voyage.py`, `services/ytd_cii.py`, `services/cii_current.py`, `services/data_quality.py`) | none of their own; a cursor in the hands of the reader | page of voyages, running total, snapshot, projection, data check | each decides by other columns which voyages count; rows move between two pages | nothing counted twice or lost between them; a list repeats and misses nothing |
| Vessels, positions (`services/vessel.py`, `services/position_snapshot.py`) | `vessel`, `vessel_position_snapshot` | edit particulars, AIS batch, manual position | late and repeated observations beside manual ones, which are written unconditionally | newest observation since the last entry is shown; runs marked when particulars change |
| CSV imports (`services/voyage_import.py`, `services/not_underway_import.py`) | none of their own | dry run, import | one commit per voyage number or row; a number may be refused, fail or be cut off | a number comes in once and whole; the dry run foretells the import |
| Regulatory parameters (`services/parameters.py`, `services/parameter_import.py`) | versioned tables | import | all or nothing over several rows | the active bands of a ship type are whole files |
| Connection pool (`db/session.py`) | the connections | acquire, commit, give back | turns of the assistant hold connections for long | no request holds one for ever |
| Public port calls (`port_calls/`) | call records | collect, reconcile | outside data | reconciliation is a function |
| Weather, geocoding (`services/weather.py`, `services/geocoding.py`) | caches | look up with fallback by age, store | two look-ups of one key; ageing | the loser answers with the stored row |
| AI assistant (`services/chat.py`) | chat sessions and messages | one turn with tool calls, expiry, deletion | a time limit cuts a turn anywhere; turns of one conversation overlap; the model may answer anything | a figure of a stored answer stays near one a tool gave, also when answers round what answers rounded |
| Calculation engines (`calc/`) | none | pure functions | decimals and floats | numeric fixtures |
| Reports, exports, summaries, notifications | none | read only | | |
| Audit log, mail | append only | | | |
| Migrations, seed, maintenance scripts | | one-off | | |
| Front end (`src/frontend`) | browser state | presentation | | |

How they interact: every service runs in the transaction of its request. Voyage
and adoption operations lock the `vessel` row and then the `voyage` row
(`repositories/voyage.py`, `get_by_id(for_update=True)`); creating a period and
moving a period's times lock the `vessel` row. Operations call one another
(`public_record_fill` calls `transition_voyage` and `update_period`;
`scenario_adopt` calls `create_voyage`). The one message from the rows to the
stored results is the `needs_recalc` mark, which only goes from false to true
(`repositories/calculation_run.py`).

Every hazard found in this code is listed with its line in `PROJECT.json`,
together with the properties that cover it or the reason none does.

## 2. Modules

```
VoyageStages <--- VoyageLifecycle <-+- YearViews  <-+------- MCVoyageLifecycle
      ^                             |               |
      |                             |               +------- VoyageLifecycleProofs
      |                             |               |
      |                             +- AnnualRuns <-+------- MCAnnualRuns
      |
ScenarioAdoption <--- ScenarioAdoptionProofs

VoyageLists <--- VoyageImports <--- MCVoyageImports
                               <--- VoyageImportProofs

             +--- Conversations    <--+
Connections <+--- PortLookups      <--+--- SharedPool <--- SharedPoolProofs
             +--- VesselPositions  <--+
             +--- ParameterImports <--+

NotUnderway <--- MCNotUnderway           Reproductions <--- MCReproductions
            <--- NotUnderwayProofs                     <--- ReproductionProofs

Administrators <--- AdministratorProofs  AccountTokens <--- AccountTokenProofs
```

An arrow points to the module that is extended or instantiated.

### VoyageStages: what others may rely on

The abstract specification: a voyage is unregistered, planning, sailing, done,
cancelled or hidden. A voyage sailed to its end can be hidden, never erased.
`VoyageLifecycle` implements it (`ImplementsStages`, checked and proved) under
the mapping `Stage`; `ScenarioAdoption` is built on it, so that adoption is
checked against every life a voyage can have without repeating its columns.

### VoyageLifecycle: the voyages of one vessel

| Variable | Code |
|---|---|
| `voyages[v]` | the row of `voyage` with its `voyage_fuel_use` rows, `NULL` before creation and after a real delete |
| `calc[v]` | the newest `calculation_run` of that voyage: none, fresh, or stale (`needs_recalc`) |
| `annual[r]` | the stored annual runs of the vessel, with their mark |

| Action | Code |
|---|---|
| `CreateVoyage` | `create_voyage` |
| `UpdateVoyage` | `update_voyage` |
| `TransitionVoyage` | `transition_voyage` |
| `SetConfirmedInclusion` | `set_confirmed_inclusion` |
| `HardDeleteVoyage`, `SoftDeleteVoyage` | the two branches of `delete_voyage` |
| `SetActuals` | `set_actuals` |
| `FillFromPublicRecord`, `FillBerthFromPublicRecord` | `fill_from_public_record`, for an actual time of the voyage and for a berth period |
| `AdoptPlan` | what `adopt_scenario` writes into the target voyage |
| `EstimateVoyage` | `estimate_voyage_cii`, the kept run |
| `SaveAnnualRun` | the INSERT of `run_annual_simulation` |

One operation is one action because each of these handlers locks the vessel row
and the voyage row before it reads what it decides on, and holds both to its
commit. An estimate holds no lock; it only inserts a row that refers to the
voyage, which the foreign key serialises with a delete.

Abstracted: ports, coordinates, names, notes and the `*_source` columns are left
out; planned distance, speed and tonnages are one value `plan`; an instant is a
number and `YearOf` gives its UTC year; instants a person enters are taken to
be past (the wall-clock check for the future is not modelled). A change of the
vessel's particulars is an action of `AnnualRuns`; a change of the regulation
tables marks nothing in the code and is left out.

### YearViews: what the screens read

No actions: the queries of the repository (`AnnualInclusions`, `RemainingPlans`,
`FindInProgress`), what a voyage in progress contributes (`Contributes`), the
running total (`YtdTotal`), the snapshot of a run (`Snapshot`), the projection
made from it (`YearEnd`), the pairs the feedback factor takes (`CompletedPairs`)
and the data check (`Severities`, `CompletenessAxis`, `VesselReason`, `Impact`),
as operators over the rows of `VoyageLifecycle`. Its properties relate two of
these views, or a view before and after an edit: they are about the fit of
services that never call one another. With one voyage the order in which
`FindInProgress` prefers the latest departure is not exercised.

### VoyageLists: the list of voyages, page by page

| Variable | Code |
|---|---|
| `voyages[v]` | number and departure of the live row |
| `holder` | the transaction of an import that holds the vessel's row |
| `list` | one reading: its cursor, and for the property what was there at the first page, what kept its place, what was delivered |

`FirstPage` and `NextPage` are `list_voyages`; the condition of the cursor
(`After`) and the sort order (`Precedes`) are two expressions in the code and two
definitions here, and the property needs them to agree. An id stands for
`created_at` and `id`; ids may be used again, because a row that leaves a filter
and returns looks to the reader like one that was deleted and came back. Entries
by hand wait while an import holds the vessel's row.

### VoyageImports: CSV files beside entries by hand

`import[i]` is one run of `import_voyages`: its file, the numbers `left`, the
number it is `at`, the outcome of each row, and what a dry run said. Every number
is a transaction: `LockVessel`, `LookUpNumber`, then `StoreVoyage` (commit),
`RefuseNumber` (the checks refuse; the transaction, and with it the lock, goes on
to the next number) or `FailNumber` (rolled back). A failure after the commit
reports an error although the voyage is stored. `LockRefused` is a lock the
database refuses, `Abandon` a crash or an aborted request at any point. Rows
without a number, rows that cannot be read and rows of a number that disagree are
errors; rows past the limit are cut, with the whole of the number they belong to.
The numbers of a file are taken in any order.

### AnnualRuns: a run beside the operations

Extends `VoyageLifecycle` with the steps of `run_annual_simulation`: SELECT of
the vessel, of the actuals, of the remaining plans, of their fuel rows, INSERT.
Every voyage operation may commit between two steps, and so may `UpdateVessel`,
the PATCH of the vessel's particulars: it compares with a row that may be an
earlier one (`rows`), writes the columns that differ from it, and marks if ship
type, deadweight or gross tonnage are among them. An edit is one action beside a
run because it holds the vessel's row from before it marks until it commits, and
the foreign key of the run's INSERT waits for that row. `Preview` and
`ApplyApproved` are the tool that marks outdated runs after the fact
(`maintenance/annual_needs_recalc.py`); it marks only what it finds outdated
twice. `overtaken` is a history
variable: it remembers that an operation changed what the run counts while the
run was reading, and no action reads it.

### Reproductions: an annual run computed again

| Variable | Code |
|---|---|
| `law` | the active row of every parameter: year, later years, reference line (with its rating boundary) per particulars, distribution profile, fuel types |
| `live` | the vessel, its planned voyages and what is settled, as a run would copy them now |
| `deployed` | `_model_version` and the schema `run_annual_simulation` writes |
| `run[r]` | what a run has read so far; once stored its `simulation_snapshot`, hashes, `parameters_used`, outcome and `model_version` |
| `check` | one `reproduce_annual_simulation`, under way or answered |
| `tampered`, `since` | whose snapshot was altered, what was revised since a run read it; read by the properties only |

`StartRun`, `CopyVoyages`, `ReadTables` and `Store` are the SELECTs of a run in
their order, `RefuseRun` the refusals at each; `Ask`, `CheckLaw`, `CheckTables` and
`CheckOutcome` those of a reproduction. Revisions, edits, deployments and
alterations come between any two. A hash is what it is made from, and an outcome
is all that the engine is given, so that two inputs never agree by chance.
`Block` has the three schemas of `parameters_used`, because a reproduction builds
the block in the schema of the stored run (`parameters_schema_version`) and reads
only the later years that run had (`StoredYears`). What `_assert_same_outcome`
does not compare, the lever of a chosen fuel, is in the outcome and not in
`Compared`. `Tamper` stands for what the trigger on `simulation_snapshot` should
prevent: the input hash is there in case it does not. Rows a deployment moves to
another schema do not exist: a stored run keeps its own. A draw is taken to depend
only on its input and on what `model_version` records.

### ScenarioAdoption: one adopted scenario per voyage

| Variable | Code |
|---|---|
| `stage[v]` | the stage of a voyage (`VoyageStages`) |
| `scenario[s]` | `is_adopted`, `voyage_id` and the voyage of the comparison (`calculation_run.voyage_id`) |
| `request[q]` | what an adoption request holds in its session |

`adopt_scenario` is two actions: `Load` reads the scenario row, then
`AdoptIntoVoyage` or `AdoptIntoNewVoyage` locks, clears the previous adoption,
sets the two columns and commits. Between them anything may commit. The flush is
modelled as SQLAlchemy's unit of work does it: the UPDATE names only the columns
whose new value differs from the one the session's object holds (`Flushed`), and
the clearing UPDATE is evaluated on that object too (`ClearedCopy`).
The split of a scenario's fuel over the voyage's fuel rows is not modelled.

A scenario compared for no voyage may be adopted by one voyage and later by
another, also after the first has sailed; the code allows it, and
`AdoptionTakesEffect` states what it then does.

### NotUnderway: periods at berth, anchor or adrift

`CreatePeriod` is one action, since it locks the vessel before it looks for an
overlap. `update_period` is two (`LoadPeriod`, `PatchPeriod`): it reads its row,
merges the request into that copy, locks the vessel only when it moves a time,
and writes the columns that differ from the copy (`Written`). Fuel rows are a
set of keys (consumer and fuel type, the table's unique key). Period type and
distance are one value; ports and coordinates are left out. `StartImport`,
`ImportRow`, `SkipRow` and `AbortImport` are `not_underway_import`: each row is a
creation that commits, or is skipped when the period clashes, and the import may
stop anywhere and be repeated.

### Administrators: somebody is left

A request reads its account without a lock (`Read`). `Withdraw` and `ChangeRole`
count the administrators under a lock only where the role that was read is
ADMIN. `Promote` is `promote_verified_initial_admin`, at a login or when an
address is verified. The account of the guided tour and audit rows are left out.
`promoted` is a history field that no guard reads.

### AccountTokens: links, passwords and sessions

| Variable | Code |
|---|---|
| `account[u]` | the `app_user` rows of one e-mail address: the password as a count of changes, verified, deleted |
| `tokens`, `sessions` | `user_token`, `user_session` in the order of their INSERTs |
| `request[q]` | what a request has read and which rows it has locked |

A login, a password change, the issue of a link and a withdrawal read, then
lock, then write (`Read`, `LockAccount`, `SupersedeTokens`, `IssueToken`, `LogIn`,
`ChangePassword`, `Withdraw`); opening a link marks its token, then shares the
account's row through the foreign key, then does what the link is for
(`ConsumeToken`, `ShareAccount`, `Confirm`). Row locks are derived from the steps
(`HoldsToken`, `HoldsAccount`, `SharesAccount`, `WaitsFor`); two requests that wait
for each other are resolved by the database (`DeadlockVictim`). The absolute and
idle limits of a session are abstracted: one that runs out is one logged out.

### Connections and SharedPool: one server, one pool

`Connections` is the pool: a request takes a connection with its first statement
and keeps it to the end of its transaction; a request for which none is free
fails and changes nothing. Four services run over it, each a module of its own,
and `SharedPool` composes them: their tables are disjoint, what they share is the
pool and the time limits.

| Module | Code | State | Steps |
|---|---|---|---|
| `Conversations` | `services/chat.py` | one conversation and its messages | a turn: question, history, tool calls, answer whose figures are checked against those of tools and of earlier answers, as they are or rounded (`RoundedForms`), and stored or refused, time limit anywhere; expiry, deletion. A figure is a number of units of the last place any tool gives, and `Quanta` says what the displayed places are worth; its sign is left out, and bare numbers of one digit and years are none |
| `PortLookups` | `services/geocoding.py` | the cache table | cache, connection given back, queue before the provider, provider, store; the loser of a race answers with the stored row |
| `VesselPositions` | `services/position_snapshot.py`, `services/vessel.py` | shown position, track | entry by hand as read and write; a batch that delivers any observations, late or again |
| `ParameterImports` | `services/parameter_import.py` | active rows of one ship type | read, turn off, insert row by row under the trigger, commit or all undone |

Abstracted there. In a conversation the vessel is whether it is known, and
favourites are left out; deleting it is one action that waits for turns that have
written; a search by a tool locks the conversation's row exclusively, and two such
turns can wait for each other, of which the database ends one. `now` is the
latest time the server looked at its clock; an entry saved late may move the shown
time back, so `ShownPosition` is relative to the last entry; entries of half a
coordinate are left out. Parameters are the kinds that divide a ship type into
bands, for one ship type; fuel types and years are replaced key by key.

## 3. What TLC checks

Deadlock is an error in `voyage_list` only; in the other models ids, tokens, runs or
requests run out and requests may stop coming.

| Run | Instance | Question and answer |
|---|---|---|
| `lifecycle` | one voyage, 2 instants in 2 years, 2 plans, 2 fuels, one annual run, no departure or arrival from a public record; 79 thousand states under symmetry | Does any order of operations leave the row inconsistent, or two views of the year in disagreement? No: policy and status, year, order of times and completeness hold, the life follows `VoyageStages`; a voyage is counted once while it is under way and still counted when it completes, and whatever changes a snapshot marks the runs. |
| `annual_runs` | one voyage, one run, one instant after the run's cut-off, public records, two values of the particulars; 0.25 million states | Is every change marked, and is a run that nothing overtook current as long as it is unmarked? Yes. Actuals of confirmed voyages are not rewritten. |
| `adoption` | 2 voyages, 3 scenarios, one request at a time; 0.14 million states | Does adoption keep one scenario per voyage, also across re-adoption, deletion and departure? Yes. |
| `not_underway` | 2 periods, 3 instants over a change of year, one PATCH at a time, one fuel key, one run, files of three rows; 54 thousand states | Do periods stay apart, dated in a year they touch, and marked, beside an import that may stop anywhere? Yes. |
| `administrators` | 3 accounts, 2 initial administrators, 2 overlapping requests; 71 thousand states | Does an administrator remain? Yes, unless an account is promoted between read and write of a request about it. |
| `account_tokens` | an account and its successor, 3 tokens, 2 sessions, 2 overlapping requests | Is a link used once, and only the newest? Do sessions end with their password, and is a withdrawn account left alone? Yes, but for a login or a change of password that had read before. Does every request end? Yes. |
| `shared_pool` | 3 overlapping requests of any of the four services, 2 connections, a figure that rounds to a second and that to a third; 0.53 million states | Does every figure of an answer stay within 5/9 of its last place of one a tool gave, do look-ups of a name agree, is the newest position shown, are imports whole, does no request hold on for ever? Yes. |
| `voyage_list` | 2 voyages, pages of one row, 2 imports of 3 files, 3 rows read; 0.93 million states under symmetry | Does a reading repeat or miss a voyage? Does a number come in twice or in part, and does the dry run foretell the import? No, no and yes. |
| `reproduction` | one run, 2 particulars, 2 fuels, 2 later years (one loaded later), 3 rows of which 2 have one value, 3 environments of which 2 draw alike, 2 changes at any time; 0.3 million states | Is a stored run blamed only when its snapshot was altered, and the regulation only when something the run used was revised? Yes. Is an altered snapshot ever confirmed or excused with a revision? No. |

Why the bounds are enough. No rule of a voyage looks at another voyage, so one
voyage shows every row; two instants on either side of a New Year give every
order and every relation of year and times; two fuels tell "one has a tonnage"
from "all have". A run reads in four steps and stores once, so one run meets
every place an operation can fall. `Rates` has one value because it marks nothing.
Adoption relates two scenarios of one voyage and one scenario of two voyages; a
third scenario gives clearing something to leave alone. Overlap is a relation of
two periods; three instants give touching, nested and open ones. The
last-administrator rule needs two administrators who leave together and a third
account that may become one. A link is superseded, opened and opened again with
three tokens; the successor of a withdrawn account has the same address; and two
overlapping requests show every deadlock, because a circle of any length contains one
of two (`CirclesAreOfTwoHolds`). Three
requests over two connections are the least number of which one finds none, and
every race of a service is one of two requests. Figures 1045, 1050 and 1100 in places
worth 10 and 100 (10.45, 10.5, 11) are the shortest drift: the first turn may store
the second figure and the next the third, which is no rounding of the first. Only the
first is typed or returned (`Originals`), and a message names one figure at most
(`MaxNamed`), because each figure of an answer is checked alone. The order of a list is a relation
of two keys, and a page of one row puts a gap between any two; `HandNumbers` limits
what is entered by hand to one of the two numbers or none; the three files hold a
voyage of two fuels, one cut by the limit, rows that disagree and one that cannot
be read. A wrong answer to a reproduction confuses two causes, so two changes
beside the run are the least that can mislead it; a row with the same value from
another source, an environment that draws alike and a year loaded later are the
changes that must go unnoticed by one comparison and not by the next. Reproductions
write nothing, so one at a time meets every change.

Fairness. It is assumed in two modules. In `SharedPool`, `WaitEnds` is weakly fair
for every request: each of its waits has a time limit in the code (the turn as a
whole, the queue before the provider, the provider, the pool), and a statement of
the database ends; nothing says that a turn is answered. In `AccountTokens`,
`Proceed` is strongly fair for every request, since the database grants row locks
in the order they are asked for, and that deadlocks are found is weakly fair. In
both, it is not assumed that new requests come.

Symmetry is used where the values are only compared, and never in a run with a
liveness property. Types are checked by `TypeOK` in `lifecycle` and proved there
and for every other module with proofs (`TypeCorrect` of `VoyageLifecycleProofs`
and of `AccountTokenProofs`, `SharedPoolTypes`, `VoyageImportTypes`,
`ReproductionTypes`, `NotUnderwayTypes`, `AdoptionTypes`; those of `AnnualRuns` and
`Administrators` are a part of the invariant there).

Every property has a mutant in `PROJECT.json`: a plausible slip in one mapped
definition (the mutated forms stand beside the originals in the modules, marked
`Mutant:`) for which TLC finds that property violated.

### Disagreements between code and documentation

Three runs check a statement of the documentation and find a behaviour of the
code that contradicts it.

| Run | Statement | What the code does |
|---|---|---|
| `stale_annual_run` | `src/PRD.md:1098`: after a change of voyage inputs stored annual runs are marked | a change that commits between a run's SELECTs and its INSERT marks nothing, and the run is stored unmarked from old inputs |
| `crossed_adoptions` | `src/DB_SCHEMA.md:348`: one adopted scenario per voyage is a service invariant | two adoptions that read their rows before either locks can leave two |
| `crossed_patches` | `services/not_underway.py:24`: periods do not overlap, concurrent requests included | two PATCHes of one period, one of its start and one of its end, combine into an interval nobody checked |

In each case the passing run of the same module shows what remains true:
`UndisturbedRunIsCurrent`, and `AtMostOneAdopted` and `NoOverlap` with one request at
a time. The theorems say how much overlap the last two bear, and how far the damage
goes (section 4).

More were met and have no run of their own; a property of a passing run
states the exception, or the model has the behaviour.

- `src/API_SPEC.md:67` says that the last administrator cannot leave, judged under
  a lock. Whether to judge at all is decided by the role read before the lock
  (`api/routes/auth.py:980`), so an account promoted in between may leave:
  `AdminRemainsUnlessPromoted`.
- The docstring of `_partition_errors` (`services/parameter_import.py:525`) says that
  the active rows after an import are those of its file. Of two overlapping imports
  that divide a ship type differently the trigger refuses only equal bands, and both
  files stay active: `ActiveRowsAreWholeFiles` excludes only imports one of which
  saw the other. The seed that every deployment runs (`db/seed.py:441`) can overlap
  an import in the same way.
- A login whose password was checked before a reset stores its session after it
  (`stale` in `SessionsFollowPassword`), and a change of password that had read the
  account before its withdrawal still writes it (`WithdrawnUntouched`).
- `services/voyage.py:1069` compares actual times with the regulation year, because
  otherwise the totals of another year change unnoticed. Filling a time from a
  public record (`services/public_record_fill.py:188`) checks only the order of the
  times: `ActualYearSpanned` holds, and is proved, without such records, and TLC
  finds a counterexample as soon as `RecordTimes` is not empty.
- The comment at `services/llm_guard.py:316` calls a figure of an earlier answer that
  is used again a quotation and no creation, and `_rounded_forms` (234) is to admit
  only the same value in another notation. Each figure of an earlier answer is
  rounded again (321), and rounding is not transitive: a tool gives 44.449, and
  44.45, 44.5 and 45 pass one after the other, while 44.449 rounds to 44.
  `AnswersAreGrounded` therefore allows 5/9 of the last place; with the half that a
  single rounding needs, TLC finds it violated after two turns.
- The comment at `services/annual_simulation.py:2364` expects a revised factor of the
  chosen alternative fuel to differ in the hash of the parameters, and so to end in
  409. The block holds the fuels of the planned voyages only, and the lever is not
  compared, so unless the chosen fuel is also a planned one the reproduction is
  answered with a lever computed from the new factor (`Block`, `Compared`).
- The docstring of `_parameters_used_v3` (`services/annual_simulation.py:1362`) lets a
  year that is loaded later show as 409; `_load_stored_future_regulation_years`
  (1404) sees to it that it does not, which is what `RevisedMeansRevised` states.
- "The heavier side wins" (`services/annual_simulation.py:2334`) holds between the two
  hashes. A row of the regulation that is not there answers 409 before any hash is
  compared: `BrokenMeansTampered` names that answer.

## 4. What is proved

### Voyages

`VoyageLifecycleProofs` holds for
every set of voyages, years, instants, plans, distances, fuels, tonnages and
runs, from three assumptions of `VoyageLifecycle`: instants are natural numbers
with a year each and recorded departures and arrivals are instants (`TimesAssumption`), the
sentinels `NULL`, `KEEP` and `NoRow` are none of the values
(`SentinelAssumption`), and `NULL` is not a row (`RowAssumption`).

*Invariants of a voyage.* `IInv` is `TypeOK`, `RowInv` of every stored row and
`CalculationKeepsRow`. The parts need one another: a transition keeps the policy
of a row and relies on its year being there; whether a year may be edited
depends on the status; and `ConfirmedComplete` on the way out of CONFIRMED
relies on itself. For each operation a lemma says that the row it writes is good
if the row it read was (`DraftRowGood`, `PatchedGood`, `TransitionedGood`,
`WithActualsGood`, `RevertedGood`, `AdoptedGood`); `Preserved` lifts that to the
state, with the marks. From it: `TypeCorrect`, `StatusPolicyYearHolds`,
`TimesOrderedHolds`, `PlanYearSpannedHolds`, `ConfirmedCompleteHolds`,
`CalculationKeepsRowHolds`.

*Steps.* `EditEffect` (an edit touches one row and marks every annual run or
changes nothing) and `EditRowStep` (what an edit may do to a row) give
`ConfirmedActualsFrozenHolds`, `PlanFrozenAfterDepartureHolds`,
`PlanChangeMarksCalculationHolds` and `ChangeMarksAnnualRunsHolds`.

*Refinement.* `StagesImplemented`: every edit moves one voyage along an edge of
`VoyageStages` or leaves its stage (`EditStage`), and such a move is a step of
the abstract specification (`MoveIsStep`).

*The year.* `ActualYearSpannedHolds`, under the extra assumption
`RecordTimes = {}`: as long as no departure or arrival is taken from a public
record (berth records may be), a voyage stays in a year its actual times touch.
`YInv` adds that a voyage still planned has no actual departure. The assumption
cannot be dropped: with one record in another year TLC finds the voyage outside its
year.

*The views of a year.* `ProgressIsPlannedHolds`, `PairsAreUnsubstitutedHolds`,
`ConfirmedIsMeasuredHolds`, `CompletionKeepsVoyageCountedHolds` and
`SnapshotChangeMarksRunsHolds` add one part to `IInv`: `FuelInv`, that a stored voyage
lists a fuel. `ConfirmedComplete` says that no listed fuel lacks a tonnage, which is
no measured value where no fuel is listed at all. A voyage gets its fuels when it is
created, and `ViewStep` says of each operation that it takes none away and that only
a transition ends a voyage under way.

*Annual runs.* `UndisturbedRunIsCurrentHolds` is about `SpecAR`, with a `vessel` whose
PATCHes may compare with an old row, and needs one assumption more, that `NULL` is no
view of a voyage (`ViewAssumption`). That the property holds of stored runs cannot be
shown from stored runs: `RunInv` says of a run at each step of its SELECTs what it
holds (`ReadSoFar`: nothing, the actuals without fuel, all without fuel, its input),
as long as it is not overtaken. A step of another request keeps that or is remembered
(`OvertakingKeeps`); once the run is stored, it keeps it or marks the run, a voyage by
`EditEffect`, the vessel because a PATCH whose type and size equal those of the row it
compared with writes neither (`UpdateVesselKeeps`). Every step there is one of
`VoyageLifecycle` or leaves the voyages alone, hence `BesideRunsHolds`. The promises of
the rows, the agreement of the screens and the life of a voyage, too, hold beside
runs, late PATCHes of the vessel and the marking tool: `RowsBesideRunsHold`,
`ScreensBesideRunsHold` and `StagesBesideRunsImplemented`. `ToolFindsOnlyUnreachedHolds` says what the marking tool
is for: it finds a run overtaken while it read, or one made with other rates, and
never one that an edit of a voyage or of the vessel's type and size should have
marked.

`CalculationKeepsRow`, that the row a stored calculation refers to is never
deleted, is proved and has no place in a run: it is one of the parts of `IInv`.

### The shared pool

`SharedPoolProofs` holds for every number of requests and
connections, every set of figures, names, places and files, from the assumptions
of `Connections`, `Conversations`, `PortLookups`, `VesselPositions` and
`ParameterImports`: finitely many requests, natural bounds, sentinels that are no
values, files of finitely many bands of which the seed is one,
figures that are natural numbers, and places of which each is worth a multiple of ten
times the next (`FiguresAssumption`). A step belongs to one
service, and lemmas
(`StepBegins`, `StepContinues`, `StepEnds`, `StepElsewhere`) say once that it
leaves the requests of the others alone (`Kept`). `IInv` is `TypeOK` and four parts:

- `Grounding`. What a turn takes from the history is near what was returned by a tool
  whose row stays while the turn lasts. The reason is `OpenTurn`: the rows of a turn
  that can still be rolled back are questions, and questions carry no results, so a
  rollback removes nothing another turn relies on. That rounding keeps a figure near
  its origin, however often it is repeated, is `NearRounded`: a finer place changes
  nothing, and a coarser one moves by half of itself at most, beside which the 5/9 of
  what was shown before are 1/18 or less.
- `PortsInv`. All answers given for a name are its stored row, and what a look-up
  is about to store is a place.
- `PositionsInv`. What is shown is on the track, and its time is the greatest of the
  last entry's and those delivered since; that a nonempty set of numbers below a
  bound has a greatest element is `MaxIsGreatest`, from `LeastNatural`.
- `ImportsInv`. Imports are numbered, an import has inserted rows of its own file,
  nobody has seen its rows before it commits, and if it replaces a row of another
  import it replaces all that are still active (`OpenImport`).

From it `SharedPoolTypes`, `AnswersAreGroundedHolds`, `LookupsAgreeHolds`,
`ShownPositionHolds`, `ActiveRowsAreWholeFilesHolds`.

`RequestsShorten` is the part of `RequestsEnd` that a prover can show. `StepsLeft` bounds
the steps a request can still take: a turn its tools and three, a look-up three, an
import its bands and two. Every step of the request lowers it, and steps of others
leave it, so that a request can only fail to end by not going on, which is what the
fairness excludes.

### Lists and imports

`VoyageImportProofs` holds for all ids, numbers, departures, page sizes, imports,
fuels, files and row limits, from `ListAssumption`, `RowAssumption` and
`FileAssumption`.

- `ListedOnceHolds`. The condition of the cursor is the order of the list
  (`AfterIsOrder`), which is total and transitive; a page is closed towards the front
  (`PageIsFront`). Hence `Faithful`: what lies behind the cursor and was there from the
  first page on has been delivered, and what was delivered lies behind.
- `ImportsKeepNumbersHolds`. `LockInv`: an import between look-up and INSERT holds the
  vessel's row and its number is not taken.
- `NumbersComeWholeHolds`. `Sound`: the rows that wait are those of the numbers still
  left, these are accepted numbers, and an accepted number lies within the limit
  with all of its rows.
- `DryRunForetellsHolds`. `Foretold`: while nothing intervenes, the rows foretold are
  those stored and those of the numbers to come that are not taken.

### Reproductions

`ReproductionProofs` holds for all runs, particulars, fuels, years, rows, values
and environments, from `ReproductionAssumption`: a row has a value, `NULL` is none of
the rows, values and fuels, and the kinds of parameters are disjoint. `Inv` is
`TypeOK`, the two properties and three parts.

- `ReadingsKept`. A run holds the rows it read and no others (`HasReadOf`), and a row
  that was not revised since is still the active one.
- `StoredFits`. Block, hash and outcome of a stored run are those of one reading and of
  the snapshot it was stored with; only the snapshot can differ, and it does exactly
  if it was altered.
- `CheckFits`. What a reproduction has read is active unless revised since, and
  once both hashes have matched, nothing the block names stands at another value.

`BlockNames` says what a block tells apart: two readings give the same block only if
they agree in value on everything the run used. With it a match of the hashes rules
out a passed-over revision (`CheckTablesKeeps`) and an outcome that differs in an
unchanged environment (`CheckOutcomeKeeps`). From `InvInductive`: `ReproductionTypes`,
`BrokenMeansTamperedHolds`, `RevisedMeansRevisedHolds`.

### Not-underway periods

`NotUnderwayProofs` holds for all periods, requests, instants, files and runs, from
the assumptions of `NotUnderway` (natural instants with a year, sentinels that are no
values, `NULL` no row, files of readable rows).

- `ChangeMarksAnnualRunsHolds` needs the types only, and holds however requests cross.
- `NoOverlapHolds` and `YearTouchedHolds` read `Spec /\ []NoCrossing => []...`. The run
  `crossed_patches` shows that without a condition they are false: two PATCHes of one
  period can each write one time. `NoCrossing` is what that run violates and nothing
  more: no two PATCHes *of one period* have read and not yet written. PATCHes of
  different periods, creations, deletions and imports cross freely, so the lock on
  the vessel is what the proof rests on there. `CopyCurrent`, the strengthening, is
  that the copy a PATCH merges into still is the row: only PATCHes change the columns
  of a period, and the check under the lock is made with the copy.

The condition is met by many behaviours, among them all with one PATCH at a time,
which is how the run `not_underway` checks the same properties.

- `ApartAmongHolds` says how far the damage of crossed PATCHes goes. `NoCrossing(P)` asks
  the condition of the periods of a set `P` only; they then stay apart from one another
  and dated, whatever becomes of the others. The two theorems above are the case of all
  periods.

### Adoption of scenarios

`ScenarioAdoptionProofs` holds for all voyages, scenarios and requests, from
`NullIsNoVoyage` and `RowAssumption`. The three properties bear different amounts of
overlap.

- `AdoptedWhereComparedHolds`: any. The voyage of a comparison never changes. A scenario
  that has one is attached to it or to none, and it is not erased meanwhile
  (`AttachedWhereCompared`); a request that read it as attached finds it so, and may
  leave `voyage_id` out of its UPDATE (`CopyAttached`).
- `AtMostOneAdoptedHolds`: requests *for one scenario* do not overlap (`NoCrossing`);
  requests for different scenarios may, those into one voyage included. `CopyVoyage`:
  what a copy says of the voyage is then what the row says, so an UPDATE that leaves
  the voyage out leaves the right one. Without the condition `crossed_adoptions` is a
  counterexample.
- `AtMostOneAmongHolds` is the same for any set of scenarios: those whose requests do not
  cross keep to one adoption per voyage among themselves, however requests for the
  others cross. An UPDATE that leaves the voyage out harms the row of its own scenario.
- `AdoptionTakesEffectHolds`: one request at a time (`OneAtATime`). Overlap of requests
  for two scenarios of one voyage already breaks it: the second clears the adoption
  the first has read as set, and the UPDATE of the first does not name it again.

`AdoptionKeepsStages`: what adoptions and comparisons do to voyages is what
`VoyageStages` allows.

### Accounts

`AccountTokenProofs` holds for all accounts, requests, links and sessions, from
`BoundsAssumption` and `RowAssumption`. It starts from the locks, which
`AccountTokens` derives from the steps: `AccountLocks` and `TokenLocks` say that what
one request holds no other holds or shares (`RowLocksHold`). On them rest

- `SupersedesAll`: a request about to issue a link has marked all earlier ones of its
  kind. No link of the kind can be issued in between, since that takes the same
  account. Hence `OnlyNewestLinkHolds`.
- `LinkHeld`: a link that is being opened is unused, and when its effect is written the
  account is there. Hence `LinkWorksOnceHolds`.
- `ReadCurrent`: what a request read of the account holds until it is told otherwise
  (`stale`). Hence `SessionsFollowPasswordHolds` and `WithdrawnUntouchedHolds`; the two
  exceptions the properties name are the only ones.

Why requests end, as far as it is not a matter of fairness:

- `CirclesAreOfTwoHolds`. The database ends one of two requests that wait for each other
  (`DeadlockVictim`); a circle of three would have to be found by other means. There is
  none without such a pair in it: following who waits for whom one comes upon a request
  that holds its account and waits for a link of it, whose opener waits for that very
  account (`LockedCircle`), or upon two openers that share an account each of them is
  about to write (`SharedCircle`).
- `SomebodyGoesOnHolds`. Taken for all requests that have not ended: one of them waits for
  nobody, or two are in each other's way.
- `RequestsShorten`. A request takes three steps at most, and nothing sends it back.

`AdministratorProofs` holds for all finite sets of accounts (`UsersAssumption`,
`RowAssumption`) and any number of overlapping requests.
`AdminRemainsUnlessPromotedHolds` needs `ReadHolds`: an account that was read as no
administrator is none, unless the request has been told of a promotion. A request that
counted nobody then takes no administrator away, and one that counted more than one
leaves another (`AnotherAdmin`).

### Model-checked only

Every safety invariant and every action property of a passing run has a theorem. What
stays with TLC is `RequestsEnd` in `AccountTokens` and in `SharedPool`: liveness under
fairness, out of the prover's reach, as ENABLED is. Proved of it is that requests do
not run in circles, and of `AccountTokens` that they do not all wait for ever; that a
request that may go on again and again does is the fairness itself. No module
declares a RECURSIVE operator. The three runs that expect a violation show states, and a proof could not
replace them.

## 5. Assumptions about the database

- READ COMMITTED: a SELECT sees what was committed when it ran. A `SELECT ...
  FOR UPDATE` of row ids followed by a plain SELECT, the form of `get_by_id`,
  reads the latest committed row. Where the code locks and reads in one statement
  (`_lock_admin_users`) it is assumed to return the latest rows too; the docstring
  of `get_by_id` says that this form was not measured.
- A unique index or a foreign key refuses the second of two writes that clash.
- The database is CUBRID; a lock is waited for without a time limit by default, and
  of transactions that wait for one another one is ended and rolled back.
- Writing a child row takes a shared lock on its parent row, also when the
  reference stays the same (`tests/test_voyage_row_lock_db.py`,
  `tests/test_db_isolation_premise_db.py`).
- An UPDATE from the unit of work names the columns that changed in the session.

## 6. Not modelled, and why

| Part | Reason |
|---|---|
| Calculation engines, Monte Carlo draw, sensitivity, series and history, scenario comparison, fleet plans | decimals and floats over real inputs; numeric fixtures test them, and TLC could only repeat toy numbers |
| Division of a scenario's fuel over fuel rows | division and rounding of decimals (`services/scenario_adopt.py:335`); which rows and marks change is modelled |
| Weather | a fetch and its fallback by age change one cache row, and no rule reads the age back |
| Login backoff, rate limits, sign-up and tour gates | counters of one process, of which a full table may evict a delay that still matters (`auth/backoff.py:109`), or checks of the configuration; they delay or refuse and change nothing else |
| Reading a cell of a CSV file | whether its row is readable; the formats are a matter of number syntax |
| Registration and deletion of vessels, avatars, favourites, the guided tour | writes of a single row |
| Collection and reconciliation of public port calls | outside data; only the instants that reach a voyage are modelled (`RecordTimes`) |
| Fleet summary, notifications, reports, exports | read-only, formatting other results |
| Audit log, mail | append-only, read back by no rule modelled here |
| Migrations, seed, demo data, maintenance scripts | one-off, except the marking tool, which is in `AnnualRuns` |
| Web front end | presentation; the server depends on nothing it keeps |

Worth doing next: the vessel, voyage and shared foreign-key locks as variables of
their own, to show that the order vessel before voyage has no circle (the models
rely on it where an operation is one action); a refinement between the adoption of a
scenario and `AdoptPlan` of `VoyageLifecycle`, which today share `VoyageStages` only; the
seed as a process beside the imports.
