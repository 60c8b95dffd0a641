-------------------------- MODULE ReproductionProofs --------------------------
(***************************************************************************)
(* Proofs about Reproductions: what an annual run that is computed again   *)
(* is blamed for.                                                          *)
(***************************************************************************)
EXTENDS Reproductions, TLAPS

-----------------------------------------------------------------------------
(* The inductive invariant.                                                *)

\* The parameters that run r has read so far.
HasReadOf(r) ==
    CASE run[r].step = "voyages" -> {Year, run[r].vessel}
      [] run[r].step = "tables" -> {Year, run[r].snapshot.vessel} \cup PlanFuels(run[r].snapshot)
      [] run[r].step = "store" ->
             {Year, Profile, run[r].snapshot.vessel} \cup PlanFuels(run[r].snapshot) \cup Later
      [] run[r].step = "stored" ->
             {Year, Profile, run[r].input.snapshot.vessel}
             \cup PlanFuels(run[r].input.snapshot) \cup Later
      [] OTHER -> {}

\* A run holds the rows it read and no others, and a row that was not revised
\* since is still the active one.
ReadingsKept ==
    \A r \in Runs :
        run[r] # NoRun =>
            /\ \A p \in Params \ HasReadOf(r) : run[r].read[p] = NULL
            /\ \A p \in HasReadOf(r) \ since[r] : law[p] = run[r].read[p]
            /\ \A p \in HasReadOf(r) \ Later : run[r].read[p] # NULL

\* What is compared of an outcome, by what it is computed from.
Comparable(schema, snapshot, read, environment) ==
    <<<<Val(read[Profile]), Numerics[environment]>>,
      [snapshot |-> snapshot, year |-> Val(read[Year]), line |-> Val(read[snapshot.vessel])],
      [y \in Later |-> IF schema >= 3 THEN Val(read[y]) ELSE NULL]>>

\* A stored run fits together; only its snapshot can have been altered.
Fits(r) ==
    LET made == run[r]
    IN  /\ made.input.alternative = made.alternative
        /\ r \notin tampered <=> made.snapshot = made.input.snapshot
        /\ made.block = Block(made.block.schema, made.input.snapshot.vessel, made.read)
        /\ Compared(made.outcome) =
               Comparable(made.block.schema, made.input.snapshot, made.read, made.model)
        /\ made.alternative \notin {NULL} \cup since[r] => law[made.alternative] # NULL

StoredFits ==
    \A r \in Runs : /\ r \in tampered => Stored(r)
                    /\ Stored(r) => Fits(r)

\* What a reproduction knows of an untouched run at every step.
CheckFits ==
    check.step # "idle" =>
        LET r == check.run
        IN  /\ Stored(r)
            /\ check.tampered => r \in tampered
            /\ check.step \in {"law", "tables"} /\ r \notin tampered =>
                   check.vessel = run[r].input.snapshot.vessel
            /\ check.step \in {"law", "tables"} =>
                   \A p \in check.overturned :
                       p \in Used(r) /\ Val(law[p]) # Val(run[r].read[p])
            /\ check.step = "law" => check.read = NothingRead
            /\ check.step = "tables" =>
                   \A p \in Params :
                       IF p \in {Year, check.vessel}
                         THEN /\ p \notin since[r] => check.read[p] = law[p]
                              /\ p \in check.overturned => check.read[p] = law[p]
                         ELSE check.read[p] = NULL
            /\ check.step = "outcome" =>
                   /\ ~ check.tampered
                   /\ r \notin tampered => check.overturned = {}
                   /\ Block(run[r].block.schema, run[r].input.snapshot.vessel, check.read)
                          = run[r].block

Inv == TypeOK /\ ReadingsKept /\ StoredFits /\ CheckFits
       /\ BrokenMeansTampered /\ RevisedMeansRevised

-----------------------------------------------------------------------------
(* Types.                                                                  *)

LEMMA ValType ==
    ASSUME NEW row \in Rows \cup {NULL}
    PROVE  Val(row) \in Values \cup {NULL} /\ (row # NULL => Val(row) # NULL)
  BY ReproductionAssumption DEF Val

LEMMA ReadAlsoType ==
    ASSUME law \in Readings, NEW read \in Readings, NEW group
    PROVE  /\ ReadAlso(read, group) \in Readings
           /\ \A p \in Params :
                  ReadAlso(read, group)[p] = IF p \in group THEN law[p] ELSE read[p]
  BY DEF ReadAlso, Readings

LEMMA BlockType ==
    ASSUME NEW schema \in Schemas, NEW vessel, NEW read \in Readings
    PROVE  Block(schema, vessel, read) \in Blocks
  <1>1. \A p \in Params : Val(read[p]) \in Values \cup {NULL}
    BY ValType DEF Readings
  <1>2. \A p \in Params : read[p] \in Rows \cup {NULL}
    BY DEF Readings
  <1> QED  BY <1>1, <1>2 DEF Block, Blocks, Readings

LEMMA FoundParams ==
    /\ {Year, Profile} \cup Vessels \cup Later \cup Fuels = Params
    /\ NULL \notin Fuels
  BY ReproductionAssumption DEF Params

\* The record a run is, by its step.
LEMMA RunShape ==
    ASSUME TypeOK, NEW r \in Runs
    PROVE  /\ run[r].step = "voyages" =>
                  run[r] \in [step : {"voyages"}, alternative : Choices,
                              vessel : Vessels, read : Readings]
           /\ run[r].step \in {"tables", "store"} =>
                  run[r] \in [step : {"tables", "store"}, alternative : Choices,
                              snapshot : Snapshots, read : Readings]
           /\ run[r].step = "stored" =>
                  run[r] \in [step : {"stored"}, lacks : Lacks, alternative : Choices,
                              snapshot : Snapshots, read : Readings,
                              input : [snapshot : Snapshots, alternative : Choices],
                              block : Blocks, outcome : {run[r].outcome},
                              model : Environments]
           /\ run[r].step \notin {"voyages", "tables", "store", "stored"} => run[r] = NoRun
           /\ NoRun.step = "none"
           /\ DOMAIN run = Runs
  <1>1. RunType(run[r])  BY DEF TypeOK
  <1> QED  BY <1>1 DEF TypeOK, RunType, NoRun

\* A request for a run leaves the stored runs alone.
LEMMA RunStepKeepsStored ==
    ASSUME TypeOK, NEW r \in Runs, RunStep(r)
    PROVE  /\ UNCHANGED <<law, live, deployed, check, tampered>>
           /\ ~ Stored(r)
           /\ \A q \in Runs \ {r} : run'[q] = run[q] /\ since'[q] = since[q]
           /\ DOMAIN run' = Runs /\ run' = [q \in Runs |-> run'[q]]
           /\ since' \in [Runs -> SUBSET Params]
  <1>1. DOMAIN run = Runs /\ since \in [Runs -> SUBSET Params] /\ NoRun.step = "none"
    BY RunShape DEF TypeOK
  <1>2. CASE \E alternative \in Fuels \cup {NULL} : StartRun(r, alternative)
    BY <1>1, <1>2 DEF StartRun, HasRead, ByRun, Stored
  <1>3. CASE CopyVoyages(r)
    BY <1>1, <1>3 DEF CopyVoyages, HasRead, ByRun, Stored
  <1>4. CASE ReadTables(r)
    BY <1>1, <1>4 DEF ReadTables, HasRead, ByRun, Stored
  <1>5. CASE \E lacks \in Lacks : Store(r, lacks)
    BY <1>1, <1>5 DEF Store, ByRun, Stored
  <1>6. CASE RefuseRun(r)
    BY <1>1, <1>6 DEF RefuseRun, ByRun, Stored
  <1> QED  BY <1>2, <1>3, <1>4, <1>5, <1>6 DEF RunStep

\* What a step makes of the run it is for is of the type of its step.
LEMMA RunStepType ==
    ASSUME TypeOK, NEW r \in Runs, RunStep(r)
    PROVE  RunType(run[r])'
  <1>1. /\ DOMAIN run = Runs /\ law \in Readings /\ live.vessel \in Vessels
        /\ live.settled \in Factors /\ deployed.environment \in Environments
        /\ deployed.schema \in Schemas
    BY RunShape DEF TypeOK
  <1>2. NothingRead \in Readings  BY DEF NothingRead, Readings
  <1>3. ASSUME NEW alternative \in Fuels \cup {NULL}, StartRun(r, alternative)
        PROVE  RunType(run[r])'
    <2>1. ReadAlso(NothingRead, {Year, live.vessel}) \in Readings
      BY <1>1, <1>2, ReadAlsoType
    <2> QED  BY <1>1, <1>3, <2>1 DEF StartRun, RunType, Choices
  <1>4. CASE CopyVoyages(r)
    <2>1. run[r] \in [step : {"voyages"}, alternative : Choices, vessel : Vessels,
                      read : Readings]
      BY <1>4, RunShape DEF CopyVoyages
    <2>2. ReadAlso(run[r].read, live.plan) \in Readings
      BY <1>1, <2>1, ReadAlsoType
    <2>3. \A f \in Fuels : Val(law[f]) \in Values \cup {NULL}
      BY <1>1, ValType, FoundParams DEF Readings
    <2> DEFINE plan == [f \in Fuels |-> IF f \in live.plan THEN Val(law[f]) ELSE NULL]
    <2>4. plan \in Factors  BY <2>3 DEF Factors
    <2>5. [vessel |-> run[r].vessel, settled |-> live.settled, plan |-> plan] \in Snapshots
      BY <1>1, <2>1, <2>4 DEF Snapshots
    <2>6. run'[r] = [step |-> "tables", alternative |-> run[r].alternative,
                     snapshot |-> [vessel |-> run[r].vessel, settled |-> live.settled,
                                   plan |-> plan],
                     read |-> ReadAlso(run[r].read, live.plan)]
      BY <1>1, <1>4 DEF CopyVoyages
    <2> HIDE DEF plan
    <2>7. run'[r] \in [step : {"tables", "store"}, alternative : Choices,
                       snapshot : Snapshots, read : Readings]
      BY <2>1, <2>2, <2>5, <2>6
    <2> QED  BY <2>7 DEF RunType
  <1>5. CASE ReadTables(r)
    <2>1. run[r] \in [step : {"tables", "store"}, alternative : Choices,
                      snapshot : Snapshots, read : Readings]
      BY <1>5, RunShape DEF ReadTables
    <2>2. ReadAlso(run[r].read, {Profile} \cup Later) \in Readings
      BY <1>1, <2>1, ReadAlsoType
    <2>3. run'[r] = [[run[r] EXCEPT !.step = "store"] EXCEPT
                        !.read = ReadAlso(@, {Profile} \cup Later)]
      BY <1>1, <1>5 DEF ReadTables
    <2>4. run'[r] \in [step : {"tables", "store"}, alternative : Choices,
                       snapshot : Snapshots, read : Readings]
      BY <2>1, <2>2, <2>3
    <2> QED  BY <2>4 DEF RunType
  <1>6. ASSUME NEW lacks \in Lacks, Store(r, lacks)
        PROVE  RunType(run[r])'
    <2>1. run[r] \in [step : {"tables", "store"}, alternative : Choices,
                      snapshot : Snapshots, read : Readings]
      BY <1>6, RunShape DEF Store
    <2>2. Block(deployed.schema, run[r].snapshot.vessel, run[r].read) \in Blocks
      BY <1>1, <2>1, BlockType
    <2>3. Material(run[r].snapshot, run[r].alternative)
              \in [snapshot : Snapshots, alternative : Choices]
      BY <2>1 DEF Material
    <2>4. run'[r] =
              [step |-> "stored", lacks |-> lacks, alternative |-> run[r].alternative,
               snapshot |-> run[r].snapshot, read |-> run[r].read,
               input |-> Material(run[r].snapshot, run[r].alternative),
               block |-> Block(deployed.schema, run[r].snapshot.vessel, run[r].read),
               outcome |-> Outcome(deployed.schema, run[r].snapshot, run[r].read,
                                   run[r].alternative, deployed.environment),
               model |-> deployed.environment]
      BY <1>1, <1>6 DEF Store
    <2> QED  BY <1>1, <1>6, <2>1, <2>2, <2>3, <2>4 DEF RunType
  <1>7. CASE RefuseRun(r)
    BY <1>1, <1>7 DEF RefuseRun, RunType
  <1> QED  BY <1>3, <1>4, <1>5, <1>6, <1>7 DEF RunStep

LEMMA RunStepTypes ==
    ASSUME TypeOK, NEW r \in Runs, RunStep(r)
    PROVE  TypeOK'
  <1>1. \A q \in Runs : RunType(run[q])'
    BY RunStepType, RunStepKeepsStored DEF TypeOK, RunType
  <1>2. UNCHANGED <<law, live, deployed, check, tampered>>
    BY RunStepKeepsStored
  <1>3. /\ run' \in [Runs -> {run'[q] : q \in Runs}]
        /\ since' \in [Runs -> SUBSET Params]
    BY RunStepKeepsStored
  <1> QED  BY <1>1, <1>2, <1>3 DEF TypeOK, CheckType

\* The rows a run has read are those it holds.
LEMMA RunStepReadings ==
    ASSUME TypeOK, ReadingsKept, NEW r \in Runs, RunStep(r)
    PROVE  ReadingsKept'
  <1>1. /\ DOMAIN run = Runs /\ law \in Readings /\ live.vessel \in Vessels
        /\ live.plan \subseteq Fuels /\ since \in [Runs -> SUBSET Params]
    BY RunShape DEF TypeOK
  <1>2. NothingRead \in Readings /\ \A p \in Params : NothingRead[p] = NULL
    BY DEF NothingRead, Readings
  <1> DEFINE Kept(q) ==
        run[q] # NoRun =>
            /\ \A p \in Params \ HasReadOf(q) : run[q].read[p] = NULL
            /\ \A p \in HasReadOf(q) \ since[q] : law[p] = run[q].read[p]
            /\ \A p \in HasReadOf(q) \ Later : run[q].read[p] # NULL
  <1>3. law' = law  BY RunStepKeepsStored
  <1>4. ASSUME NEW q \in Runs \ {r}
        PROVE  Kept(q)'
    BY <1>3, <1>4, RunStepKeepsStored DEF ReadingsKept, HasReadOf
  <1>5. ASSUME NEW alternative \in Fuels \cup {NULL}, StartRun(r, alternative)
        PROVE  Kept(r)'
    <2>1. run'[r] = [step |-> "voyages", alternative |-> alternative, vessel |-> live.vessel,
                     read |-> ReadAlso(NothingRead, {Year, live.vessel})]
      BY <1>1, <1>5 DEF StartRun
    <2>2. HasReadOf(r)' = {Year, live.vessel}
      BY <2>1 DEF HasReadOf
    <2>3. \A p \in Params : ReadAlso(NothingRead, {Year, live.vessel})[p] =
              IF p \in {Year, live.vessel} THEN law[p] ELSE NothingRead[p]
      BY <1>1, <1>2, ReadAlsoType
    <2>4. {Year, live.vessel} \subseteq Params /\ \A p \in {Year, live.vessel} : law[p] # NULL
      BY <1>1, <1>5, FoundParams DEF StartRun
    <2> QED  BY <1>2, <1>3, <2>1, <2>2, <2>3, <2>4
  <1>6. ASSUME CopyVoyages(r)
        PROVE  Kept(r)'
    <2>1. run[r] \in [step : {"voyages"}, alternative : Choices, vessel : Vessels,
                      read : Readings]
      BY <1>6, RunShape DEF CopyVoyages
    <2> DEFINE plan == [f \in Fuels |-> IF f \in live.plan THEN Val(law[f]) ELSE NULL]
    <2>2. run'[r] = [step |-> "tables", alternative |-> run[r].alternative,
                     snapshot |-> [vessel |-> run[r].vessel, settled |-> live.settled,
                                   plan |-> plan],
                     read |-> ReadAlso(run[r].read, live.plan)]
      BY <1>1, <1>6 DEF CopyVoyages
    <2>3. \A f \in live.plan : law[f] # NULL /\ Val(law[f]) # NULL
      BY <1>1, <1>6, ValType, FoundParams DEF CopyVoyages, Readings
    <2>4. {f \in Fuels : plan[f] # NULL} = live.plan
      BY <1>1, <2>3
    <2> HIDE DEF plan
    <2>5. HasReadOf(r)' = {Year, run[r].vessel} \cup live.plan
      BY <2>2, <2>4 DEF HasReadOf, PlanFuels
    <2>6. \A p \in Params : ReadAlso(run[r].read, live.plan)[p] =
              IF p \in live.plan THEN law[p] ELSE run[r].read[p]
      BY <1>1, <2>1, ReadAlsoType
    <2>7. HasReadOf(r) = {Year, run[r].vessel} /\ run[r] # NoRun
      BY <2>1 DEF HasReadOf, NoRun
    <2>8. since'[r] = since[r] \ Fuels
      BY <1>1, <1>6 DEF CopyVoyages, HasRead
    <2>9. {Year, run[r].vessel} \cap Fuels = {} /\ {Year, run[r].vessel} \subseteq Params
      BY <2>1, ReproductionAssumption DEF Params
    <2>10. Kept(r)
      BY DEF ReadingsKept
    <2>11. live.plan \subseteq Params
      BY <1>1, FoundParams
    <2>12. \A p \in Params \ HasReadOf(r)' : run'[r].read[p] = NULL
      BY <2>2, <2>5, <2>6, <2>7, <2>10
    <2>13. \A p \in HasReadOf(r)' \ since'[r] : law'[p] = run'[r].read[p]
      BY <1>1, <1>3, <2>2, <2>5, <2>6, <2>7, <2>8, <2>9, <2>10, <2>11
    <2>14. \A p \in HasReadOf(r)' \ Later : run'[r].read[p] # NULL
      BY <2>2, <2>3, <2>5, <2>6, <2>7, <2>9, <2>10, <2>11, ReproductionAssumption
    <2> QED  BY <2>12, <2>13, <2>14
  <1>7. ASSUME ReadTables(r)
        PROVE  Kept(r)'
    <2>1. run[r] \in [step : {"tables", "store"}, alternative : Choices,
                      snapshot : Snapshots, read : Readings]
          /\ run[r].step = "tables"
      BY <1>7, RunShape DEF ReadTables
    <2>2. run'[r] = [[run[r] EXCEPT !.step = "store"] EXCEPT
                        !.read = ReadAlso(@, {Profile} \cup Later)]
      BY <1>1, <1>7 DEF ReadTables
    <2>3. /\ run'[r].step = "store" /\ run'[r].snapshot = run[r].snapshot
          /\ run'[r].read = ReadAlso(run[r].read, {Profile} \cup Later)
      BY <2>1, <2>2
    <2>4. \A p \in Params : run'[r].read[p] =
              IF p \in {Profile} \cup Later THEN law[p] ELSE run[r].read[p]
      BY <1>1, <2>1, <2>3, ReadAlsoType
    <2> DEFINE before == {Year, run[r].snapshot.vessel} \cup PlanFuels(run[r].snapshot)
    <2>5. HasReadOf(r) = before /\ run[r] # NoRun
      BY <2>1 DEF HasReadOf, NoRun
    <2>6. HasReadOf(r)' = before \cup {Profile} \cup Later
      BY <2>3 DEF HasReadOf, PlanFuels
    <2>7. since'[r] = since[r] \ ({Profile} \cup Later) /\ law[Profile] # NULL
      BY <1>1, <1>7 DEF ReadTables, HasRead
    <2>8. before \subseteq Params /\ before \cap ({Profile} \cup Later) = {}
      BY <2>1, ReproductionAssumption DEF Params, PlanFuels, Snapshots
    <2>9. Kept(r)
      BY DEF ReadingsKept
    <2> HIDE DEF before
    <2>10. {Profile} \cup Later \subseteq Params
      BY FoundParams
    <2>11. \A p \in Params \ HasReadOf(r)' : run'[r].read[p] = NULL
      BY <2>4, <2>5, <2>6, <2>9
    <2>12. \A p \in HasReadOf(r)' \ since'[r] : law'[p] = run'[r].read[p]
      BY <1>3, <2>4, <2>5, <2>6, <2>7, <2>8, <2>9, <2>10
    <2>13. \A p \in HasReadOf(r)' \ Later : run'[r].read[p] # NULL
      BY <2>4, <2>5, <2>6, <2>7, <2>8, <2>9, <2>10
    <2> QED  BY <2>11, <2>12, <2>13
  <1>8. ASSUME NEW lacks \in Lacks, Store(r, lacks)
        PROVE  Kept(r)'
    <2>1. run[r].step = "store" /\ run[r] # NoRun
      BY <1>8 DEF Store, NoRun
    <2>2. /\ run'[r].step = "stored" /\ run'[r].read = run[r].read
          /\ run'[r].input.snapshot = run[r].snapshot
          /\ since' = since
      BY <1>1, <1>8 DEF Store, Material
    <2>3. HasReadOf(r)' = HasReadOf(r)
      BY <2>1, <2>2 DEF HasReadOf, PlanFuels
    <2>4. Kept(r)
      BY DEF ReadingsKept
    <2> QED  BY <1>3, <2>1, <2>2, <2>3, <2>4
  <1>9. ASSUME RefuseRun(r)
        PROVE  Kept(r)'
    BY <1>1, <1>9 DEF RefuseRun
  <1> HIDE DEF Kept
  <1>10. Kept(r)'
    BY <1>5, <1>6, <1>7, <1>8, <1>9 DEF RunStep
  <1>11. \A q \in Runs : Kept(q)'
    BY <1>4, <1>10
  <1> QED  BY <1>11 DEF ReadingsKept, Kept

-----------------------------------------------------------------------------
(* The steps of a reproduction and of the surroundings keep the types.     *)

LEMMA TablesParams ==
    ASSUME TypeOK, NEW r \in Runs, Stored(r)
    PROVE  /\ Tables(r) \subseteq Params
           /\ Used(r) \subseteq Params
           /\ Overturned(r) \subseteq Params
  <1>1. run[r] \in [step : {"stored"}, lacks : Lacks, alternative : Choices,
                    snapshot : Snapshots, read : Readings,
                    input : [snapshot : Snapshots, alternative : Choices],
                    block : Blocks, outcome : {run[r].outcome},
                    model : Environments]
    BY RunShape DEF Stored
  <1>2. run[r].input.snapshot.vessel \in Vessels
    BY <1>1 DEF Snapshots
  <1> QED  BY <1>1, <1>2, FoundParams DEF Tables, Used, Overturned, StoredYears, PlanFuels

\* The record the check is.
LEMMA CheckShape ==
    ASSUME TypeOK, check.step # "idle"
    PROVE  check \in [step : {"law", "tables", "outcome", "answered"}, run : Runs,
                      vessel : Vessels, read : Readings, tampered : BOOLEAN,
                      overturned : SUBSET Params, answer : Answers]
  BY DEF TypeOK, CheckType

LEMMA RequestTypes ==
    ASSUME TypeOK, CheckFits, (\E r \in Runs : Ask(r)) \/ CheckStep,
           UNCHANGED <<law, live, deployed, run, tampered, since>>
    PROVE  TypeOK'
  <1>1. ASSUME NEW r \in Runs, Ask(r)
        PROVE  CheckType'
    <2>1. run[r].snapshot.vessel \in Vessels
      BY <1>1, RunShape DEF Ask, Stored, Snapshots
    <2>2. NothingRead \in Readings
      BY DEF NothingRead, Readings
    <2>3. Overturned(r) \subseteq Params
      BY <1>1, TablesParams DEF Ask
    <2> QED  BY <1>1, <2>1, <2>2, <2>3 DEF Ask, CheckType, Answers
  <1>2. ASSUME NEW answer \in Answers, Answer(answer), check.step # "idle"
        PROVE  CheckType'
    BY <1>2, CheckShape DEF Answer, CheckType
  <1>3. ASSUME CheckLaw
        PROVE  CheckType'
    <2>1. ReadAlso(check.read, {Year, check.vessel}) \in Readings
      BY <1>3, CheckShape, ReadAlsoType DEF CheckLaw, TypeOK
    <2> QED  BY <1>2, <1>3, <2>1, CheckShape DEF CheckLaw, CheckType, Answers
  <1>4. ASSUME CheckTables
        PROVE  CheckType'
    <2>1. ReadAlso(check.read, Tables(check.run)) \in Readings
      BY <1>4, CheckShape, ReadAlsoType DEF CheckTables, TypeOK
    <2>2. \A read : Verdict(check.run, read) \in {"broken", "revised", "passed"}
      BY DEF Verdict
    <2> QED  BY <1>2, <1>4, <2>1, <2>2, CheckShape DEF CheckTables, CheckType, Answers
  <1>5. ASSUME CheckOutcome
        PROVE  CheckType'
    BY <1>2, <1>5 DEF CheckOutcome, Answers
  <1>6. CheckType'
    BY <1>1, <1>3, <1>4, <1>5 DEF CheckStep
  <1> QED  BY <1>6 DEF TypeOK, RunType

LEMMA SurroundingsTypes ==
    ASSUME TypeOK, Surroundings
    PROVE  TypeOK'
  <1> USE DEF TypeOK
  <1>1. ASSUME NEW p \in Params, NEW row \in Rows \cup {NULL}, Revise(p, row)
        PROVE  TypeOK'
    <2>1. law' \in Readings  BY <1>1 DEF Revise, Readings
    <2>2. since' \in [Runs -> SUBSET Params]  BY <1>1 DEF Revise
    <2>3. CheckType'  BY <1>1, CheckShape DEF Revise, CheckType
    <2> QED  BY <1>1, <2>1, <2>2, <2>3 DEF Revise, RunType
  <1>2. ASSUME NEW now \in [vessel : Vessels, plan : SUBSET Fuels, settled : Factors],
               EditLive(now)
        PROVE  TypeOK'
    BY <1>2 DEF EditLive, RunType, CheckType
  <1>3. ASSUME NEW software \in [environment : Environments, schema : Schemas],
               Deploy(software)
        PROVE  TypeOK'
    <2>1. run' \in [Runs -> {run'[r] : r \in Runs}] /\ \A r \in Runs : RunType(run[r])'
      BY <1>3 DEF Deploy, RunType
    <2>2. CheckType'
      BY <1>3 DEF Deploy, CheckType
    <2> QED  BY <1>3, <2>1, <2>2 DEF Deploy
  <1>4. ASSUME NEW r \in Runs, Tamper(r)
        PROVE  TypeOK'
    <2>1. PICK snapshot \in Altered(run[r].snapshot) :
              run' = [run EXCEPT ![r].snapshot = snapshot]
      BY <1>4 DEF Tamper
    <2>2. run[r] \in [step : {"stored"}, lacks : Lacks, alternative : Choices,
                      snapshot : Snapshots, read : Readings,
                      input : [snapshot : Snapshots, alternative : Choices],
                      block : Blocks, outcome : {run[r].outcome},
                      model : Environments]
      BY <1>4, RunShape DEF Tamper, Stored
    <2>3. snapshot \in Snapshots
      BY <2>1, <2>2 DEF Altered, Snapshots, Factors
    <2>4. run'[r] = [run[r] EXCEPT !.snapshot = snapshot]
      BY <2>1, RunShape
    <2>5. run'[r] \in [step : {"stored"}, lacks : Lacks, alternative : Choices,
                       snapshot : Snapshots, read : Readings,
                       input : [snapshot : Snapshots, alternative : Choices],
                       block : Blocks, outcome : {run[r].outcome},
                       model : Environments]
          /\ run'[r].outcome = run[r].outcome
      BY <2>2, <2>3, <2>4
    <2>6. RunType(run[r])'
      BY <2>5 DEF RunType
    <2>7. \A q \in Runs : RunType(run[q])'
      BY <2>1, <2>6 DEF RunType
    <2>8. run' \in [Runs -> {run'[q] : q \in Runs}]
      BY <2>1
    <2> QED  BY <1>4, <2>7, <2>8 DEF Tamper, CheckType
  <1> QED  BY <1>1, <1>2, <1>3, <1>4 DEF Surroundings, EditVessel, EditPlan, EditSettled, Factors

-----------------------------------------------------------------------------
(* The steps of runs and surroundings keep the invariant.                  *)

\* The record a stored run is.
LEMMA StoredShape ==
    ASSUME TypeOK, NEW r \in Runs, Stored(r)
    PROVE  /\ run[r] \in [step : {"stored"}, lacks : Lacks, alternative : Choices,
                          snapshot : Snapshots, read : Readings,
                          input : [snapshot : Snapshots, alternative : Choices],
                          block : Blocks, outcome : {run[r].outcome},
                          model : Environments]
           /\ run[r].input.snapshot.vessel \in Vessels
           /\ run[r].block.schema \in Schemas
  BY RunShape DEF Stored, Snapshots, Blocks

\* What is compared does not depend on the regulation of now.
LEMMA ComparedOutcome ==
    ASSUME NEW schema, NEW snapshot, NEW read, NEW alternative, NEW environment
    PROVE  Compared(Outcome(schema, snapshot, read, alternative, environment)) =
               Comparable(schema, snapshot, read, environment)
  BY DEF Compared, Outcome, Comparable

\* Only what is stored, the regulation and the alterations matter to a
\* reproduction and to what it answered.
LEMMA StoredMatters ==
    ASSUME Inv,
           UNCHANGED <<law, tampered>>,
           check' = check \/ check' = [step |-> "idle"],
           \A r \in Runs : Stored(r) => run'[r] = run[r] /\ since'[r] = since[r]
    PROVE  CheckFits' /\ BrokenMeansTampered' /\ RevisedMeansRevised'
  <1>1. CASE check' = [step |-> "idle"]
    BY <1>1 DEF CheckFits, BrokenMeansTampered, RevisedMeansRevised, Answered
  <1>2. CASE check' = check /\ check.step = "idle"
    BY <1>2 DEF CheckFits, BrokenMeansTampered, RevisedMeansRevised, Answered
  <1>3. CASE check' = check /\ check.step # "idle"
    <2> DEFINE r == check.run
    <2>1. r \in Runs /\ Stored(r)
      BY <1>3, CheckShape DEF Inv, CheckFits
    <2>2. run'[r] = run[r] /\ since'[r] = since[r] /\ check'.run = r
      BY <1>3, <2>1
    <2>3. Used(r)' = Used(r) /\ Stored(r)'
      BY <1>3, <2>1, <2>2 DEF Used, PlanFuels, Stored
    <2>4. CheckFits'
      BY <1>3, <2>1, <2>2, <2>3 DEF Inv, CheckFits, NothingRead, Val, Block
    <2>5. BrokenMeansTampered'
      BY <1>3 DEF Inv, BrokenMeansTampered, Answered
    <2>6. RevisedMeansRevised'
      BY <1>3, <2>2, <2>3 DEF Inv, RevisedMeansRevised, Answered
    <2> QED  BY <2>4, <2>5, <2>6
  <1> QED  BY <1>1, <1>2, <1>3

\* What a run stores fits together.
LEMMA StoreFits ==
    ASSUME Inv, NEW r \in Runs, NEW lacks \in Lacks, Store(r, lacks)
    PROVE  Fits(r)'
  <1> DEFINE made == run[r]
  <1>1. DOMAIN run = Runs /\ ~ Stored(r) /\ r \notin tampered
    BY RunShape DEF Inv, Store, Stored, StoredFits
  <1>2. run'[r] =
            [step |-> "stored", lacks |-> lacks, alternative |-> made.alternative,
             snapshot |-> made.snapshot, read |-> made.read,
             input |-> Material(made.snapshot, made.alternative),
             block |-> Block(deployed.schema, made.snapshot.vessel, made.read),
             outcome |-> Outcome(deployed.schema, made.snapshot, made.read,
                                 made.alternative, deployed.environment),
             model |-> deployed.environment]
    BY <1>1 DEF Store
  <1>3. /\ run'[r].input.snapshot = made.snapshot
        /\ run'[r].input.alternative = made.alternative
        /\ run'[r].block.schema = deployed.schema
        /\ run'[r].snapshot = made.snapshot /\ run'[r].alternative = made.alternative
        /\ run'[r].read = made.read /\ run'[r].model = deployed.environment
    BY <1>2 DEF Material, Block
  <1>4. run'[r].block = Block(deployed.schema, made.snapshot.vessel, made.read)
    BY <1>2
  <1>5. Compared(run'[r].outcome) =
            Comparable(deployed.schema, made.snapshot, made.read, deployed.environment)
    BY <1>2, ComparedOutcome
  <1>6. made.alternative # NULL => law[made.alternative] # NULL
    BY DEF Store
  <1>7. law' = law /\ tampered' = tampered /\ since' = since
    BY DEF Store, ByRun
  <1> HIDE DEF made
  <1> QED  BY <1>1, <1>3, <1>4, <1>5, <1>6, <1>7 DEF Fits

LEMMA RunStepKeeps ==
    ASSUME Inv, NEW r \in Runs, RunStep(r)
    PROVE  Inv'
  <1>1. TypeOK' /\ ReadingsKept'
    BY RunStepTypes, RunStepReadings DEF Inv
  <1>2. /\ UNCHANGED <<law, live, deployed, check, tampered>>
        /\ ~ Stored(r)
        /\ \A q \in Runs \ {r} : run'[q] = run[q] /\ since'[q] = since[q]
    BY RunStepKeepsStored DEF Inv
  <1>3. CheckFits' /\ BrokenMeansTampered' /\ RevisedMeansRevised'
    BY <1>2, StoredMatters
  <1>4. Stored(r)' => Fits(r)'
    <2>1. ASSUME NEW lacks \in Lacks, Store(r, lacks)
          PROVE  Fits(r)'
      BY <2>1, StoreFits
    <2>2. ASSUME \/ \E alternative \in Fuels \cup {NULL} : StartRun(r, alternative)
                 \/ CopyVoyages(r) \/ ReadTables(r) \/ RefuseRun(r)
          PROVE  ~ Stored(r)'
      BY <2>2, RunShape DEF Inv, StartRun, CopyVoyages, ReadTables, RefuseRun, Stored
    <2> QED  BY <2>1, <2>2 DEF RunStep
  <1>5. \A q \in Runs \ {r} :
            /\ Stored(q)' <=> Stored(q)
            /\ Fits(q)' <=> Fits(q)
    BY <1>2 DEF Stored, Fits
  <1>6. StoredFits'
    BY <1>2, <1>4, <1>5 DEF Inv, StoredFits
  <1> QED  BY <1>1, <1>3, <1>6 DEF Inv

\* A run has read parameters only.
LEMMA HasReadParams ==
    ASSUME TypeOK, NEW r \in Runs
    PROVE  HasReadOf(r) \subseteq Params
  <1>1. Stored(r) => run[r].input.snapshot.vessel \in Vessels
    BY StoredShape
  <1>2. run[r].step \in {"tables", "store"} => run[r].snapshot.vessel \in Vessels
    BY RunShape DEF Snapshots
  <1>3. run[r].step = "voyages" => run[r].vessel \in Vessels
    BY RunShape
  <1> QED  BY <1>1, <1>2, <1>3, FoundParams DEF HasReadOf, PlanFuels, Stored

LEMMA ReviseKeeps ==
    ASSUME Inv, NEW p \in Params, NEW row \in Rows \cup {NULL}, Revise(p, row)
    PROVE  Inv'
  <1>1. TypeOK'
    BY SurroundingsTypes DEF Inv, Surroundings
  <1>2. /\ \A q \in Params \ {p} : law'[q] = law[q]
        /\ \A r \in Runs : since'[r] = since[r] \cup {p}
        /\ run' = run /\ tampered' = tampered
    BY DEF Inv, TypeOK, Readings, Revise
  <1>3. /\ check.step = "idle" => check' = check
        /\ check.step # "idle" => check' = [check EXCEPT !.overturned = @ \ {p}]
    BY DEF Revise
  <1>4. \A r \in Runs : /\ HasReadOf(r)' = HasReadOf(r)
                        /\ Used(r)' = Used(r)
                        /\ Stored(r)' <=> Stored(r)
    BY <1>2 DEF HasReadOf, Used, PlanFuels, Stored
  <1>5. ReadingsKept'
    BY <1>2, <1>4, HasReadParams DEF Inv, ReadingsKept, NoRun
  <1>6. StoredFits'
    <2>1. ASSUME NEW r \in Runs, Stored(r)
          PROVE  Fits(r)'
      <3>1. run[r].alternative \in Params \cup {NULL}
        BY <2>1, StoredShape, FoundParams DEF Inv, Choices
      <3> QED  BY <1>2, <2>1, <3>1 DEF Inv, StoredFits, Fits
    <2> QED  BY <1>2, <1>4, <2>1 DEF Inv, StoredFits
  <1>7. ASSUME check.step # "idle"
        PROVE  CheckFits' /\ BrokenMeansTampered' /\ RevisedMeansRevised'
    <2>1. PICK r \in Runs : r = check.run /\ Stored(r)
      BY <1>7, CheckShape DEF Inv, CheckFits
    <2>2. /\ check'.step = check.step /\ check'.run = r /\ check'.vessel = check.vessel
          /\ check'.read = check.read /\ check'.tampered = check.tampered
          /\ check'.answer = check.answer
          /\ check'.overturned = check.overturned \ {p}
          /\ check.overturned \subseteq Params
      BY <1>3, <1>7, <2>1, CheckShape DEF Inv
    <2>3. Used(r)' = Used(r) /\ Stored(r)' /\ Used(r) \subseteq Params
      BY <1>4, <2>1, TablesParams DEF Inv
    <2>4. p \in since'[r]
      BY <1>2, <2>1
    <2>5. since[r] \subseteq since'[r]
      BY <1>2, <2>1
    <2>6. \A q \in Params \ since'[r] : q \notin since[r] /\ law'[q] = law[q]
      BY <1>2, <2>1
    <2>7. \A q \in check'.overturned : q \in check.overturned /\ law'[q] = law[q]
      BY <1>2, <2>2
    <2>8. CheckFits'
      <3>1. check.step = "tables" =>
                (\A q \in Params :
                    IF q \in {Year, check.vessel}
                      THEN /\ q \notin since[r] => check.read[q] = law[q]
                           /\ q \in check.overturned => check.read[q] = law[q]
                      ELSE check.read[q] = NULL)'
        BY <1>7, <2>1, <2>2, <2>6, <2>7 DEF Inv, CheckFits
      <3>2. check.step \in {"law", "tables"} =>
                (\A q \in check.overturned :
                    q \in Used(r) /\ Val(law[q]) # Val(run[r].read[q]))'
        BY <1>2, <1>7, <2>1, <2>2, <2>3, <2>7 DEF Inv, CheckFits, Val
      <3>3. check.step = "outcome" =>
                (/\ ~ check.tampered
                 /\ r \notin tampered => check.overturned = {}
                 /\ Block(run[r].block.schema, run[r].input.snapshot.vessel, check.read)
                        = run[r].block)'
        BY <1>2, <1>7, <2>1, <2>2 DEF Inv, CheckFits, Block, Val
      <3>4. /\ Stored(r)'
            /\ check'.tampered => r \in tampered'
            /\ check'.step \in {"law", "tables"} /\ r \notin tampered' =>
                   check'.vessel = run'[r].input.snapshot.vessel
            /\ check'.step = "law" => check'.read = NothingRead'
        BY <1>2, <1>7, <2>1, <2>2, <2>3 DEF Inv, CheckFits, NothingRead
      <3> QED  BY <2>1, <2>2, <3>1, <3>2, <3>3, <3>4 DEF CheckFits
    <2>9. BrokenMeansTampered'
      BY <1>2, <2>1, <2>2 DEF Inv, BrokenMeansTampered, Answered
    <2>10. RevisedMeansRevised'
      BY <1>2, <2>1, <2>2, <2>3, <2>5 DEF Inv, RevisedMeansRevised, Answered
    <2> QED  BY <2>8, <2>9, <2>10
  <1>8. ASSUME check.step = "idle"
        PROVE  CheckFits' /\ BrokenMeansTampered' /\ RevisedMeansRevised'
    BY <1>3, <1>8 DEF CheckFits, BrokenMeansTampered, RevisedMeansRevised, Answered
  <1> QED  BY <1>1, <1>5, <1>6, <1>7, <1>8 DEF Inv

\* Where neither the regulation nor the runs change, what holds of the runs
\* does so still.
LEMMA RunsLeftAlone ==
    ASSUME Inv, UNCHANGED <<law, run, tampered, since>>
    PROVE  ReadingsKept' /\ StoredFits'
  <1>1. ReadingsKept'
    <2>1. \A r \in Runs : HasReadOf(r)' = HasReadOf(r)
      BY DEF HasReadOf, PlanFuels
    <2> QED  BY <2>1 DEF Inv, ReadingsKept
  <1>2. StoredFits'
    <2>1. \A r \in Runs : (Stored(r)' <=> Stored(r)) /\ (Fits(r)' <=> Fits(r))
      BY DEF Stored, Fits
    <2> QED  BY <2>1 DEF Inv, StoredFits
  <1> QED  BY <1>1, <1>2

\* A deployment ends the runs that were under way.
LEMMA DeployKeeps ==
    ASSUME Inv, NEW software \in [environment : Environments, schema : Schemas],
           Deploy(software)
    PROVE  Inv'
  <1>1. TypeOK'
    BY SurroundingsTypes DEF Inv, Surroundings
  <1>2. /\ law' = law /\ tampered' = tampered /\ since' = since
        /\ check' = check \/ check' = [step |-> "idle"]
    BY DEF Deploy
  <1>3. \A r \in Runs : IF Running(r) THEN run'[r] = NoRun ELSE run'[r] = run[r]
    BY DEF Deploy
  <1>4. \A r \in Runs : Stored(r) => ~ Running(r)
    BY DEF Stored, Running
  <1>5. CheckFits' /\ BrokenMeansTampered' /\ RevisedMeansRevised'
    BY <1>2, <1>3, <1>4, StoredMatters
  <1>6. ReadingsKept'
    <2>1. \A r \in Runs : run'[r] # NoRun => run'[r] = run[r] /\ HasReadOf(r)' = HasReadOf(r)
      BY <1>3 DEF HasReadOf, PlanFuels
    <2> QED  BY <1>2, <2>1 DEF Inv, ReadingsKept
  <1>7. StoredFits'
    <2>1. \A r \in Runs : Stored(r)' => Stored(r) /\ run'[r] = run[r]
      BY <1>3 DEF Stored, NoRun
    <2>2. \A r \in Runs : r \in tampered => run'[r] = run[r]
      BY <1>3, <1>4 DEF Inv, StoredFits
    <2> QED  BY <1>2, <2>1, <2>2 DEF Inv, StoredFits, Stored, Fits
  <1> QED  BY <1>1, <1>5, <1>6, <1>7 DEF Inv

LEMMA TamperKeeps ==
    ASSUME Inv, NEW r \in Runs, Tamper(r)
    PROVE  Inv'
  <1>1. TypeOK'
    BY SurroundingsTypes DEF Inv, Surroundings
  <1>2. PICK snapshot : /\ snapshot # run[r].snapshot
                        /\ run' = [run EXCEPT ![r].snapshot = snapshot]
    BY DEF Tamper
  <1>3. /\ Stored(r) /\ r \notin tampered /\ tampered' = tampered \cup {r}
        /\ law' = law /\ check' = check /\ since' = since
    BY DEF Tamper
  <1>4. run[r] \in [step : {"stored"}, lacks : Lacks, alternative : Choices,
                    snapshot : Snapshots, read : Readings,
                    input : [snapshot : Snapshots, alternative : Choices],
                    block : Blocks, outcome : {run[r].outcome},
                    model : Environments]
    BY <1>3, StoredShape DEF Inv
  <1>5. run'[r] = [run[r] EXCEPT !.snapshot = snapshot]
    BY <1>2, RunShape DEF Inv
  <1>6. /\ run'[r].step = run[r].step /\ run'[r].read = run[r].read
        /\ run'[r].input = run[r].input /\ run'[r].block = run[r].block
        /\ run'[r].outcome = run[r].outcome /\ run'[r].model = run[r].model
        /\ run'[r].alternative = run[r].alternative
        /\ run'[r].snapshot = snapshot
    BY <1>4, <1>5
  <1>7. \A q \in Runs \ {r} : run'[q] = run[q]
    BY <1>2, RunShape DEF Inv
  <1>8. \A q \in Runs : /\ Stored(q)' <=> Stored(q)
                        /\ Used(q)' = Used(q)
    BY <1>6, <1>7 DEF Stored, Used, PlanFuels
  <1>9. \A q \in Runs : HasReadOf(q)' = HasReadOf(q)
    <2>1. HasReadOf(r)' = HasReadOf(r)
      BY <1>3, <1>6 DEF HasReadOf, Stored, PlanFuels
    <2>2. \A q \in Runs \ {r} : HasReadOf(q)' = HasReadOf(q)
      BY <1>7 DEF HasReadOf, PlanFuels
    <2> QED  BY <2>1, <2>2
  <1>10. ReadingsKept'
    <2>1. run[r] # NoRun
      BY <1>3 DEF Stored, NoRun
    <2> QED  BY <1>3, <1>6, <1>7, <1>9, <2>1 DEF Inv, ReadingsKept, NoRun
  <1>11. StoredFits'
    <2>1. Fits(r)'
      BY <1>2, <1>3, <1>6 DEF Inv, StoredFits, Fits
    <2>2. \A q \in Runs \ {r} : Fits(q)' <=> Fits(q)
      BY <1>3, <1>7 DEF Fits
    <2> QED  BY <1>3, <1>8, <2>1, <2>2 DEF Inv, StoredFits
  <1>12. CheckFits'
    <2> DEFINE c == check.run
    <2>1. CASE check.step = "idle"
      BY <1>3, <2>1 DEF CheckFits
    <2>2. CASE check.step # "idle"
      <3>1. c \in Runs
        BY <2>2, CheckShape DEF Inv
      <3>2. /\ run'[c].read = run[c].read /\ run'[c].block = run[c].block
            /\ run'[c].input = run[c].input
        BY <1>6, <1>7, <3>1
      <3>3. NothingRead' = NothingRead
        BY DEF NothingRead
      <3> QED  BY <1>3, <1>8, <3>1, <3>2, <3>3 DEF Inv, CheckFits, Val, Block
    <2> QED  BY <2>1, <2>2
  <1>13. BrokenMeansTampered'
    BY <1>3 DEF Inv, BrokenMeansTampered, Answered
  <1>14. RevisedMeansRevised'
    <2>1. check.step # "idle" => check.run \in Runs
      BY CheckShape DEF Inv
    <2>2. \A q \in Runs : run'[q].alternative = run[q].alternative
      BY <1>6, <1>7
    <2> QED  BY <1>3, <1>8, <2>1, <2>2 DEF Inv, RevisedMeansRevised, Answered
  <1> QED  BY <1>1, <1>10, <1>11, <1>12, <1>13, <1>14 DEF Inv

LEMMA SurroundingsKeep ==
    ASSUME Inv, Surroundings
    PROVE  Inv'
  <1>1. ASSUME NEW now, EditLive(now)
        PROVE  ReadingsKept' /\ StoredFits' /\ CheckFits'
               /\ BrokenMeansTampered' /\ RevisedMeansRevised'
    <2>1. CheckFits' /\ BrokenMeansTampered' /\ RevisedMeansRevised'
      BY <1>1, StoredMatters DEF EditLive
    <2>2. ReadingsKept' /\ StoredFits'
      BY <1>1, RunsLeftAlone DEF EditLive
    <2> QED  BY <2>1, <2>2
  <1>2. TypeOK'
    BY SurroundingsTypes DEF Inv
  <1> QED  BY <1>1, <1>2, ReviseKeeps, DeployKeeps, TamperKeeps
           DEF Surroundings, EditVessel, EditPlan, EditSettled, Inv

-----------------------------------------------------------------------------
(* The steps of a reproduction keep the invariant.                         *)

\* A request that asks or goes on with a reproduction leaves all runs alone.
LEMMA CheckLeavesRuns ==
    ASSUME Inv, (\E r \in Runs : Ask(r)) \/ CheckStep,
           UNCHANGED <<law, live, deployed, run, tampered, since>>
    PROVE  TypeOK' /\ ReadingsKept' /\ StoredFits'
  <1>1. TypeOK'
    BY RequestTypes DEF Inv
  <1> QED  BY <1>1, RunsLeftAlone

LEMMA AskKeeps ==
    ASSUME Inv, NEW r \in Runs, Ask(r), UNCHANGED <<law, run, tampered, since>>
    PROVE  CheckFits' /\ BrokenMeansTampered' /\ RevisedMeansRevised'
  <1>1. /\ Stored(r)' /\ check'.run = r /\ check'.step \in {"law", "answered"}
        /\ check'.vessel = run[r].snapshot.vessel /\ check'.read = NothingRead
        /\ check'.tampered = (r \in tampered) /\ check'.overturned = Overturned(r)
        /\ check'.answer = "unknown"
    BY DEF Ask, Stored
  <1>2. Used(r)' = Used(r) /\ NothingRead' = NothingRead
    BY DEF Used, PlanFuels, NothingRead
  <1>3. r \notin tampered => run[r].snapshot = run[r].input.snapshot
    BY DEF Inv, StoredFits, Fits, Ask
  <1>4. CheckFits'
    BY <1>1, <1>2, <1>3 DEF CheckFits, Overturned, Val
  <1>5. BrokenMeansTampered' /\ RevisedMeansRevised'
    BY <1>1 DEF BrokenMeansTampered, RevisedMeansRevised, Found
  <1> QED  BY <1>4, <1>5

\* What an untouched run has read and what was not revised since is there.
LEMMA StandingRows ==
    ASSUME Inv, NEW r \in Runs, Stored(r),
           NEW p \in {Year, Profile, run[r].input.snapshot.vessel}
                      \cup PlanFuels(run[r].input.snapshot) \cup Later
    PROVE  /\ p \in Params
           /\ p \notin since[r] => law[p] = run[r].read[p]
           /\ p \notin Later => run[r].read[p] # NULL
  <1>1. HasReadOf(r) = {Year, Profile, run[r].input.snapshot.vessel}
                       \cup PlanFuels(run[r].input.snapshot) \cup Later
    BY DEF HasReadOf, Stored
  <1>2. run[r] # NoRun
    BY DEF Stored, NoRun
  <1> QED  BY <1>1, <1>2, HasReadParams DEF Inv, ReadingsKept

LEMMA CheckLawKeeps ==
    ASSUME Inv, CheckLaw, UNCHANGED <<law, run, tampered, since>>
    PROVE  CheckFits' /\ BrokenMeansTampered' /\ RevisedMeansRevised'
  <1>1. PICK r \in Runs : r = check.run /\ Stored(r)
    BY CheckShape DEF Inv, CheckFits, CheckLaw
  <1>2. /\ check.step = "law" /\ check.read = NothingRead /\ check.vessel \in Vessels
        /\ check.tampered => r \in tampered
        /\ r \notin tampered => check.vessel = run[r].input.snapshot.vessel
        /\ \A p \in check.overturned : p \in Used(r) /\ Val(law[p]) # Val(run[r].read[p])
    BY <1>1, CheckShape DEF Inv, CheckFits, CheckLaw
  <1>3. Used(r)' = Used(r) /\ Stored(r)'
    BY <1>1 DEF Used, PlanFuels, Stored
  <1>4. CASE \A p \in {Year, check.vessel} : law[p] # NULL
    <2>1. check' = [check EXCEPT !.step = "tables",
                                 !.read = ReadAlso(check.read, {Year, check.vessel})]
      BY <1>4 DEF CheckLaw
    <2>2. /\ check'.step = "tables" /\ check'.run = r /\ check'.vessel = check.vessel
          /\ check'.tampered = check.tampered /\ check'.overturned = check.overturned
          /\ check'.read = ReadAlso(NothingRead, {Year, check.vessel})
      BY <1>1, <1>2, <2>1, CheckShape DEF Inv
    <2>3. \A p \in Params : check'.read[p] =
              IF p \in {Year, check.vessel} THEN law[p] ELSE NULL
      BY <2>2 DEF ReadAlso, NothingRead
    <2>4. CheckFits'
      BY <1>1, <1>2, <1>3, <2>2, <2>3 DEF CheckFits, Val
    <2> QED  BY <2>2, <2>4 DEF BrokenMeansTampered, RevisedMeansRevised, Answered
  <1>5. CASE \E p \in {Year, check.vessel} : law[p] = NULL
    <2>1. check' = [check EXCEPT !.step = "answered", !.answer = "missing"]
      BY <1>5 DEF CheckLaw, Answer
    <2>2. /\ check'.step = "answered" /\ check'.answer = "missing" /\ check'.run = r
          /\ check'.tampered = check.tampered
      BY <1>1, <1>2, <2>1, CheckShape DEF Inv
    <2>3. CheckFits'
      BY <1>1, <1>2, <1>3, <2>2 DEF CheckFits
    <2>4. r \notin tampered => since[r] \cap Used(r) # {}
      <3> SUFFICES ASSUME r \notin tampered
                   PROVE  since[r] \cap Used(r) # {}
        OBVIOUS
      <3>1. PICK p \in {Year, run[r].input.snapshot.vessel} : law[p] = NULL
        BY <1>2, <1>5
      <3>2. p \notin Later
        BY <1>1, <3>1, StoredShape, ReproductionAssumption DEF Inv
      <3>3. p \in since[r]
        BY <1>1, <3>1, <3>2, StandingRows
      <3> QED  BY <3>1, <3>3 DEF Used
    <2>5. BrokenMeansTampered' /\ RevisedMeansRevised'
      BY <1>3, <2>2, <2>4 DEF BrokenMeansTampered, RevisedMeansRevised, Found
    <2> QED  BY <2>3, <2>5
  <1> QED  BY <1>4, <1>5

\* What a block names of the regulation, and that it names nothing else.
LEMMA BlockNames ==
    ASSUME NEW schema \in Schemas, NEW vessel \in Vessels,
           NEW read \in Readings, NEW other \in Readings
    PROVE  /\ Block(schema, vessel, read) = Block(schema, vessel, other) =>
                  /\ \A p \in {Year, Profile, vessel} : Val(read[p]) = Val(other[p])
                  /\ schema >= 2 => \A p \in Fuels : Val(read[p]) = Val(other[p])
                  /\ schema >= 3 => \A p \in Later : Val(read[p]) = Val(other[p])
           /\ /\ \A p \in {Year, Profile, vessel} : read[p] = other[p]
              /\ schema >= 2 => \A p \in Fuels : read[p] = other[p]
              /\ schema >= 3 => \A p \in Later : read[p] = other[p]
              => Block(schema, vessel, read) = Block(schema, vessel, other)
  <1>1. ASSUME Block(schema, vessel, read) = Block(schema, vessel, other)
        PROVE  /\ \A p \in {Year, Profile, vessel} : Val(read[p]) = Val(other[p])
               /\ schema >= 2 => \A p \in Fuels : Val(read[p]) = Val(other[p])
               /\ schema >= 3 => \A p \in Later : Val(read[p]) = Val(other[p])
    <2>1. /\ Block(schema, vessel, read).values = Block(schema, vessel, other).values
          /\ Block(schema, vessel, read).rows = Block(schema, vessel, other).rows
      BY <1>1
    <2>2. \A p \in Params :
              (IF p \in {Year, Profile, vessel} THEN Val(read[p]) ELSE NULL) =
              (IF p \in {Year, Profile, vessel} THEN Val(other[p]) ELSE NULL)
      BY <2>1 DEF Block
    <2>3. \A p \in Params :
              (IF \/ schema >= 2 /\ p \in {Year, vessel} \cup Fuels
                  \/ schema >= 3 /\ p \in Later
                 THEN read[p] ELSE NULL) =
              (IF \/ schema >= 2 /\ p \in {Year, vessel} \cup Fuels
                  \/ schema >= 3 /\ p \in Later
                 THEN other[p] ELSE NULL)
      BY <2>1 DEF Block
    <2>4. schema >= 2 => \A p \in Fuels : read[p] = other[p]
      BY <2>3, FoundParams
    <2>5. schema >= 3 => \A p \in Later : read[p] = other[p]
      BY <2>3, FoundParams
    <2> QED  BY <2>2, <2>4, <2>5, FoundParams
  <1>2. ASSUME \A p \in {Year, Profile, vessel} : read[p] = other[p],
               schema >= 2 => \A p \in Fuels : read[p] = other[p],
               schema >= 3 => \A p \in Later : read[p] = other[p]
        PROVE  Block(schema, vessel, read) = Block(schema, vessel, other)
    <2>1. \A p \in Params :
              (IF p \in {Year, Profile, vessel} THEN Val(read[p]) ELSE NULL) =
              (IF p \in {Year, Profile, vessel} THEN Val(other[p]) ELSE NULL)
      BY <1>2
    <2>2. \A p \in Params :
              (IF \/ schema >= 2 /\ p \in {Year, vessel} \cup Fuels
                  \/ schema >= 3 /\ p \in Later
                 THEN read[p] ELSE NULL) =
              (IF \/ schema >= 2 /\ p \in {Year, vessel} \cup Fuels
                  \/ schema >= 3 /\ p \in Later
                 THEN other[p] ELSE NULL)
      BY <1>2
    <2> QED  BY <2>1, <2>2 DEF Block
  <1> QED  BY <1>1, <1>2

LEMMA CheckTablesKeeps ==
    ASSUME Inv, CheckTables, UNCHANGED <<law, run, tampered, since>>
    PROVE  CheckFits' /\ BrokenMeansTampered' /\ RevisedMeansRevised'
  <1>1. PICK r \in Runs : r = check.run /\ Stored(r)
    BY CheckShape DEF Inv, CheckFits, CheckTables
  <1> DEFINE made == run[r]
             read == ReadAlso(check.read, Tables(r))
             schema == made.block.schema
             vessel == made.input.snapshot.vessel
  <1>2. /\ check.step = "tables" /\ check.vessel \in Vessels
        /\ check.tampered => r \in tampered
        /\ r \notin tampered => check.vessel = vessel
        /\ \A p \in check.overturned : p \in Used(r) /\ Val(law[p]) # Val(made.read[p])
        /\ \A p \in Params :
               IF p \in {Year, check.vessel}
                 THEN /\ p \notin since[r] => check.read[p] = law[p]
                      /\ p \in check.overturned => check.read[p] = law[p]
                 ELSE check.read[p] = NULL
        /\ check.read \in Readings /\ check.overturned \subseteq Params
    BY <1>1, CheckShape DEF Inv, CheckFits, CheckTables
  <1>3. /\ made.snapshot \in Snapshots /\ made.read \in Readings
        /\ schema \in Schemas /\ vessel \in Vessels /\ made.step = "stored"
    BY <1>1, StoredShape DEF Inv, Stored
  <1>4. /\ made.input.alternative = made.alternative
        /\ r \notin tampered <=> made.snapshot = made.input.snapshot
        /\ made.block = Block(schema, vessel, made.read)
    BY <1>1 DEF Inv, StoredFits, Fits
  <1>5. made.input = Material(made.input.snapshot, made.input.alternative)
    BY <1>1, StoredShape DEF Inv, Material
  <1>6. Material(made.snapshot, made.alternative) = made.input <=> r \notin tampered
    BY <1>4, <1>5 DEF Material
  <1>7. Used(r)' = Used(r) /\ Stored(r)'
    BY <1>1 DEF Used, PlanFuels, Stored
  <1>8. /\ read \in Readings
        /\ \A p \in Params : read[p] = IF p \in Tables(r) THEN law[p] ELSE check.read[p]
    BY <1>2, ReadAlsoType DEF Inv, TypeOK
  <1>9. \A y \in Later : schema >= 3 => made.block.rows[y] = made.read[y]
    BY <1>4, FoundParams DEF Block
  <1>10. Tables(r) = {Profile} \cup (IF schema >= 2 THEN PlanFuels(made.snapshot) ELSE {})
                               \cup (IF schema >= 3 THEN {y \in Later : made.read[y] # NULL}
                                                    ELSE {})
    BY <1>9 DEF Tables, StoredYears
  <1>11. r \notin tampered => Used(r) = {Year, vessel} \cup Tables(r)
    BY <1>4, <1>10 DEF Used
  <1>12. Verdict(r, read) =
             IF r \in tampered THEN "broken"
             ELSE IF Block(schema, check.vessel, read) # made.block THEN "revised"
             ELSE "passed"
    BY <1>6 DEF Verdict
  \* The answer blames the copy or the regulation.
  <1>13. ASSUME Verdict(r, read) # "passed"
         PROVE  CheckFits' /\ BrokenMeansTampered' /\ RevisedMeansRevised'
    <2>1. check' = [check EXCEPT !.step = "answered", !.answer = Verdict(r, read)]
      BY <1>1, <1>13 DEF CheckTables, Answer
    <2>2. /\ check'.step = "answered" /\ check'.answer = Verdict(r, read) /\ check'.run = r
          /\ check'.tampered = check.tampered
      BY <1>1, <1>2, <2>1, CheckShape DEF Inv
    <2>3. CheckFits'
      BY <1>1, <1>2, <1>7, <2>2 DEF CheckFits
    <2>4. BrokenMeansTampered'
      BY <1>2, <1>12, <1>13, <2>2 DEF BrokenMeansTampered
    <2>5. r \notin tampered => since[r] \cap Used(r) # {}
      <3> SUFFICES ASSUME r \notin tampered, since[r] \cap Used(r) = {}
                   PROVE  FALSE
        OBVIOUS
      <3>1. Block(schema, vessel, read) # Block(schema, vessel, made.read)
        BY <1>2, <1>4, <1>12, <1>13
      <3>2. \A p \in Used(r) : read[p] = made.read[p]
        <4> TAKE p \in Used(r)
        <4>1. law[p] = made.read[p] /\ p \in Params
          BY <1>1, StandingRows DEF Used
        <4>2. p \in Tables(r) => read[p] = law[p]
          BY <1>8, <4>1
        <4>3. p \in {Year, vessel} /\ p \notin Tables(r) => read[p] = law[p]
          BY <1>2, <1>8, <4>1
        <4> QED  BY <1>11, <4>1, <4>2, <4>3
      <3>3. \A p \in (Fuels \cup Later) \ Used(r) : p \notin Tables(r) /\ read[p] = NULL
        <4> TAKE p \in (Fuels \cup Later) \ Used(r)
        <4>1. p \notin {Year, check.vessel} /\ p \in Params
          BY <1>2, ReproductionAssumption DEF Params
        <4> QED  BY <1>2, <1>8, <1>11, <4>1
      <3>4. schema >= 2 => \A p \in Fuels : read[p] = made.read[p]
        <4> SUFFICES ASSUME schema >= 2, NEW p \in Fuels \ Used(r)
                     PROVE  made.read[p] = NULL
          BY <3>2, <3>3
        <4>1. p \notin PlanFuels(made.input.snapshot)
          BY DEF Used
        <4>2. p \notin HasReadOf(r) /\ p \in Params
          BY <1>3, <4>1, ReproductionAssumption DEF HasReadOf, Params
        <4> QED  BY <1>3, <4>2 DEF Inv, ReadingsKept, NoRun
      <3>5. schema >= 3 => \A p \in Later : read[p] = made.read[p]
        BY <3>2, <3>3 DEF Used
      <3>6. \A p \in {Year, Profile, vessel} : read[p] = made.read[p]
        BY <3>2 DEF Used
      <3> HIDE DEF made, read, schema, vessel
      <3> QED  BY <1>3, <1>8, <3>1, <3>4, <3>5, <3>6, BlockNames
    <2>6. RevisedMeansRevised'
      BY <1>7, <1>12, <2>2, <2>5 DEF RevisedMeansRevised, Found
    <2> QED  BY <2>3, <2>4, <2>6
  \* Both hashes match: nothing the block names has another value now.
  <1>14. ASSUME Verdict(r, read) = "passed"
         PROVE  CheckFits' /\ BrokenMeansTampered' /\ RevisedMeansRevised'
    <2>1. check' = [check EXCEPT !.step = "outcome", !.read = read]
      BY <1>1, <1>14 DEF CheckTables
    <2>2. /\ check'.step = "outcome" /\ check'.read = read /\ check'.run = r
          /\ check'.tampered = check.tampered /\ check'.overturned = check.overturned
      BY <1>1, <1>2, <2>1, CheckShape DEF Inv
    <2>3. r \notin tampered /\ Block(schema, vessel, read) = Block(schema, vessel, made.read)
          /\ check.vessel = vessel
      BY <1>2, <1>4, <1>12, <1>14
    <2>4. \A p \in Used(r) : Val(read[p]) = Val(made.read[p])
      <3>1. /\ \A p \in {Year, Profile, vessel} : Val(read[p]) = Val(made.read[p])
            /\ schema >= 2 => \A p \in Fuels : Val(read[p]) = Val(made.read[p])
            /\ schema >= 3 => \A p \in Later : Val(read[p]) = Val(made.read[p])
        <4> HIDE DEF made, read, schema, vessel
        <4> QED  BY <1>3, <1>8, <2>3, BlockNames
      <3> QED  BY <3>1 DEF Used, PlanFuels
    <2>5. check.overturned = {}
      <3> SUFFICES ASSUME NEW p \in check.overturned
                   PROVE  FALSE
        OBVIOUS
      <3>1. p \in Params /\ p \in Used(r) /\ Val(law[p]) # Val(made.read[p])
        BY <1>2
      <3>2. read[p] = law[p]
        BY <1>2, <1>8, <1>11, <2>3, <3>1
      <3> QED  BY <2>4, <3>1, <3>2
    <2>6. Block(run'[r].block.schema, run'[r].input.snapshot.vessel, check'.read)
              = run'[r].block
      <3> HIDE DEF read
      <3> QED  BY <1>4, <2>2, <2>3
    <2>7. CheckFits'
      <3>1. check'.overturned = {} /\ ~ check'.tampered
        BY <1>2, <2>2, <2>3, <2>5
      <3> QED  BY <1>7, <2>2, <2>6, <3>1 DEF CheckFits, Block, Val
    <2> QED  BY <2>2, <2>7 DEF BrokenMeansTampered, RevisedMeansRevised, Answered
  <1> QED  BY <1>13, <1>14

LEMMA CheckOutcomeKeeps ==
    ASSUME Inv, CheckOutcome, UNCHANGED <<law, run, tampered, since>>
    PROVE  CheckFits' /\ BrokenMeansTampered' /\ RevisedMeansRevised'
  <1>1. PICK r \in Runs : r = check.run /\ Stored(r)
    BY CheckShape DEF Inv, CheckFits, CheckOutcome
  <1> DEFINE made == run[r]
             schema == made.block.schema
             vessel == made.input.snapshot.vessel
             again == Outcome(schema, made.input.snapshot, check.read, made.alternative,
                              deployed.environment)
  <1>2. /\ check.step = "outcome" /\ check.read \in Readings
        /\ ~ check.tampered
        /\ r \notin tampered => check.overturned = {}
        /\ Block(schema, vessel, check.read) = made.block
    BY <1>1, CheckShape DEF Inv, CheckFits, CheckOutcome
  <1>3. /\ made.read \in Readings /\ schema \in Schemas /\ vessel \in Vessels
        /\ made.alternative \in Choices
    BY <1>1, StoredShape DEF Inv
  <1>4. /\ made.block = Block(schema, vessel, made.read)
        /\ Compared(made.outcome) =
               Comparable(schema, made.input.snapshot, made.read, made.model)
        /\ made.alternative \notin {NULL} \cup since[r] => law[made.alternative] # NULL
    BY <1>1 DEF Inv, StoredFits, Fits
  <1>5. made.model = deployed.environment => SameOutcome(made.outcome, again)
    <2>1. /\ \A p \in {Year, Profile, vessel} : Val(check.read[p]) = Val(made.read[p])
          /\ schema >= 3 => \A p \in Later : Val(check.read[p]) = Val(made.read[p])
      <3> HIDE DEF made, schema, vessel
      <3> QED  BY <1>2, <1>3, <1>4, BlockNames
    <2>2. Compared(again) = Comparable(schema, made.input.snapshot, check.read,
                                       deployed.environment)
      BY ComparedOutcome
    <2>3. Comparable(schema, made.input.snapshot, check.read, made.model)
              = Comparable(schema, made.input.snapshot, made.read, made.model)
      BY <2>1 DEF Comparable
    <2> QED  BY <1>4, <2>2, <2>3 DEF SameOutcome
  <1>6. PICK answer \in {"missing"} \cup Found \cup {"broken"} :
            /\ Answer(answer)
            /\ answer = "missing" => made.alternative # NULL /\ law[made.alternative] = NULL
            /\ answer # "broken"
    <2> HIDE DEF again
    <2>1. \/ made.alternative # NULL /\ law[made.alternative] = NULL /\ Answer("missing")
          \/ SameOutcome(made.outcome, again)
             /\ Answer(IF made.model # deployed.environment THEN "warned" ELSE "same")
          \/ ~ SameOutcome(made.outcome, again)
             /\ Answer(IF made.model # deployed.environment THEN "moved" ELSE "broken")
      BY <1>1 DEF CheckOutcome, again
    <2> QED  BY <1>5, <2>1 DEF Found
  <1>7. /\ check'.step = "answered" /\ check'.answer = answer /\ check'.run = r
        /\ check'.tampered = check.tampered /\ check'.overturned = check.overturned
    BY <1>1, <1>2, <1>6, CheckShape DEF Inv, Answer
  <1>8. Used(r)' = Used(r) /\ Stored(r)'
    BY <1>1 DEF Used, PlanFuels, Stored
  <1>9. CheckFits'
    BY <1>1, <1>2, <1>7, <1>8 DEF CheckFits
  <1>10. BrokenMeansTampered'
    BY <1>2, <1>6, <1>7 DEF BrokenMeansTampered
  <1>11. answer = "missing" => made.alternative \in since[r] /\ made.alternative # NULL
    BY <1>4, <1>6
  <1>12. RevisedMeansRevised'
    BY <1>2, <1>6, <1>7, <1>8, <1>11 DEF RevisedMeansRevised, Found
  <1> QED  BY <1>9, <1>10, <1>12

-----------------------------------------------------------------------------
(* Theorems.                                                               *)

LEMMA InvInductive == Spec => []Inv
  <1>1. Init => Inv
    <2> SUFFICES ASSUME Init
                 PROVE  Inv
      OBVIOUS
    <2>1. /\ run = [r \in Runs |-> NoRun] /\ check = [step |-> "idle"]
          /\ tampered = {} /\ since = [r \in Runs |-> {}]
          /\ law \in Readings
          /\ live \in [vessel : Vessels, plan : SUBSET Fuels, settled : Factors]
          /\ deployed \in [environment : Environments, schema : Schemas]
      BY DEF Init, Readings
    <2>2. TypeOK
      BY <2>1 DEF TypeOK, RunType, CheckType
    <2>3. ReadingsKept /\ StoredFits
      BY <2>1 DEF ReadingsKept, StoredFits, Stored, NoRun
    <2>4. CheckFits /\ BrokenMeansTampered /\ RevisedMeansRevised
      BY <2>1 DEF CheckFits, BrokenMeansTampered, RevisedMeansRevised, Answered
    <2> QED  BY <2>2, <2>3, <2>4 DEF Inv
  <1>2. Inv /\ [Next]_vars => Inv'
    <2> SUFFICES ASSUME Inv, [Next]_vars
                 PROVE  Inv'
      OBVIOUS
    <2>1. ASSUME NEW r \in Runs, RunStep(r)
          PROVE  Inv'
      BY <2>1, RunStepKeeps
    <2>2. ASSUME (\E r \in Runs : Ask(r)) \/ CheckStep,
                 UNCHANGED <<law, live, deployed, run, tampered, since>>
          PROVE  Inv'
      <3>1. TypeOK' /\ ReadingsKept' /\ StoredFits'
        BY <2>2, CheckLeavesRuns
      <3>2. CheckFits' /\ BrokenMeansTampered' /\ RevisedMeansRevised'
        BY <2>2, AskKeeps, CheckLawKeeps, CheckTablesKeeps, CheckOutcomeKeeps DEF CheckStep
      <3> QED  BY <3>1, <3>2 DEF Inv
    <2>3. CASE Surroundings
      BY <2>3, SurroundingsKeep
    <2>4. CASE UNCHANGED vars
      <3>1. TypeOK'
        BY <2>4 DEF vars, Inv, TypeOK, RunType, CheckType
      <3>2. CheckFits' /\ BrokenMeansTampered' /\ RevisedMeansRevised'
        BY <2>4, StoredMatters DEF vars
      <3>3. ReadingsKept' /\ StoredFits'
        BY <2>4, RunsLeftAlone DEF vars
      <3> QED  BY <3>1, <3>2, <3>3 DEF Inv
    <2> QED  BY <2>1, <2>2, <2>3, <2>4 DEF Next, Requests
  <1> QED  BY <1>1, <1>2, PTL DEF Spec

\* Every variable of Reproductions keeps its type.
THEOREM ReproductionTypes == Spec => []TypeOK
  <1>1. Inv => TypeOK
    BY DEF Inv
  <1> QED  BY <1>1, InvInductive, PTL

\* A reproduction blames the stored run only for an altered snapshot, and an
\* altered one is neither confirmed nor excused with a revision
\* (reproduce_annual_simulation).
THEOREM BrokenMeansTamperedHolds == Spec => []BrokenMeansTampered
  <1>1. Inv => BrokenMeansTampered
    BY DEF Inv
  <1> QED  BY <1>1, InvInductive, PTL

\* A reproduction of an untouched run speaks of a revision only if something
\* the run used was revised, and never passes over a standing one
\* (build_parameters_used, _load_stored_future_regulation_years).
THEOREM RevisedMeansRevisedHolds == Spec => []RevisedMeansRevised
  <1>1. Inv => RevisedMeansRevised
    BY DEF Inv
  <1> QED  BY <1>1, InvInductive, PTL
=============================================================================
