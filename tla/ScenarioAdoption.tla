--------------------------- MODULE ScenarioAdoption ---------------------------
(***************************************************************************)
(* Compared scenarios of one vessel and their adoption by voyages          *)
(* (services/scenario_adopt.py; what it writes into the voyage's plan is   *)
(* AdoptPlan of VoyageLifecycle).                                          *)
(*                                                                         *)
(* A request reads its scenario row first and locks the vessel and the     *)
(* target voyage afterwards, so other requests and the voyage operations   *)
(* may commit in between.  From the lock to the commit nothing else of the *)
(* vessel moves: that part is one action.  It writes through the object    *)
(* read before the lock, and an UPDATE of SQLAlchemy's unit of work names  *)
(* only the columns whose value differs from the one that object holds.    *)
(***************************************************************************)
EXTENDS VoyageStages

CONSTANTS
    Scenarios,   \* ids of voyage_scenario rows
    Requests,    \* adoption requests, each with a session of its own
    NULL

ASSUME NullIsNoVoyage == NULL \notin Voyages

VARIABLES
    scenario,    \* the voyage_scenario rows, each a ScenarioRow or not there yet
    request      \* the Request that each session handles

varsSA == <<stage, scenario, request>>

Adoption == [adopted : BOOLEAN, voyage : Voyages \cup {NULL}]

\* `compared' is the voyage of the comparison that made the row: its
\* calculation_run keeps it and nothing changes it later.
ScenarioRow == [adopted  : BOOLEAN,
                voyage   : Voyages \cup {NULL},
                compared : Voyages \cup {NULL}]

\* The row that does not exist is none that does.
ASSUME RowAssumption == NULL \notin ScenarioRow

Request == {[pc |-> "idle"]}
           \cup [pc : {"loaded"}, scenario : Scenarios, copy : Adoption]

Idle == [pc |-> "idle"]

InitSA ==
    /\ InitStages
    /\ scenario = [s \in Scenarios |-> NULL]
    /\ request = [q \in Requests |-> Idle]

Rows == {s \in Scenarios : scenario[s] # NULL}

\* A comparison keeps its scenarios, attached to the voyage it was made for
\* or to none.  The voyage was being planned when the comparison looked, and
\* may have gone on since; its row is there, or the INSERT fails.
Compare(s, v) ==
    /\ scenario[s] = NULL
    /\ v # NULL => stage[v] # "none"
    /\ scenario' = [scenario EXCEPT ![s] =
                       [adopted |-> FALSE, voyage |-> NULL, compared |-> v]]
    /\ UNCHANGED <<stage, request>>

Load(q, s) ==
    /\ request[q] = Idle
    /\ s \in Rows
    /\ request' = [request EXCEPT ![q] =
                      [pc |-> "loaded", scenario |-> s,
                       copy |-> [adopted |-> scenario[s].adopted,
                                 voyage |-> scenario[s].voyage]]]
    /\ UNCHANGED <<stage, scenario>>

AdoptedBy(row, v) == row.adopted /\ row.voyage = v

\* Mutant: the previous adoption is not cleared.
NothingCleared(v) == scenario

\* _clear_previous_adoption: one UPDATE over the rows the voyage adopted.
Cleared(v) ==
    [s \in Scenarios |->
        IF s \in Rows /\ AdoptedBy(scenario[s], v)
          THEN [scenario[s] EXCEPT !.adopted = FALSE] ELSE scenario[s]]

\* The same UPDATE evaluated on the object in the session.
ClearedCopy(copy, v) ==
    IF AdoptedBy(copy, v) THEN [copy EXCEPT !.adopted = FALSE] ELSE copy

\* Mutant: a scenario that has a voyage already keeps it.
FlushedOnce(row, copy, v) ==
    [row EXCEPT !.adopted = TRUE, !.voyage = IF @ # NULL THEN @ ELSE v]

\* The flush: is_adopted := true and voyage_id := v, each only where the
\* object did not hold that value already.
Flushed(row, copy, v) ==
    [row EXCEPT !.adopted = IF copy.adopted THEN @ ELSE TRUE,
                !.voyage = IF copy.voyage = v THEN @ ELSE v]

WriteAdoption(q, v) ==
    LET s == request[q].scenario
        copy == ClearedCopy(request[q].copy, v)
    IN  /\ scenario' = [Cleared(v) EXCEPT ![s] = Flushed(@, copy, v)]
        /\ request' = [request EXCEPT ![q] = Idle]

\* Ids are never given twice: a new row is none that a request remembers.
NewVoyage(v) ==
    /\ \A q \in Requests : request[q].pc = "loaded" => request[q].copy.voyage # v
    /\ Register(v)

\* Mutant: any voyage may adopt the scenario.
AdoptIntoAnyVoyage(q, v) ==
    /\ request[q].pc = "loaded"
    /\ stage[v] = "planning"
    /\ WriteAdoption(q, v)
    /\ UNCHANGED stage

\* UPDATE_EXISTING_PLAN: a voyage still being planned, and the one the
\* comparison was made for if it was made for one.
AdoptIntoVoyage(q, v) ==
    /\ request[q].pc = "loaded"
    /\ scenario[request[q].scenario].compared \in {NULL, v}
    /\ stage[v] = "planning"
    /\ WriteAdoption(q, v)
    /\ UNCHANGED stage

\* CREATE_NEW_VOYAGE: a new voyage modelled on a source voyage; a scenario
\* compared for a voyage cannot be adopted this way.
AdoptIntoNewVoyage(q, source, v) ==
    /\ request[q].pc = "loaded"
    /\ scenario[request[q].scenario].compared = NULL
    /\ stage[source] \notin {"none", "hidden"}
    /\ NewVoyage(v)
    /\ WriteAdoption(q, v)

\* Some check of the request fails: a year its new arrival no longer
\* touches, a missing port, a target that has sailed.
Refuse(q) ==
    /\ request[q].pc = "loaded"
    /\ request' = [request EXCEPT ![q] = Idle]
    /\ UNCHANGED <<stage, scenario>>

OpenVoyage(v) ==
    /\ NewVoyage(v)
    /\ UNCHANGED <<scenario, request>>

VoyageMovesOn(v) ==
    /\ MoveOn(v)
    /\ UNCHANGED <<scenario, request>>

\* A real delete is refused while a comparison refers to the voyage;
\* otherwise the foreign key of its scenarios is set to NULL with it.
EraseVoyage(v) ==
    /\ \A s \in Rows : scenario[s].compared # v
    /\ Erase(v)
    /\ scenario' = [s \in Scenarios |->
                       IF s \in Rows /\ scenario[s].voyage = v
                         THEN [scenario[s] EXCEPT !.voyage = NULL]
                         ELSE scenario[s]]
    /\ UNCHANGED request

NextSA ==
    \/ \E s \in Scenarios, v \in Voyages \cup {NULL} : Compare(s, v)
    \/ \E q \in Requests, s \in Scenarios : Load(q, s)
    \/ \E q \in Requests, v \in Voyages : AdoptIntoVoyage(q, v)
    \/ \E q \in Requests, source, v \in Voyages : AdoptIntoNewVoyage(q, source, v)
    \/ \E q \in Requests : Refuse(q)
    \/ \E v \in Voyages : OpenVoyage(v) \/ VoyageMovesOn(v) \/ EraseVoyage(v)

SpecSA == InitSA /\ [][NextSA]_varsSA

-----------------------------------------------------------------------------
(* Properties.                                                             *)

AdoptedScenarios(v) == {s \in Rows : AdoptedBy(scenario[s], v)}

\* A voyage has at most one adopted scenario (the service invariant of
\* DB_SCHEMA's voyage_scenario, which no constraint of the table keeps).
AtMostOneAdopted ==
    \A v \in Voyages : \A s, other \in AdoptedScenarios(v) : s = other

\* A scenario compared for a voyage is adopted by that voyage and no other,
\* and the voyage it was compared for stays in the database.
AdoptedWhereCompared ==
    \A s \in Rows :
        scenario[s].compared # NULL =>
            /\ stage[scenario[s].compared] # "none"
            /\ scenario[s].adopted => scenario[s].voyage = scenario[s].compared

\* An adoption that commits leaves exactly its own scenario adopted by the
\* target and takes it away from any voyage that adopted it before.
AdoptionTakesEffect ==
    [][\A q \in Requests, v \in Voyages :
          request[q].pc = "loaded"
              /\ (AdoptIntoVoyage(q, v)
                  \/ \E source \in Voyages : AdoptIntoNewVoyage(q, source, v))
          => /\ AdoptedScenarios(v)' = {request[q].scenario}
             /\ \A other \in Voyages \ {v} :
                    request[q].scenario \notin AdoptedScenarios(other)']_varsSA
=============================================================================
