------------------------ MODULE ScenarioAdoptionProofs ------------------------
(***************************************************************************)
(* Proofs about ScenarioAdoption.  Where a scenario may be adopted is      *)
(* independent of how requests cross.  That a voyage has at most one       *)
(* adopted scenario needs that no two requests for one scenario are under  *)
(* way together, and that an adoption takes effect that no two are at all: *)
(* a request decides which columns its UPDATE names by the copy it read    *)
(* before the lock.                                                        *)
(***************************************************************************)
EXTENDS ScenarioAdoption, TLAPS

Loaded == [pc : {"loaded"}, scenario : Scenarios, copy : Adoption]

\* Types, and: the scenario a request has read is still there, since no
\* operation deletes one.
Types ==
    /\ stage \in [Voyages -> Stages]
    /\ scenario \in [Scenarios -> ScenarioRow \cup {NULL}]
    /\ request \in [Requests -> {Idle} \cup Loaded]
    /\ \A q \in Requests :
           request[q].pc = "loaded" => scenario[request[q].scenario] # NULL

\* A step that commits an adoption of q by v.
Adopts(q, v) ==
    /\ request[q].pc = "loaded"
    /\ scenario[request[q].scenario].compared \in {NULL, v}
    /\ \/ stage[v] = "planning" /\ UNCHANGED stage
       \/ NewVoyage(v)
    /\ WriteAdoption(q, v)

-----------------------------------------------------------------------------
(* What the steps do.                                                      *)

\* A voyage appears only by Register and disappears only by Erase.
LEMMA MoveEffect ==
    ASSUME stage \in [Voyages -> Stages], NEW v \in Voyages, NEW from, NEW to \in Stages,
           Move(v, from, to)
    PROVE  /\ stage' \in [Voyages -> Stages]
           /\ stage[v] \in from /\ stage'[v] = to
           /\ \A u \in Voyages \ {v} : stage'[u] = stage[u]
  BY DEF Move

LEMMA MoveOnEffect ==
    ASSUME stage \in [Voyages -> Stages], NEW v \in Voyages, MoveOn(v)
    PROVE  /\ stage' \in [Voyages -> Stages]
           /\ \A u \in Voyages : stage'[u] = "none" <=> stage[u] = "none"
  BY DEF MoveOn, Sail, Finish, CallOff, Hide, Move, Stages

LEMMA RegisterEffect ==
    ASSUME stage \in [Voyages -> Stages], NEW v \in Voyages, NewVoyage(v)
    PROVE  /\ stage' \in [Voyages -> Stages]
           /\ stage[v] = "none" /\ stage'[v] = "planning"
           /\ \A u \in Voyages \ {v} : stage'[u] = stage[u]
           /\ \A q \in Requests :
                  request[q].pc = "loaded" => request[q].copy.voyage # v
  BY DEF NewVoyage, Register, Move, Stages

LEMMA EraseEffect ==
    ASSUME stage \in [Voyages -> Stages], NEW v \in Voyages, Erase(v)
    PROVE  /\ stage' \in [Voyages -> Stages]
           /\ stage'[v] = "none"
           /\ \A u \in Voyages \ {v} : stage'[u] = stage[u]
  BY DEF Erase, Move, Stages

\* What the UPDATE of the previous adoption leaves of a row.
LEMMA ClearedRow ==
    ASSUME Types, NEW v \in Voyages, NEW s \in Scenarios, scenario[s] # NULL
    PROVE  /\ Cleared(v)[s] \in ScenarioRow
           /\ Cleared(v)[s].compared = scenario[s].compared
           /\ Cleared(v)[s].voyage = scenario[s].voyage
           /\ Cleared(v)[s].adopted <=> scenario[s].adopted /\ scenario[s].voyage # v
  <1>1. scenario[s] \in ScenarioRow
    BY DEF Types
  <1>2. Cleared(v)[s] = IF AdoptedBy(scenario[s], v)
                          THEN [scenario[s] EXCEPT !.adopted = FALSE] ELSE scenario[s]
    BY DEF Cleared, Rows
  <1> QED BY <1>1, <1>2 DEF ScenarioRow, AdoptedBy

\* What a committed adoption makes of its own scenario and of the others.
LEMMA WriteEffect ==
    ASSUME Types, NEW q \in Requests, NEW v \in Voyages, NEW s,
           request[q].pc = "loaded", s = request[q].scenario, WriteAdoption(q, v)
    PROVE  /\ s \in Scenarios /\ scenario[s] \in ScenarioRow
           /\ request[q].copy \in Adoption
           /\ scenario' \in [Scenarios -> ScenarioRow \cup {NULL}]
           /\ request' = [request EXCEPT ![q] = Idle]
           /\ scenario'[s] \in ScenarioRow
           /\ scenario'[s].compared = scenario[s].compared
           /\ scenario'[s].voyage =
                  IF request[q].copy.voyage = v THEN scenario[s].voyage ELSE v
           /\ scenario'[s].adopted <=>
                  \/ ~request[q].copy.adopted
                  \/ request[q].copy.voyage = v
                  \/ scenario[s].adopted /\ scenario[s].voyage # v
           /\ \A other \in Scenarios \ {s} : scenario'[other] = Cleared(v)[other]
  <1> DEFINE row == Cleared(v)[s]
             copy == ClearedCopy(request[q].copy, v)
  <1>1. request[q] \in Loaded /\ request[q].copy \in Adoption
    BY DEF Types, Idle, Loaded
  <1>2. s \in Scenarios /\ scenario[s] # NULL /\ scenario[s] \in ScenarioRow
    BY <1>1 DEF Types, Loaded
  <1>3. /\ scenario' = [Cleared(v) EXCEPT ![s] = Flushed(row, copy, v)]
        /\ request' = [request EXCEPT ![q] = Idle]
    BY DEF WriteAdoption
  <1>4. /\ copy \in Adoption
        /\ copy.voyage = request[q].copy.voyage
        /\ copy.adopted <=> request[q].copy.adopted /\ request[q].copy.voyage # v
    BY <1>1 DEF ClearedCopy, AdoptedBy, Adoption
  <1>5. /\ row \in ScenarioRow
        /\ row.compared = scenario[s].compared
        /\ row.voyage = scenario[s].voyage
        /\ row.adopted <=> scenario[s].adopted /\ scenario[s].voyage # v
    BY <1>2, ClearedRow
  <1>6. Cleared(v) \in [Scenarios -> ScenarioRow \cup {NULL}]
    <2>1. \A other \in Scenarios : Cleared(v)[other] \in ScenarioRow \cup {NULL}
      BY ClearedRow DEF Cleared, Rows
    <2> QED BY <2>1 DEF Cleared
  <1> HIDE DEF row, copy
  <1>7. /\ Flushed(row, copy, v) \in ScenarioRow
        /\ Flushed(row, copy, v).compared = row.compared
        /\ Flushed(row, copy, v).voyage = IF copy.voyage = v THEN row.voyage ELSE v
        /\ Flushed(row, copy, v).adopted <=> ~copy.adopted \/ row.adopted
    BY <1>4, <1>5 DEF Flushed, ScenarioRow, Adoption
  <1>8. /\ scenario'[s] = Flushed(row, copy, v)
        /\ scenario' \in [Scenarios -> ScenarioRow \cup {NULL}]
        /\ \A other \in Scenarios \ {s} : scenario'[other] = Cleared(v)[other]
    BY <1>2, <1>3, <1>6, <1>7
  <1> QED BY <1>1, <1>2, <1>3, <1>4, <1>5, <1>7, <1>8

\* What a real delete does to the scenarios.
LEMMA EraseRows ==
    ASSUME Types, NEW v \in Voyages, EraseVoyage(v)
    PROVE  /\ scenario' \in [Scenarios -> ScenarioRow \cup {NULL}]
           /\ request' = request
           /\ \A s \in Scenarios :
                 /\ scenario'[s] = NULL <=> scenario[s] = NULL
                 /\ scenario[s] # NULL =>
                       /\ scenario[s].compared # v
                       /\ scenario'[s] \in ScenarioRow
                       /\ scenario'[s].compared = scenario[s].compared
                       /\ scenario'[s].adopted = scenario[s].adopted
                       /\ scenario'[s].voyage =
                             IF scenario[s].voyage = v THEN NULL ELSE scenario[s].voyage
  <1>1. ASSUME NEW s \in Scenarios, scenario[s] # NULL
        PROVE  /\ scenario[s].compared # v
               /\ scenario'[s] \in ScenarioRow
               /\ scenario'[s].compared = scenario[s].compared
               /\ scenario'[s].adopted = scenario[s].adopted
               /\ scenario'[s].voyage =
                     IF scenario[s].voyage = v THEN NULL ELSE scenario[s].voyage
    <2>1. scenario[s] \in ScenarioRow
      BY <1>1 DEF Types
    <2>2. scenario'[s] = IF scenario[s].voyage = v
                           THEN [scenario[s] EXCEPT !.voyage = NULL] ELSE scenario[s]
      BY <1>1 DEF EraseVoyage, Rows
    <2>3. scenario[s].compared # v
      BY <1>1 DEF EraseVoyage, Rows
    <2> QED BY <2>1, <2>2, <2>3 DEF ScenarioRow
  <1>2. \A s \in Scenarios : scenario[s] = NULL => scenario'[s] = NULL
    BY DEF EraseVoyage, Rows
  <1>3. \A s \in Scenarios : scenario'[s] \in ScenarioRow \cup {NULL}
    BY <1>1, <1>2
  <1> QED BY <1>1, <1>2, <1>3, RowAssumption DEF EraseVoyage

\* A step adopts, erases a voyage, or leaves every row there is.
StepKind ==
    \/ \E q \in Requests, v \in Voyages : Adopts(q, v)
    \/ \E v \in Voyages : EraseVoyage(v)
    \/ \E s \in Scenarios, v \in Voyages \cup {NULL} : Compare(s, v)
    \/ \E q \in Requests, s \in Scenarios : Load(q, s)
    \/ \E q \in Requests : Refuse(q)
    \/ \E v \in Voyages : OpenVoyage(v)
    \/ \E v \in Voyages : VoyageMovesOn(v)
    \/ UNCHANGED varsSA

LEMMA StepKinds ==
    ASSUME [NextSA]_varsSA
    PROVE  StepKind
  <1>1. ASSUME NEW q \in Requests, NEW v \in Voyages, AdoptIntoVoyage(q, v)
        PROVE  Adopts(q, v)
    BY <1>1 DEF AdoptIntoVoyage, Adopts
  <1>2. ASSUME NEW q \in Requests, NEW source \in Voyages, NEW v \in Voyages,
               AdoptIntoNewVoyage(q, source, v)
        PROVE  Adopts(q, v)
    BY <1>2 DEF AdoptIntoNewVoyage, Adopts
  <1> QED BY <1>1, <1>2 DEF NextSA, StepKind

-----------------------------------------------------------------------------
(* Types.                                                                  *)

\* A row that a comparison stores.
LEMMA CompareEffect ==
    ASSUME Types, NEW s \in Scenarios, NEW v \in Voyages \cup {NULL}, Compare(s, v)
    PROVE  /\ scenario' \in [Scenarios -> ScenarioRow \cup {NULL}]
           /\ scenario[s] = NULL /\ (v # NULL => stage[v] # "none")
           /\ scenario'[s] = [adopted |-> FALSE, voyage |-> NULL, compared |-> v]
           /\ \A other \in Scenarios \ {s} : scenario'[other] = scenario[other]
           /\ UNCHANGED <<stage, request>>
  <1>1. [adopted |-> FALSE, voyage |-> NULL, compared |-> v] \in ScenarioRow
    BY DEF ScenarioRow
  <1> QED BY <1>1 DEF Compare, Types

\* What a request reads.
LEMMA LoadEffect ==
    ASSUME Types, NEW q \in Requests, NEW s \in Scenarios, Load(q, s)
    PROVE  /\ scenario[s] \in ScenarioRow /\ scenario[s] # NULL
           /\ request[q] = Idle /\ request'[q] \in Loaded
           /\ request'[q].scenario = s
           /\ request'[q].copy.adopted = scenario[s].adopted
           /\ request'[q].copy.voyage = scenario[s].voyage
           /\ \A r \in Requests \ {q} : request'[r] = request[r]
           /\ request' \in [Requests -> {Idle} \cup Loaded]
           /\ UNCHANGED <<stage, scenario>>
  <1>1. scenario[s] \in ScenarioRow /\ scenario[s] # NULL
    BY DEF Types, Load, Rows
  <1>2. [adopted |-> scenario[s].adopted, voyage |-> scenario[s].voyage] \in Adoption
    BY <1>1 DEF ScenarioRow, Adoption
  <1>3. request'[q] = [pc |-> "loaded", scenario |-> s,
                       copy |-> [adopted |-> scenario[s].adopted,
                                 voyage |-> scenario[s].voyage]]
    BY DEF Load, Types
  <1>4. request'[q] \in Loaded
    BY <1>2, <1>3 DEF Loaded
  <1>5. \A r \in Requests \ {q} : request'[r] = request[r]
    BY DEF Load, Types
  <1> QED BY <1>1, <1>3, <1>4, <1>5 DEF Load, Types

\* Every step but Load leaves a request as it is or ends it.
LEMMA RequestsEndOrStay ==
    ASSUME Types, StepKind, ~ \E q \in Requests, s \in Scenarios : Load(q, s)
    PROVE  /\ request' \in [Requests -> {Idle} \cup Loaded]
           /\ \A r \in Requests : request'[r] \in {request[r], Idle}
  BY DEF Types, StepKind, Adopts, WriteAdoption, EraseVoyage, Compare, Refuse,
         OpenVoyage, VoyageMovesOn, varsSA

LEMMA TypesStep ==
    ASSUME Types, [NextSA]_varsSA
    PROVE  Types'
  <1> DEFINE Rest == /\ stage' \in [Voyages -> Stages]
                     /\ scenario' \in [Scenarios -> ScenarioRow \cup {NULL}]
                     /\ \A s \in Scenarios : scenario[s] # NULL => scenario'[s] # NULL
  <1>1. ASSUME NEW q \in Requests, NEW v \in Voyages, Adopts(q, v)
        PROVE  Rest
    <2>1. stage' \in [Voyages -> Stages]
      BY <1>1, RegisterEffect DEF Types, Adopts
    <2>2. PICK s : s = request[q].scenario
      OBVIOUS
    <2>3. /\ scenario' \in [Scenarios -> ScenarioRow \cup {NULL}]
          /\ scenario'[s] \in ScenarioRow
          /\ \A other \in Scenarios \ {s} : scenario'[other] = Cleared(v)[other]
      BY <1>1, <2>2, WriteEffect DEF Adopts
    <2>4. \A other \in Scenarios : scenario[other] # NULL => Cleared(v)[other] # NULL
      BY ClearedRow, RowAssumption
    <2> QED BY <2>1, <2>3, <2>4, RowAssumption
  <1>2. ASSUME NEW v \in Voyages, EraseVoyage(v)
        PROVE  Rest
    <2>1. stage' \in [Voyages -> Stages]
      BY <1>2, EraseEffect DEF Types, EraseVoyage
    <2> QED BY <1>2, <2>1, EraseRows
  <1>3. ASSUME NEW s \in Scenarios, NEW v \in Voyages \cup {NULL}, Compare(s, v)
        PROVE  Rest
    BY <1>3, CompareEffect, RowAssumption DEF Types
  <1>4. ASSUME \/ \E q \in Requests, s \in Scenarios : Load(q, s)
               \/ \E q \in Requests : Refuse(q)
               \/ UNCHANGED varsSA
        PROVE  Rest
    BY <1>4 DEF Types, Load, Refuse, varsSA
  <1>5. ASSUME NEW v \in Voyages, OpenVoyage(v) \/ VoyageMovesOn(v)
        PROVE  Rest
    BY <1>5, RegisterEffect, MoveOnEffect DEF Types, OpenVoyage, VoyageMovesOn
  <1> HIDE DEF Rest
  <1>6. StepKind
    BY StepKinds
  <1>7. Rest
    BY <1>1, <1>2, <1>3, <1>4, <1>5, <1>6 DEF StepKind
  <1>8. CASE \E q \in Requests, s \in Scenarios : Load(q, s)
    <2>1. PICK q \in Requests, s \in Scenarios : Load(q, s)
      BY <1>8
    <2>2. ASSUME NEW r \in Requests, request'[r].pc = "loaded"
          PROVE  scenario'[request'[r].scenario] # NULL
      BY <2>1, <2>2, LoadEffect DEF Types
    <2> QED BY <1>7, <2>1, <2>2, LoadEffect DEF Types, Rest
  <1>9. CASE ~ \E q \in Requests, s \in Scenarios : Load(q, s)
    <2>1. /\ request' \in [Requests -> {Idle} \cup Loaded]
          /\ \A r \in Requests : request'[r] \in {request[r], Idle}
      BY <1>6, <1>9, RequestsEndOrStay
    <2>2. ASSUME NEW r \in Requests, request'[r].pc = "loaded"
          PROVE  scenario'[request'[r].scenario] # NULL
      <3>1. request'[r] = request[r] /\ request[r] \in Loaded
        BY <2>1, <2>2 DEF Types, Idle
      <3> QED BY <1>7, <3>1, <2>2 DEF Types, Rest, Loaded
    <2> QED BY <1>7, <2>1, <2>2 DEF Types, Rest
  <1> QED BY <1>8, <1>9

\* The types hold throughout, however requests cross.
THEOREM AdoptionTypes == SpecSA => []Types
  <1>1. InitSA => Types
    BY DEF InitSA, InitStages, Types, Stages, Idle
  <1>2. Types /\ [NextSA]_varsSA => Types'
    BY TypesStep
  <1> QED BY <1>1, <1>2, PTL DEF SpecSA

-----------------------------------------------------------------------------
(* Where a scenario may be adopted, however requests cross.                *)

\* A scenario that was compared for a voyage is attached to that voyage or
\* to none, and that voyage is there.
AttachedWhereCompared ==
    \A s \in Rows :
        scenario[s].compared # NULL =>
            /\ stage[scenario[s].compared] # "none"
            /\ scenario[s].voyage \in {NULL, scenario[s].compared}
            /\ scenario[s].adopted => scenario[s].voyage = scenario[s].compared

\* A request that read such a scenario as attached finds it attached still,
\* so that an UPDATE which leaves voyage_id out does no harm.
CopyAttached ==
    \A q \in Requests :
        LET row == scenario[request[q].scenario]
        IN  request[q].pc = "loaded" /\ row.compared # NULL
                /\ request[q].copy.voyage # NULL =>
                    request[q].copy.voyage = row.voyage

InvCompared == Types /\ AttachedWhereCompared /\ CopyAttached

\* An invariant over the rows and over what requests have read of them holds
\* if it does for every row and every request.
LEMMA ComparedKept ==
    ASSUME InvCompared, Types',
           \A s \in Scenarios : scenario'[s] # NULL =>
               \/ /\ scenario[s] # NULL
                  /\ scenario'[s].compared = scenario[s].compared
                  /\ scenario[s].compared # NULL =>
                        /\ stage'[scenario[s].compared] # "none"
                        /\ \/ scenario'[s].voyage = scenario[s].voyage
                           \/ /\ scenario'[s].voyage = scenario[s].compared
                              /\ scenario[s].voyage = NULL
                        /\ scenario'[s].adopted =>
                              \/ scenario[s].adopted
                              \/ scenario'[s].voyage = scenario[s].compared
               \/ /\ scenario[s] = NULL
                  /\ scenario'[s].voyage = NULL /\ ~scenario'[s].adopted
                  /\ scenario'[s].compared # NULL => stage'[scenario'[s].compared] # "none",
           \A q \in Requests :
               \/ request'[q] \in {request[q], Idle}
               \/ /\ request'[q] \in Loaded
                  /\ request'[q].copy.voyage = scenario'[request'[q].scenario].voyage
    PROVE  InvCompared'
  <1>1. AttachedWhereCompared'
    <2> SUFFICES ASSUME NEW s \in Scenarios, scenario'[s] # NULL,
                        scenario'[s].compared # NULL
                 PROVE  /\ stage'[scenario'[s].compared] # "none"
                        /\ scenario'[s].voyage \in {NULL, scenario'[s].compared}
                        /\ scenario'[s].adopted =>
                              scenario'[s].voyage = scenario'[s].compared
      BY DEF AttachedWhereCompared, Rows
    <2> QED BY DEF InvCompared, AttachedWhereCompared, Rows
  <1>2. CopyAttached'
    <2> SUFFICES ASSUME NEW q \in Requests, request'[q].pc = "loaded",
                        scenario'[request'[q].scenario].compared # NULL,
                        request'[q].copy.voyage # NULL
                 PROVE  request'[q].copy.voyage = scenario'[request'[q].scenario].voyage
      BY DEF CopyAttached
    <2>1. CASE request'[q] = request[q]
      <3>1. request[q].scenario \in Scenarios /\ scenario[request[q].scenario] # NULL
            /\ scenario'[request[q].scenario] # NULL
        BY <2>1 DEF InvCompared, Types, Idle, Loaded
      <3> QED BY <2>1, <3>1 DEF InvCompared, CopyAttached
    <2>2. CASE request'[q] # request[q]
      BY <2>2 DEF Idle
    <2> QED BY <2>1, <2>2
  <1> QED BY <1>1, <1>2 DEF InvCompared

LEMMA ComparedStep ==
    ASSUME InvCompared, [NextSA]_varsSA
    PROVE  InvCompared'
  <1> USE DEF InvCompared
  <1>1. Types'
    BY TypesStep
  <1>2. StepKind
    BY StepKinds
  <1>3. \A s \in Scenarios :
            scenario[s] # NULL /\ scenario[s].compared # NULL =>
                /\ scenario[s].compared \in Voyages
                /\ stage[scenario[s].compared] # "none"
    BY DEF Types, ScenarioRow, AttachedWhereCompared, Rows
  <1>4. CASE \E q \in Requests, v \in Voyages : Adopts(q, v)
    <2>1. PICK q \in Requests, v \in Voyages : Adopts(q, v)
      BY <1>4
    <2>2. PICK s : s = request[q].scenario
      OBVIOUS
    <2>3. /\ request[q].pc = "loaded" /\ scenario[s].compared \in {NULL, v}
          /\ WriteAdoption(q, v)
      BY <2>1, <2>2 DEF Adopts
    <2>4. /\ s \in Scenarios /\ scenario[s] \in ScenarioRow /\ scenario[s] # NULL
          /\ request' = [request EXCEPT ![q] = Idle]
          /\ scenario'[s].compared = scenario[s].compared
          /\ scenario'[s].voyage =
                 IF request[q].copy.voyage = v THEN scenario[s].voyage ELSE v
          /\ \A other \in Scenarios \ {s} : scenario'[other] = Cleared(v)[other]
      BY <2>2, <2>3, WriteEffect, RowAssumption
    <2>5. \A u \in Voyages : stage[u] # "none" => stage'[u] # "none"
      BY <2>1, RegisterEffect DEF Adopts, Types
    <2>6. \A other \in Scenarios \ {s} :
              /\ scenario'[other] # NULL => scenario[other] # NULL
              /\ scenario[other] # NULL =>
                    /\ scenario'[other].compared = scenario[other].compared
                    /\ scenario'[other].voyage = scenario[other].voyage
                    /\ scenario'[other].adopted => scenario[other].adopted
      <3>1. \A other \in Scenarios : scenario[other] = NULL => Cleared(v)[other] = NULL
        BY DEF Cleared, Rows
      <3> QED BY <2>4, <3>1, ClearedRow
    <2>7. scenario[s].compared # NULL =>
              /\ scenario'[s].voyage = v /\ v = scenario[s].compared
              /\ scenario[s].voyage \in {v, NULL}
      <3>1. scenario[s].compared # NULL /\ request[q].copy.voyage = v =>
                scenario[s].voyage = v
        BY <2>2, <2>3, NullIsNoVoyage DEF CopyAttached
      <3> QED BY <2>3, <2>4, <3>1 DEF AttachedWhereCompared, Rows
    <2>8. \A r \in Requests : request'[r] \in {request[r], Idle}
      BY <2>4 DEF Types
    <2> QED BY <1>1, <1>3, <2>4, <2>5, <2>6, <2>7, <2>8, ComparedKept
  <1>5. CASE \E v \in Voyages : EraseVoyage(v)
    <2>1. PICK v \in Voyages : EraseVoyage(v)
      BY <1>5
    <2>2. \A u \in Voyages \ {v} : stage'[u] = stage[u]
      BY <2>1, EraseEffect DEF EraseVoyage, Types
    <2>3. \A s \in Scenarios : scenario[s] # NULL /\ scenario[s].compared # NULL =>
              scenario'[s].voyage = scenario[s].voyage
      BY <2>1, EraseRows, NullIsNoVoyage DEF AttachedWhereCompared, Rows
    <2>4. \A s \in Scenarios : scenario'[s] # NULL =>
              /\ scenario[s] # NULL
              /\ scenario'[s].compared = scenario[s].compared
              /\ scenario'[s].adopted => scenario[s].adopted
              /\ scenario[s].compared # v
      BY <2>1, EraseRows
    <2>5. \A s \in Scenarios :
              scenario[s] # NULL /\ scenario[s].compared # NULL /\ scenario[s].compared # v =>
                  stage'[scenario[s].compared] # "none"
      BY <1>3, <2>2
    <2>6. request' = request
      BY <2>1, EraseRows
    <2> QED BY <1>1, <2>3, <2>4, <2>5, <2>6, ComparedKept
  <1>6. CASE \E s \in Scenarios, v \in Voyages \cup {NULL} : Compare(s, v)
    <2>1. PICK s \in Scenarios, v \in Voyages \cup {NULL} : Compare(s, v)
      BY <1>6
    <2>2. /\ scenario[s] = NULL /\ (v # NULL => stage'[v] # "none")
          /\ scenario'[s].compared = v
          /\ scenario'[s].voyage = NULL /\ ~scenario'[s].adopted
          /\ \A other \in Scenarios \ {s} : scenario'[other] = scenario[other]
          /\ UNCHANGED <<stage, request>>
      <3>1. /\ scenario[s] = NULL /\ (v # NULL => stage[v] # "none")
            /\ scenario'[s] = [adopted |-> FALSE, voyage |-> NULL, compared |-> v]
            /\ \A other \in Scenarios \ {s} : scenario'[other] = scenario[other]
            /\ UNCHANGED <<stage, request>>
        BY <2>1, CompareEffect
      <3>2. scenario'[s].adopted = FALSE
        BY <3>1
      <3> QED BY <3>1, <3>2
    <2> QED BY <1>1, <1>3, <2>2, ComparedKept
  <1>7. CASE \E q \in Requests, s \in Scenarios : Load(q, s)
    BY <1>1, <1>3, <1>7, LoadEffect, ComparedKept
  <1>8. CASE \/ \E q \in Requests : Refuse(q)
             \/ UNCHANGED varsSA
    <2>1. UNCHANGED <<stage, scenario>> /\ \A r \in Requests : request'[r] \in {request[r], Idle}
      BY <1>8 DEF Refuse, varsSA, Types
    <2> QED BY <1>1, <1>3, <2>1, ComparedKept
  <1>9. CASE \/ \E v \in Voyages : OpenVoyage(v)
             \/ \E v \in Voyages : VoyageMovesOn(v)
    <2>1. /\ UNCHANGED <<scenario, request>>
          /\ \A u \in Voyages : stage[u] # "none" => stage'[u] # "none"
      BY <1>9, RegisterEffect, MoveOnEffect DEF OpenVoyage, VoyageMovesOn, Types
    <2> QED BY <1>1, <1>3, <2>1, ComparedKept
  <1> QED BY <1>2, <1>4, <1>5, <1>6, <1>7, <1>8, <1>9 DEF StepKind

\* However requests cross, a scenario compared for a voyage is adopted by
\* that voyage and no other, and the voyage stays in the database.
THEOREM AdoptedWhereComparedHolds == SpecSA => []AdoptedWhereCompared
  <1>1. InitSA => InvCompared
    BY DEF InitSA, InitStages, InvCompared, Types, Stages, Idle, AttachedWhereCompared,
           CopyAttached, Rows
  <1>2. InvCompared /\ [NextSA]_varsSA => InvCompared'
    BY ComparedStep
  <1>3. InvCompared => AdoptedWhereCompared
    BY DEF InvCompared, AttachedWhereCompared, AdoptedWhereCompared
  <1> QED BY <1>1, <1>2, <1>3, PTL DEF SpecSA

-----------------------------------------------------------------------------
(* Requests for one scenario that follow one another, while requests for   *)
(* others cross: S is any set of scenarios.                                *)

\* A scenario of S has at most one request under way.
NoCrossing(S) ==
    \A q, r \in Requests :
        /\ q # r
        /\ request[q].pc = "loaded" /\ request[q].scenario \in S
        /\ request[r].pc = "loaded"
        => request[q].scenario # request[r].scenario

\* The voyage a request for a scenario of S has read is the one the scenario
\* is attached to, unless that voyage has been erased since.
CopyVoyage(S) ==
    \A q \in Requests :
        LET row == scenario[request[q].scenario]
            copy == request[q].copy
        IN  request[q].pc = "loaded" /\ request[q].scenario \in S =>
                \/ row.voyage = copy.voyage
                \/ row.voyage = NULL /\ copy.voyage \in Voyages /\ stage[copy.voyage] = "none"

\* The adoption of a scenario of S by v attaches it to v.
LEMMA AdoptionAttaches ==
    ASSUME NEW S, Types, CopyVoyage(S), NEW q \in Requests, NEW v \in Voyages, NEW s \in S,
           s = request[q].scenario, Adopts(q, v)
    PROVE  scenario'[s].voyage = v
  <1>1. scenario'[s].voyage = IF request[q].copy.voyage = v THEN scenario[s].voyage ELSE v
    BY WriteEffect DEF Adopts
  <1>2. request[q].copy.voyage = v => scenario[s].voyage = v
    BY RegisterEffect DEF Adopts, CopyVoyage, Types
  <1> QED BY <1>1, <1>2

\* Whatever the requests for other scenarios do.
LEMMA CopyVoyageStep ==
    ASSUME NEW S, Types, Types', CopyVoyage(S), NoCrossing(S), [NextSA]_varsSA
    PROVE  CopyVoyage(S)'
  <1> SUFFICES ASSUME NEW r \in Requests, request'[r].pc = "loaded",
                      request'[r].scenario \in S
               PROVE  LET row == scenario'[request'[r].scenario]
                          copy == request'[r].copy
                      IN  \/ row.voyage = copy.voyage
                          \/ /\ row.voyage = NULL /\ copy.voyage \in Voyages
                             /\ stage'[copy.voyage] = "none"
    BY DEF CopyVoyage
  <1>1. StepKind
    BY StepKinds
  <1>2. CASE \E q \in Requests, s \in Scenarios : Load(q, s)
    <2>1. PICK q \in Requests, s \in Scenarios : Load(q, s)
      BY <1>2
    <2>2. CASE r = q
      BY <2>1, <2>2, LoadEffect
    <2>3. CASE r # q
      BY <2>1, <2>3, LoadEffect DEF CopyVoyage
    <2> QED BY <2>2, <2>3
  <1>3. CASE ~ \E q \in Requests, s \in Scenarios : Load(q, s)
    <2>1. /\ request'[r] = request[r] /\ request[r] \in Loaded
          /\ request[r].copy.voyage \in Voyages \cup {NULL}
      BY <1>1, <1>3, RequestsEndOrStay DEF Types, Idle, Loaded, Adoption
    <2>2. PICK t : t = request[r].scenario
      OBVIOUS
    <2>3. /\ t \in Scenarios /\ scenario[t] # NULL
          /\ \/ scenario[t].voyage = request[r].copy.voyage
             \/ /\ scenario[t].voyage = NULL
                /\ request[r].copy.voyage \in Voyages
                /\ stage[request[r].copy.voyage] = "none"
      BY <2>1, <2>2 DEF Types, CopyVoyage, Loaded
    <2>4. SUFFICES \/ /\ scenario'[t].voyage = scenario[t].voyage
                      /\ \A u \in Voyages :
                             u = request[r].copy.voyage /\ stage[u] = "none" =>
                                 stage'[u] = "none"
                   \/ /\ scenario'[t].voyage = NULL
                      /\ request[r].copy.voyage \in Voyages
                      /\ stage'[request[r].copy.voyage] = "none"
      BY <2>1, <2>2, <2>3, <2>4
    <2>5. CASE \E q \in Requests, v \in Voyages : Adopts(q, v)
      <3>1. PICK q \in Requests, v \in Voyages : Adopts(q, v)
        BY <2>5
      <3>2. PICK s : s = request[q].scenario
        OBVIOUS
      <3>3. /\ request' = [request EXCEPT ![q] = Idle]
            /\ \A other \in Scenarios \ {s} : scenario'[other] = Cleared(v)[other]
        BY <3>1, <3>2, WriteEffect DEF Adopts
      <3>4. t # s
        BY <2>1, <2>2, <3>1, <3>2, <3>3 DEF Types, NoCrossing, Adopts, Idle, Loaded
      <3>5. scenario'[t].voyage = scenario[t].voyage
        BY <2>3, <3>3, <3>4, ClearedRow
      <3>6. \A u \in Voyages : u = request[r].copy.voyage /\ stage[u] = "none" =>
                stage'[u] = "none"
        BY <2>1, <3>1, RegisterEffect DEF Adopts, Types, Loaded
      <3> QED BY <3>5, <3>6
    <2>6. CASE \E v \in Voyages : EraseVoyage(v)
      <3>1. PICK v \in Voyages : EraseVoyage(v)
        BY <2>6
      <3>2. stage'[v] = "none" /\ \A u \in Voyages \ {v} : stage'[u] = stage[u]
        BY <3>1, EraseEffect DEF EraseVoyage, Types
      <3>3. scenario'[t].voyage = IF scenario[t].voyage = v THEN NULL ELSE scenario[t].voyage
        BY <2>3, <3>1, EraseRows
      <3> QED BY <2>3, <3>2, <3>3, NullIsNoVoyage
    <2>7. CASE \E s \in Scenarios, v \in Voyages \cup {NULL} : Compare(s, v)
      BY <2>3, <2>7, CompareEffect
    <2>8. CASE (\E q \in Requests : Refuse(q)) \/ UNCHANGED varsSA
      BY <2>8 DEF Refuse, varsSA
    <2>9. CASE \E v \in Voyages : OpenVoyage(v)
      BY <2>1, <2>9, RegisterEffect DEF OpenVoyage, Types, Loaded
    <2>10. CASE \E v \in Voyages : VoyageMovesOn(v)
      BY <2>10, MoveOnEffect DEF VoyageMovesOn, Types
    <2> QED BY <1>1, <1>3, <2>5, <2>6, <2>7, <2>8, <2>9, <2>10 DEF StepKind
  <1> QED BY <1>2, <1>3

\* The scenarios of S that a voyage has adopted.
AdoptedAmong(S, v) == AdoptedScenarios(v) \cap S

\* What the scenarios of S adopted by a voyage become.
LEMMA AdoptedAfter ==
    ASSUME NEW S, Types, CopyVoyage(S), [NextSA]_varsSA, NEW u \in Voyages
    PROVE  \/ AdoptedAmong(S, u)' \subseteq AdoptedAmong(S, u)
           \/ \E s \in Scenarios : AdoptedAmong(S, u)' \subseteq {s}
  <1> SUFFICES ASSUME ~ (AdoptedAmong(S, u)' \subseteq AdoptedAmong(S, u))
               PROVE  \E s \in Scenarios : AdoptedAmong(S, u)' \subseteq {s}
    OBVIOUS
  <1>1. StepKind
    BY StepKinds
  <1>2. ~ \E v \in Voyages : EraseVoyage(v)
    <2>1. SUFFICES ASSUME NEW v \in Voyages, EraseVoyage(v)
                   PROVE  FALSE
      OBVIOUS
    <2>2. \A s \in Scenarios :
              /\ scenario'[s] # NULL => scenario[s] # NULL
              /\ scenario[s] # NULL =>
                    /\ scenario'[s].adopted = scenario[s].adopted
                    /\ scenario'[s].voyage = u => scenario[s].voyage = u
      BY <2>1, EraseRows, NullIsNoVoyage
    <2> QED BY <2>2 DEF AdoptedAmong, AdoptedScenarios, AdoptedBy, Rows
  <1>3. ~ \E s \in Scenarios, v \in Voyages \cup {NULL} : Compare(s, v)
    <2>1. SUFFICES ASSUME NEW s \in Scenarios, NEW v \in Voyages \cup {NULL}, Compare(s, v)
                   PROVE  FALSE
      OBVIOUS
    <2>2. /\ scenario'[s] = [adopted |-> FALSE, voyage |-> NULL, compared |-> v]
          /\ \A other \in Scenarios \ {s} : scenario'[other] = scenario[other]
      BY <2>1, CompareEffect
    <2>3. scenario'[s].voyage = NULL
      BY <2>2
    <2> QED BY <2>2, <2>3, NullIsNoVoyage DEF AdoptedAmong, AdoptedScenarios, AdoptedBy, Rows
  <1>4. ~ UNCHANGED scenario
    BY DEF AdoptedAmong, AdoptedScenarios, AdoptedBy, Rows
  <1>5. PICK q \in Requests, v \in Voyages : Adopts(q, v)
    BY <1>1, <1>2, <1>3, <1>4 DEF StepKind, Load, Refuse, OpenVoyage, VoyageMovesOn, varsSA
  <1>6. PICK s : s = request[q].scenario
    OBVIOUS
  <1>7. /\ s \in Scenarios
        /\ \A other \in Scenarios \ {s} : scenario'[other] = Cleared(v)[other]
    BY <1>5, <1>6, WriteEffect DEF Adopts
  <1>8. s \in S => scenario'[s].voyage = v
    BY <1>5, <1>6, AdoptionAttaches
  <1>9. \A other \in Scenarios \ {s} :
            other \in AdoptedScenarios(u)' => other \in AdoptedScenarios(u) /\ u # v
    <2>1. \A other \in Scenarios : scenario[other] = NULL => Cleared(v)[other] = NULL
      BY DEF Cleared, Rows
    <2>2. \A other \in Scenarios \ {s} :
              /\ scenario'[other] # NULL => scenario[other] # NULL
              /\ scenario[other] # NULL =>
                    /\ scenario'[other].voyage = scenario[other].voyage
                    /\ scenario'[other].adopted =>
                          scenario[other].adopted /\ scenario[other].voyage # v
      BY <1>7, <2>1, ClearedRow
    <2> QED BY <2>2 DEF AdoptedScenarios, AdoptedBy, Rows
  <1>10. s \in AdoptedAmong(S, u)'
    BY <1>9 DEF AdoptedAmong, AdoptedScenarios, Rows
  <1>11. u = v
    BY <1>8, <1>10 DEF AdoptedAmong, AdoptedScenarios, AdoptedBy
  <1>12. AdoptedAmong(S, u)' \subseteq {s}
    BY <1>9, <1>11 DEF AdoptedAmong, AdoptedScenarios, Rows
  <1> QED BY <1>7, <1>12

\* A voyage has adopted at most one scenario of S.
AtMostOneAmong(S) ==
    \A v \in Voyages : \A s, other \in AdoptedAmong(S, v) : s = other

InvOne(S) == Types /\ CopyVoyage(S) /\ AtMostOneAmong(S)

\* It does when nothing has been compared yet,
LEMMA InvOneInit ==
    ASSUME NEW S, InitSA
    PROVE  InvOne(S)
  BY DEF InitSA, InitStages, InvOne, Types, Stages, Idle, CopyVoyage,
         AtMostOneAmong, AdoptedAmong, AdoptedScenarios, Rows

\* and after every step.
LEMMA InvOneStep ==
    ASSUME NEW S, InvOne(S), NoCrossing(S), [NextSA]_varsSA
    PROVE  InvOne(S)'
  <1>1. Types' /\ CopyVoyage(S)'
    BY TypesStep, CopyVoyageStep DEF InvOne
  <1>2. AtMostOneAmong(S)'
    <2> SUFFICES ASSUME NEW u \in Voyages, NEW s \in AdoptedAmong(S, u)',
                        NEW other \in AdoptedAmong(S, u)'
                 PROVE  s = other
      BY DEF AtMostOneAmong
    <2> QED BY AdoptedAfter DEF InvOne, AtMostOneAmong
  <1> QED BY <1>1, <1>2 DEF InvOne

\* Scenarios whose requests never cross keep their order to themselves: no
\* voyage has two of them adopted, however requests for others cross.  What
\* an UPDATE leaves out of another scenario's row harms that row alone.
THEOREM AtMostOneAmongHolds ==
    ASSUME NEW S
    PROVE  SpecSA /\ []NoCrossing(S) => []AtMostOneAmong(S)
  <1>1. InitSA => InvOne(S)
    BY InvOneInit
  <1>2. InvOne(S) /\ NoCrossing(S) /\ [NextSA]_varsSA => InvOne(S)'
    BY InvOneStep
  <1>3. InvOne(S) => AtMostOneAmong(S)
    BY DEF InvOne
  <1> QED BY <1>1, <1>2, <1>3, PTL DEF SpecSA

\* While no two requests for one scenario cross, a voyage has at most one
\* adopted scenario: an UPDATE that leaves voyage_id out leaves the voyage of
\* the request, which the clearing UPDATE has just freed.
THEOREM AtMostOneAdoptedHolds == SpecSA /\ []NoCrossing(Scenarios) => []AtMostOneAdopted
  <1>1. InitSA => InvOne(Scenarios)
    BY InvOneInit
  <1>2. InvOne(Scenarios) /\ NoCrossing(Scenarios) /\ [NextSA]_varsSA => InvOne(Scenarios)'
    BY InvOneStep
  <1>3. InvOne(Scenarios) => AtMostOneAdopted
    BY DEF InvOne, AtMostOneAmong, AdoptedAmong, AtMostOneAdopted, AdoptedScenarios, Rows
  <1> QED BY <1>1, <1>2, <1>3, PTL DEF SpecSA

-----------------------------------------------------------------------------
(* Adoptions that follow one another.                                      *)

\* No two requests are under way together.
OneAtATime ==
    \A q, r \in Requests :
        request[q].pc = "loaded" /\ request[r].pc = "loaded" => q = r

\* A request knows whether its scenario is adopted.
CopyAdopted ==
    \A q \in Requests :
        request[q].pc = "loaded" /\ request[q].copy.adopted =>
            scenario[request[q].scenario].adopted

InvSerial == Types /\ CopyVoyage(Scenarios) /\ CopyAdopted

LEMMA CopyAdoptedStep ==
    ASSUME Types, CopyAdopted, OneAtATime, [NextSA]_varsSA
    PROVE  CopyAdopted'
  <1> SUFFICES ASSUME NEW r \in Requests, request'[r].pc = "loaded", request'[r].copy.adopted
               PROVE  scenario'[request'[r].scenario].adopted
    BY DEF CopyAdopted
  <1>1. StepKind
    BY StepKinds
  <1>2. CASE \E q \in Requests, s \in Scenarios : Load(q, s)
    <2>1. PICK q \in Requests, s \in Scenarios : Load(q, s)
      BY <1>2
    <2>2. CASE r = q
      BY <2>1, <2>2, LoadEffect
    <2>3. CASE r # q
      BY <2>1, <2>3, LoadEffect DEF CopyAdopted
    <2> QED BY <2>2, <2>3
  <1>3. CASE ~ \E q \in Requests, s \in Scenarios : Load(q, s)
    <2>1. request'[r] = request[r] /\ request[r] \in Loaded
      BY <1>1, <1>3, RequestsEndOrStay DEF Types, Idle
    <2>2. PICK t : t = request[r].scenario
      OBVIOUS
    <2>3. t \in Scenarios /\ scenario[t] # NULL /\ scenario[t].adopted
      BY <2>1, <2>2 DEF Types, CopyAdopted, Loaded
    <2>4. ~ \E q \in Requests, v \in Voyages : Adopts(q, v)
      <3>1. SUFFICES ASSUME NEW q \in Requests, NEW v \in Voyages, Adopts(q, v)
                     PROVE  FALSE
        OBVIOUS
      <3>2. request' = [request EXCEPT ![q] = Idle] /\ request[q].pc = "loaded"
        BY <3>1 DEF Adopts, WriteAdoption
      <3>3. q = r
        BY <2>1, <3>2 DEF OneAtATime, Loaded
      <3> QED BY <3>2, <3>3 DEF Types, Idle
    <2>5. scenario'[t].adopted
      <3>1. CASE \E v \in Voyages : EraseVoyage(v)
        BY <2>3, <3>1, EraseRows
      <3>2. CASE \E s \in Scenarios, v \in Voyages \cup {NULL} : Compare(s, v)
        BY <2>3, <3>2, CompareEffect
      <3>3. CASE UNCHANGED scenario
        BY <2>3, <3>3
      <3> QED BY <1>1, <1>3, <2>4, <3>1, <3>2, <3>3
              DEF StepKind, Refuse, OpenVoyage, VoyageMovesOn, varsSA
    <2> QED BY <2>1, <2>2, <2>5
  <1> QED BY <1>2, <1>3

\* While adoptions follow one another, each that commits leaves exactly its
\* own scenario adopted by the target and takes it from any other voyage.
THEOREM AdoptionTakesEffectHolds == SpecSA /\ []OneAtATime => AdoptionTakesEffect
  <1>1. InitSA => InvSerial
    BY DEF InitSA, InitStages, InvSerial, Types, Stages, Idle, CopyVoyage, CopyAdopted
  <1>2. OneAtATime => NoCrossing(Scenarios)
    BY DEF OneAtATime, NoCrossing
  <1>3. InvSerial /\ OneAtATime /\ [NextSA]_varsSA => InvSerial'
    BY <1>2, TypesStep, CopyVoyageStep, CopyAdoptedStep DEF InvSerial
  <1>4. ASSUME InvSerial, NEW q \in Requests, NEW v \in Voyages, request[q].pc = "loaded",
               \/ AdoptIntoVoyage(q, v)
               \/ \E source \in Voyages : AdoptIntoNewVoyage(q, source, v)
        PROVE  /\ AdoptedScenarios(v)' = {request[q].scenario}
               /\ \A other \in Voyages \ {v} :
                      request[q].scenario \notin AdoptedScenarios(other)'
    <2>1. Adopts(q, v)
      BY <1>4 DEF AdoptIntoVoyage, AdoptIntoNewVoyage, Adopts
    <2>2. PICK s : s = request[q].scenario
      OBVIOUS
    <2>3. /\ s \in Scenarios /\ scenario'[s] \in ScenarioRow
          /\ scenario'[s].adopted <=>
                 \/ ~request[q].copy.adopted
                 \/ request[q].copy.voyage = v
                 \/ scenario[s].adopted /\ scenario[s].voyage # v
          /\ \A other \in Scenarios \ {s} : scenario'[other] = Cleared(v)[other]
      BY <1>4, <2>1, <2>2, WriteEffect DEF Adopts, InvSerial
    <2>4. scenario'[s].voyage = v
      BY <1>4, <2>1, <2>2, <2>3, AdoptionAttaches DEF InvSerial
    <2>5. scenario[s].voyage = v => request[q].copy.voyage = v
      BY <1>4, <2>2, <2>3, NullIsNoVoyage DEF InvSerial, CopyVoyage
    <2>6. scenario'[s].adopted
      BY <1>4, <2>2, <2>3, <2>5 DEF InvSerial, CopyAdopted
    <2>7. \A other \in Scenarios \ {s} : other \notin AdoptedScenarios(v)'
      <3>1. \A other \in Scenarios : scenario[other] = NULL => Cleared(v)[other] = NULL
        BY DEF Cleared, Rows
      <3>2. \A other \in Scenarios \ {s} : scenario'[other] # NULL =>
                /\ scenario'[other].voyage = scenario[other].voyage
                /\ scenario'[other].adopted => scenario[other].voyage # v
        BY <1>4, <2>3, <3>1, ClearedRow DEF InvSerial
      <3> QED BY <3>2 DEF AdoptedScenarios, AdoptedBy, Rows
    <2> QED BY <2>2, <2>3, <2>4, <2>6, <2>7, RowAssumption
            DEF AdoptedScenarios, AdoptedBy, Rows
  <1>5. InvSerial /\ [NextSA]_varsSA =>
            \A q \in Requests, v \in Voyages :
                request[q].pc = "loaded"
                    /\ (AdoptIntoVoyage(q, v)
                        \/ \E source \in Voyages : AdoptIntoNewVoyage(q, source, v))
                => /\ AdoptedScenarios(v)' = {request[q].scenario}
                   /\ \A other \in Voyages \ {v} :
                          request[q].scenario \notin AdoptedScenarios(other)'
    BY <1>4
  <1> QED BY <1>1, <1>3, <1>5, PTL DEF SpecSA, AdoptionTakesEffect

-----------------------------------------------------------------------------
(* Voyages beside adoptions.                                               *)

\* Adoptions and comparisons do to voyages only what VoyageStages allows, so
\* what holds of its voyages, that one sailed to its end is never taken out of
\* the database, holds of those that adopt.
THEOREM AdoptionKeepsStages == SpecSA => SpecStages
  <1>1. InitSA => InitStages
    BY DEF InitSA
  <1>2. [NextSA]_varsSA => [NextStages]_stage
    BY StepKinds
    DEF StepKind, Adopts, NewVoyage, EraseVoyage, Compare, Load, Refuse, OpenVoyage,
        VoyageMovesOn, varsSA, NextStages
  <1> QED BY <1>1, <1>2, PTL DEF SpecSA, SpecStages

=============================================================================
