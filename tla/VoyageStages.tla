----------------------------- MODULE VoyageStages -----------------------------
(***************************************************************************)
(* What the rest of the system may rely on about a voyage: the coarse      *)
(* stages of its life.  A voyage that was sailed to its end can be hidden  *)
(* but never leaves the database; only one that was never sailed, or was   *)
(* called off, can.                                                        *)
(*                                                                         *)
(* VoyageLifecycle implements this specification; ScenarioAdoption builds  *)
(* on it.                                                                  *)
(***************************************************************************)
CONSTANT Voyages    \* the ids a voyage row of this vessel may have

VARIABLE stage

Stages == {"none", "planning", "sailing", "done", "cancelled", "hidden"}

InitStages == stage = [v \in Voyages |-> "none"]

Move(v, from, to) ==
    /\ stage[v] \in from
    /\ stage' = [stage EXCEPT ![v] = to]

Register(v) == Move(v, {"none"}, "planning")
Sail(v) == Move(v, {"planning"}, "sailing")
Finish(v) == Move(v, {"sailing"}, "done")
CallOff(v) == Move(v, {"planning", "sailing"}, "cancelled")
Erase(v) == Move(v, {"planning", "cancelled"}, "none")
Hide(v) == Move(v, {"done"}, "hidden")

MoveOn(v) == Sail(v) \/ Finish(v) \/ CallOff(v) \/ Hide(v)

NextStages == \E v \in Voyages : Register(v) \/ MoveOn(v) \/ Erase(v)

SpecStages == InitStages /\ [][NextStages]_stage
=============================================================================
