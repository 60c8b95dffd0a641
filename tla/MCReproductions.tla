--------------------------- MODULE MCReproductions ---------------------------
(* Reproductions for TLC: a bounded number of changes beside one run and   *)
(* its reproductions.  Of the three rows two have the same value; of three *)
(* environments two draw alike.                                            *)
EXTENDS Reproductions, TLC

CONSTANTS MaxChanges, a1, a2, b1, a, b, e1, e2, e3, f1, f2, v1, y1

VARIABLE changes  \* how much has happened beside the requests

MCValueOf == (a1 :> a) @@ (a2 :> a) @@ (b1 :> b)
MCNumerics == (e1 :> 1) @@ (e2 :> 1) @@ (e3 :> 2)

\* One fuel is planned, the other was burnt; one later year is loaded.
MCInit ==
    /\ changes = 0
    /\ Init
    /\ live = [vessel |-> v1, plan |-> {f1},
               settled |-> [f \in Fuels |-> IF f = f2 THEN a ELSE NULL]]
    /\ \A p \in Params \ Later : law[p] = a1
    /\ \A y \in Later : law[y] = IF y = y1 THEN a1 ELSE NULL
    /\ deployed.environment = e1

MCNext ==
    \/ Requests /\ UNCHANGED changes
    \/ Surroundings /\ changes < MaxChanges /\ changes' = changes + 1

MCSpec == MCInit /\ [][MCNext]_<<vars, changes>>
=============================================================================
