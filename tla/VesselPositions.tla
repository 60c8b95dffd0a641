--------------------------- MODULE VesselPositions ---------------------------
(***************************************************************************)
(* The position of one vessel: the batch of AIS observations               *)
(* (services/position_snapshot.py), the entry by a person                  *)
(* (services/vessel.py, update_vessel_position) and the track both leave   *)
(* (table vessel_position_snapshot).                                       *)
(*                                                                         *)
(* A place is named by the source and the time of the observation.  A      *)
(* person gives both coordinates or only the state of the vessel; the      *)
(* states themselves are left out.  An entry is timed by the server when   *)
(* it has read the vessel, the batch by the transponder.                   *)
(***************************************************************************)
EXTENDS Connections, FiniteSetsExt

CONSTANT MaxTime   \* bound: time until which positions are observed

ASSUME TimeAssumption == MaxTime \in Nat

VARIABLES
    now,      \* latest time the server has seen
    vessel,   \* position of the vessel row: what was seen, when it was updated
    track     \* the observations stored

Sources == {"AIS", "MANUAL"}

Observation == [source : Sources, at : 1..MaxTime]

\* `known' are, for the property only, the time of the last entry and those of
\* the observations delivered since.
VesselRow ==
    [seen : Observation \cup {NULL}, updated : 0..MaxTime, known : SUBSET (1..MaxTime)]

EntryRequest ==
    [kind : {"entry"}, step : {"read"}, connected : {TRUE}, at : 1..MaxTime,
     what : {"position", "state"}]

BatchRequest == [kind : {"batch"}, step : {"outside"}, connected : {TRUE}]

PositionsType ==
    /\ now \in 0..MaxTime
    /\ vessel \in VesselRow
    /\ track \subseteq Observation

PositionsInit ==
    /\ now = 0
    /\ vessel = [seen |-> NULL, updated |-> 0, known |-> {}]
    /\ track = {}

\* The server looks at its clock, and finds it at `time'.
ClockAt(time) == time \in now..MaxTime /\ time > 0 /\ now' = time

Enter(q, what, time) ==
    /\ ClockAt(time)
    /\ Begin(q, [kind |-> "entry", step |-> "read", connected |-> TRUE,
                 at |-> time, what |-> what])
    /\ UNCHANGED <<vessel, track>>

\* Written whatever has been written since the vessel was read.
SaveEntry(q) ==
    LET entry == request[q]
        observation == [source |-> "MANUAL", at |-> entry.at]
    IN  /\ Doing(q, "entry", "read")
        /\ \/ /\ entry.what = "position"
              /\ vessel' = [seen |-> observation, updated |-> entry.at,
                            known |-> {entry.at}]
              /\ track' = track \cup {observation}
           \/ /\ entry.what = "state"
              /\ vessel' = [vessel EXCEPT !.updated = entry.at, !.known = {entry.at}]
              /\ UNCHANGED track
        /\ End(q)
        /\ UNCHANGED now

\* The batch has read the vessels and asks the provider, in one transaction.
StartBatch(q) ==
    /\ Begin(q, [kind |-> "batch", step |-> "outside", connected |-> TRUE])
    /\ UNCHANGED <<now, vessel, track>>

ShowNewest(times) ==
    [vessel EXCEPT !.seen = [source |-> "AIS", at |-> Max(times)],
                   !.updated = Max(times)]

\* Mutant: the newest observation of the batch is shown, newer or not.
ShowBatch(times) == IF times # {} THEN ShowNewest(times) ELSE vessel

\* update_current_position_if_newer, once for each observation, in whatever
\* order they come: the newest stays if it is newer than what is there.
ShowIfNewer(times) ==
    IF times # {} /\ vessel.updated < Max(times) THEN ShowNewest(times) ELSE vessel

\* The provider answers with observations of any time up to the present one,
\* old ones and known ones among them, and with none if it fails.
Deliver(q, times) ==
    /\ Doing(q, "batch", "outside")
    /\ track' = track \cup {[source |-> "AIS", at |-> t] : t \in times}
    /\ vessel' = [ShowIfNewer(times) EXCEPT !.known = @ \cup times]
    /\ now' = Max(times \cup {now})
    /\ End(q)

PositionsNext ==
    \E q \in Requests :
        \/ \E what \in {"position", "state"}, time \in 1..MaxTime : Enter(q, what, time)
        \/ SaveEntry(q) \/ StartBatch(q)
        \/ \E times \in SUBSET (1..MaxTime) : Deliver(q, times)

\* What is shown is on the track, and is timed by the newest of the last entry
\* and all observations delivered since, although entries are written whatever
\* was there and batches overlap, repeat themselves and come late
\* (update_current_position_if_newer, #1628).
ShownPosition ==
    /\ vessel.seen # NULL => vessel.seen \in track
    /\ vessel.known # {} => vessel.updated \in vessel.known
    /\ \A t \in vessel.known : t =< vessel.updated
=============================================================================
