----------------------------- MODULE Connections -----------------------------
(***************************************************************************)
(* Requests of the server and the pool of database connections they share  *)
(* (db/session.py).  A request that reads or writes takes a connection     *)
(* from the pool and keeps it to the end of its transaction, which the     *)
(* service it calls commits; a request for which none becomes free within  *)
(* the time limit of the pool fails and changes nothing.  The services are *)
(* in Conversations, PortLookups, VesselPositions and ParameterImports.    *)
(***************************************************************************)
EXTENDS Naturals, Sequences, FiniteSets

CONSTANTS
    Requests,      \* requests that can be handled at the same time
    PoolSize,      \* connections of the pool, with its overflow
    MaxRequests,   \* bound: requests ever handled
    NULL

ASSUME PoolAssumption ==
    /\ IsFiniteSet(Requests)
    /\ PoolSize \in Nat \ {0} /\ MaxRequests \in Nat
    /\ NULL \notin Nat

VARIABLES
    request,   \* what each request does and how far it is
    served     \* number of requests begun so far

Idle == [kind |-> "idle", connected |-> FALSE]

Doing(q, kind, step) == request[q].kind = kind /\ request[q].step = step

Connected == {q \in Requests : request[q].connected}

Free == Cardinality(Connected) < PoolSize

\* Requests have no identity: a new one takes the first name not in use.
Begin(q, begun) ==
    /\ request[q] = Idle
    /\ q = CHOOSE r \in Requests : request[r] = Idle
    /\ Free
    /\ served < MaxRequests
    /\ served' = served + 1
    /\ request' = [request EXCEPT ![q] = begun]

Continue(q, further) ==
    /\ request' = [request EXCEPT ![q] = further]
    /\ UNCHANGED served

End(q) == Continue(q, Idle)
=============================================================================
