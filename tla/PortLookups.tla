----------------------------- MODULE PortLookups -----------------------------
(***************************************************************************)
(* Coordinates of a port by its name: services/geocoding.py over the       *)
(* provider geocode/nominatim.py.  A look-up reads the cache table, gives  *)
(* its connection back, goes outside, where one look-up at a time is let   *)
(* through, and stores what it got; the name is unique in the table.       *)
(*                                                                         *)
(* Abstracted: the table of sample ports, which is asked first and never   *)
(* changes; the second that passes between two calls.                      *)
(***************************************************************************)
EXTENDS Connections

CONSTANTS
    Names,    \* normalised names of ports
    Places    \* what the provider may answer for a name

ASSUME PlacesAssumption == NULL \notin Places

VARIABLES
    ports,     \* the port_geocode rows: the place of each name, or NULL
    answered   \* the answers given so far, with their names

PortRequest ==
    [kind : {"port"}, step : {"queued", "outside", "found"}, connected : {FALSE},
     name : Names, place : Places \cup {NULL}]

PortsType ==
    /\ ports \in [Names -> Places \cup {NULL}]
    /\ answered \subseteq [name : Names, place : Places]

PortsInit == ports = [n \in Names |-> NULL] /\ answered = {}

Answer(name, place) == answered' = answered \cup {[name |-> name, place |-> place]}

\* The name is in the cache.
AnswerFromCache(q, name) ==
    /\ request[q] = Idle /\ Free
    /\ ports[name] # NULL
    /\ Answer(name, ports[name])
    /\ UNCHANGED <<request, served, ports>>

\* Mutant: the transaction that looked stays open.
QueueConnected(q, name) ==
    /\ ports[name] = NULL
    /\ Begin(q, [kind |-> "port", step |-> "queued", connected |-> TRUE,
                 name |-> name, place |-> NULL])
    /\ UNCHANGED <<ports, answered>>

\* It is not; the transaction that looked is closed before anything else.
QueueLookup(q, name) ==
    /\ ports[name] = NULL
    /\ Begin(q, [kind |-> "port", step |-> "queued", connected |-> FALSE,
                 name |-> name, place |-> NULL])
    /\ UNCHANGED <<ports, answered>>

SomeoneOutside == \E q \in Requests : Doing(q, "port", "outside")

GoOutside(q) ==
    /\ Doing(q, "port", "queued")
    /\ ~SomeoneOutside
    /\ Continue(q, [request[q] EXCEPT !.step = "outside"])
    /\ UNCHANGED <<ports, answered>>

\* Its turn does not come in time.
GiveUpQueue(q) ==
    /\ Doing(q, "port", "queued")
    /\ SomeoneOutside
    /\ End(q)
    /\ UNCHANGED <<ports, answered>>

Found(q, place) ==
    /\ Doing(q, "port", "outside")
    /\ Continue(q, [request[q] EXCEPT !.step = "found", !.place = place])
    /\ UNCHANGED <<ports, answered>>

\* The provider knows no such port, fails, or is too slow.
NotFound(q) ==
    /\ Doing(q, "port", "outside")
    /\ End(q)
    /\ UNCHANGED <<ports, answered>>

\* Mutant: the loser answers what it found itself.
StoreFirstAnswerOwn(q) ==
    LET name == request[q].name
    IN  /\ Doing(q, "port", "found") /\ Free
        /\ ports' = [ports EXCEPT ![name] = IF @ = NULL THEN request[q].place ELSE @]
        /\ Answer(name, request[q].place)
        /\ End(q)

\* A transaction of its own: the first to store a name wins, the others meet
\* the unique index, roll back and answer what is stored.
Store(q) ==
    LET name == request[q].name
    IN  /\ Doing(q, "port", "found") /\ Free
        /\ ports' = [ports EXCEPT ![name] = IF @ = NULL THEN request[q].place ELSE @]
        /\ Answer(name, ports'[name])
        /\ End(q)

\* No connection becomes free in time: the request fails, what was found is
\* lost.
StoreTimesOut(q) ==
    /\ Doing(q, "port", "found") /\ ~Free
    /\ End(q)
    /\ UNCHANGED <<ports, answered>>

PortsNext ==
    \E q \in Requests :
        \/ \E name \in Names : AnswerFromCache(q, name) \/ QueueLookup(q, name)
        \/ GoOutside(q) \/ GiveUpQueue(q)
        \/ \E place \in Places : Found(q, place)
        \/ NotFound(q) \/ Store(q) \/ StoreTimesOut(q)

\* All answers ever given for a name are the same, although two look-ups that
\* overlap may get different places from outside: what is answered is what
\* is stored, and that never changes (_store).
LookupsAgree ==
    \A a \in answered : a.place = ports[a.name]
=============================================================================
