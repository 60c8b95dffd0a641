----------------------------- MODULE SharedPool -----------------------------
(***************************************************************************)
(* The services of Conversations, PortLookups, VesselPositions and         *)
(* ParameterImports at work in one server, over one pool of connections.   *)
(* Their tables are disjoint; what they share is the pool, from which      *)
(* turns of the assistant may draw for as long as their time limit.        *)
(***************************************************************************)
EXTENDS Conversations, PortLookups, VesselPositions, ParameterImports

conversationVars == <<conversation, messages>>
portVars == <<ports, answered>>
positionVars == <<now, vessel, track>>
importVars == <<active>>
vars == <<request, served, conversationVars, portVars, positionVars, importVars>>

AnyRequest ==
    {Idle} \cup TurnRequest \cup PortRequest \cup EntryRequest \cup BatchRequest
           \cup ImportRequest

TypeOK ==
    /\ request \in [Requests -> AnyRequest]
    /\ served \in 0..MaxRequests
    /\ ConversationsType
    /\ PortsType
    /\ PositionsType
    /\ ImportsType
    /\ Cardinality(Connected) =< PoolSize

Init ==
    /\ request = [q \in Requests |-> Idle]
    /\ served = 0
    /\ ConversationsInit
    /\ PortsInit
    /\ PositionsInit
    /\ ImportsInit

Conversing(A) == A /\ UNCHANGED <<portVars, positionVars, importVars>>
LookingUp(A) == A /\ UNCHANGED <<conversationVars, positionVars, importVars>>
Positioning(A) == A /\ UNCHANGED <<conversationVars, portVars, importVars>>
Importing(A) == A /\ UNCHANGED <<conversationVars, portVars, positionVars>>

Next ==
    \/ Conversing(ConversationsNext)
    \/ LookingUp(PortsNext)
    \/ Positioning(PositionsNext)
    \/ Importing(ImportsNext)

ImportStep(q) ==
    \/ TurnOff(q)
    \/ \E band \in Bands : Insert(q, band)
    \/ CommitImport(q)

RefusedByTrigger(q) ==
    /\ Doing(q, "import", "replacing")
    /\ \E band \in Missing(q) : Taken(q, band)
    /\ StorageRefuses(q)

\* Every wait has a time limit: a turn as a whole, the queue before the
\* provider of places, the provider, a connection of the pool.  Statements of
\* the database end, and so does a call of the provider of observations.
\* Nothing says that a turn gets an answer or a port its place.
WaitEnds(q) ==
    \/ Conversing(TimeOut(q))
    \/ LookingUp(GoOutside(q) \/ GiveUpQueue(q) \/ NotFound(q)
                 \/ Store(q) \/ StoreTimesOut(q))
    \/ Positioning(SaveEntry(q) \/ Deliver(q, {}))
    \/ Importing(ImportStep(q) \/ RefusedByTrigger(q))

Spec == Init /\ [][Next]_vars /\ \A q \in Requests : WF_vars(WaitEnds(q))

-----------------------------------------------------------------------------

\* No request holds on for ever, and with it no connection of the pool: not a
\* turn whose model or tool never answers, nor two that wait for each other's
\* conversation, nor a look-up in the queue of the provider or one that finds
\* the pool exhausted (TURN_TIMEOUT_SECONDS, #1245; _release_connection).
RequestsEnd == \A q \in Requests : request[q] # Idle ~> request[q] = Idle
=============================================================================
