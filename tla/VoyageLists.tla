----------------------------- MODULE VoyageLists -----------------------------
(***************************************************************************)
(* The list of a vessel's voyages, read page by page while voyages are     *)
(* created, edited and deleted (services/voyage.py, list_voyages, over     *)
(* repositories/voyage.py, list_active).                                   *)
(*                                                                         *)
(* The list is sorted by departure, the latest first, then the voyages     *)
(* without one; equal ones by created_at and id.  An id stands for both    *)
(* here, and ids need not appear in their order: created_at is taken at    *)
(* the INSERT, and transactions commit in any order.  A page asks for one  *)
(* row more than it shows.  Its cursor is the sort key of the last row     *)
(* shown, so the server keeps nothing between two pages.                   *)
(*                                                                         *)
(* An id that was deleted may come back: a list can be filtered, and a row *)
(* that leaves the filter and returns looks like that to the reader.       *)
(***************************************************************************)
EXTENDS Naturals, FiniteSets

CONSTANTS
    Ids,         \* voyage rows, in the order of created_at and id
    Numbers,     \* voyage numbers
    HandNumbers, \* what may be entered by hand as a number
    Departures,  \* instants
    Limit,       \* rows on a page
    Imports,     \* imports that may hold the lock of the vessel's row
    NULL

ASSUME ListAssumption ==
    /\ IsFiniteSet(Ids) /\ Ids \subseteq Nat
    /\ Departures \subseteq Nat
    /\ Limit \in Nat \ {0}
    /\ NULL \notin Departures \cup Numbers \cup Imports
    /\ HandNumbers \subseteq Numbers \cup {NULL}

VARIABLES
    voyages,  \* the live voyages, by id
    holder,   \* the import that holds the lock of the vessel's row
    list      \* one reading of the list, page after page

Departure == Departures \cup {NULL}

Voyage == [number : Numbers \cup {NULL}, departure : Departure]

Key == [departure : Departure, id : Ids]

ASSUME RowAssumption == NULL \notin Voyage \cup Key

Live == {v \in Ids : voyages[v] # NULL}

KeyOf(v) == [departure |-> voyages[v].departure, id |-> v]

-----------------------------------------------------------------------------
(* The order of the list and its pages.                                    *)

\* Key p is listed before key q.
Precedes(p, q) ==
    \/ p.departure # NULL /\ q.departure = NULL
    \/ /\ p.departure # NULL /\ q.departure # NULL
       /\ p.departure > q.departure
    \/ p.departure = q.departure /\ p.id > q.id

\* Mutant: the condition of the cursor knows no voyages without departure.
DepartedAfter(key, cursor) ==
    /\ key.departure # NULL /\ cursor.departure # NULL
    /\ \/ key.departure < cursor.departure
       \/ key.departure = cursor.departure /\ key.id < cursor.id

\* The condition that the cursor adds to the query.
After(key, cursor) ==
    IF cursor.departure # NULL
      THEN \/ key.departure = NULL
           \/ key.departure < cursor.departure
           \/ key.departure = cursor.departure /\ key.id < cursor.id
      ELSE key.departure = NULL /\ key.id < cursor.id

Matching(cursor) ==
    IF cursor = NULL THEN Live ELSE {v \in Live : After(KeyOf(v), cursor)}

\* The first Limit rows of those that match.
Page(rows) ==
    {v \in rows :
        Cardinality({u \in rows : Precedes(KeyOf(u), KeyOf(v))}) < Limit}

\* The row at the end of a page.
Last(page) ==
    {v \in page : \A u \in page : u # v => Precedes(KeyOf(u), KeyOf(v))}

-----------------------------------------------------------------------------
(* A reading.  For the property it remembers the voyages that were there   *)
(* at its first page (`present'), those that have not changed their place  *)
(* since (`kept') and those it has delivered, and, beyond its end, the     *)
(* ones that it delivered twice or passed over (`wrong').                  *)

Reading ==
    [pc        : {"closed", "open"},
     cursor    : Key \cup {NULL},
     present   : SUBSET Ids,
     kept      : SUBSET Ids,
     delivered : SUBSET Ids,
     wrong     : SUBSET Ids]

Closed(wrong) ==
    [pc |-> "closed", cursor |-> NULL, present |-> {}, kept |-> {},
     delivered |-> {}, wrong |-> wrong]

InitLists ==
    /\ voyages = [v \in Ids |-> NULL]
    /\ holder = NULL
    /\ list = Closed({})

\* What a request for a page does to a reading.
WithPage(reading) ==
    LET rows == Matching(reading.cursor)
        page == Page(rows)
        delivered == reading.delivered \cup (page \cap reading.kept)
        wrong == reading.wrong \cup (page \cap reading.delivered)
    IN  IF rows = page
          THEN list' = Closed(wrong \cup (reading.present \ delivered))
          ELSE \E last \in Last(page) :
                   list' = [reading EXCEPT !.pc = "open", !.cursor = KeyOf(last),
                                           !.delivered = delivered, !.wrong = wrong]

FirstPage ==
    /\ list.pc = "closed"
    /\ WithPage([list EXCEPT !.present = Live, !.kept = Ids])
    /\ UNCHANGED <<voyages, holder>>

NextPage ==
    /\ list.pc = "open"
    /\ WithPage(list)
    /\ UNCHANGED <<voyages, holder>>

-----------------------------------------------------------------------------
(* Changes of voyages.  Each of them locks the vessel's row or, through    *)
(* the foreign key of its INSERT, shares it, and so waits for an import    *)
(* that holds it.                                                          *)

\* The voyages that the step neither moves nor takes away.
Unmoved ==
    {v \in Ids : voyages[v] # NULL =>
                     /\ voyages'[v] # NULL
                     /\ voyages'[v].departure = voyages[v].departure}

Watch ==
    list' = [list EXCEPT !.present = @ \cap Unmoved, !.kept = @ \cap Unmoved,
                         !.delivered = @ \cap Unmoved]

\* A voyage entered by hand may have any number, or none: only imports look
\* for an equal one.
CreateVoyage(v, number, departure) ==
    /\ holder = NULL
    /\ voyages[v] = NULL
    /\ voyages' = [voyages EXCEPT ![v] = [number |-> number, departure |-> departure]]
    /\ Watch
    /\ UNCHANGED holder

\* A PATCH or the actual departure.
EditVoyage(v, number, departure) ==
    /\ holder = NULL
    /\ v \in Live
    /\ voyages' = [voyages EXCEPT ![v] = [number |-> number, departure |-> departure]]
    /\ Watch
    /\ UNCHANGED holder

DeleteVoyage(v) ==
    /\ holder = NULL
    /\ v \in Live
    /\ voyages' = [voyages EXCEPT ![v] = NULL]
    /\ Watch
    /\ UNCHANGED holder

NextLists ==
    \/ FirstPage
    \/ NextPage
    \/ \E v \in Ids :
          \/ DeleteVoyage(v)
          \/ \E number \in HandNumbers, departure \in Departure :
                \/ CreateVoyage(v, number, departure)
                \/ EditVoyage(v, number, departure)

-----------------------------------------------------------------------------
(* Properties.                                                             *)

\* Reading on never repeats a voyage and never passes one over, whatever
\* else is created, moved or deleted between two pages: no voyage that keeps
\* its place is delivered twice, and one that was there from the first page
\* on has been delivered when the last page is (VoyageCursor,
\* _newest_departure_first).
ListedOnce == list.wrong = {}
=============================================================================
