-------------------------- MODULE ParameterImports --------------------------
(***************************************************************************)
(* Imports of regulatory parameters: services/parameter_import.py, for the *)
(* kinds that divide a ship type into bands (reference lines, rating       *)
(* boundaries), and one ship type.  An import turns off the active rows    *)
(* it read and inserts the rows of its file, in one transaction; a trigger *)
(* (alembic 054, 067) keeps the active rows of one band unique.            *)
(*                                                                         *)
(* Files are sound: the checks of import_parameters refuse one that leaves *)
(* a gap or names a band twice before anything is written.                 *)
(***************************************************************************)
EXTENDS Connections

CONSTANTS
    Files,   \* files: each the set of bands it divides the ship type into
    Seed     \* the division the installation brings

ASSUME SeedAssumption == Seed \in Files

\* A file has finitely many rows.
ASSUME FilesAssumption == \A file \in Files : IsFiniteSet(file)

VARIABLE active  \* the committed rows with is_active = 1

Bands == UNION Files

\* Import 0 is the seed.  `saw' are the imports whose rows were active when
\* this one read them, for the property only.
Row ==
    [by : 0..MaxRequests, file : Files, band : Bands, saw : SUBSET (0..MaxRequests)]

\* `rows' are inserted and not yet committed.
ImportRequest ==
    [kind : {"import"}, step : {"read", "replacing"}, connected : {TRUE},
     by : 1..MaxRequests, file : Files, replaces : SUBSET Row, rows : SUBSET Row]

ImportsType == active \subseteq Row

RowsOf(by, file, saw) ==
    [by : {by}, file : {file}, band : file, saw : {saw}]

ImportsInit == active = RowsOf(0, Seed, {})

Importers(rows) == {row.by : row \in rows}

BandsOf(rows) == {row.band : row \in rows}

StartImport(q, file) ==
    /\ Begin(q, [kind |-> "import", step |-> "read", connected |-> TRUE,
                 by |-> served + 1, file |-> file, replaces |-> active, rows |-> {}])
    /\ UNCHANGED active

\* The rows that were read are turned off, which waits for another import that
\* has turned off one of them.
TurnOff(q) ==
    /\ Doing(q, "import", "read")
    /\ \A r \in Requests \ {q} :
           Doing(r, "import", "replacing") =>
               request[r].replaces \cap request[q].replaces = {}
    /\ Continue(q, [request[q] EXCEPT !.step = "replacing"])
    /\ UNCHANGED active

Missing(q) == request[q].file \ BandsOf(request[q].rows)

\* Rows the trigger sees: committed ones that are not turned off, and its own.
Taken(q, band) == band \in BandsOf(active \ request[q].replaces)

Insert(q, band) ==
    /\ Doing(q, "import", "replacing")
    /\ band \in Missing(q)
    /\ ~Taken(q, band)
    /\ LET row == [by |-> request[q].by, file |-> request[q].file, band |-> band,
                   saw |-> Importers(request[q].replaces)]
       IN  Continue(q, [request[q] EXCEPT !.rows = @ \cup {row}])
    /\ UNCHANGED active

\* Mutant: what was done until the refusal is committed.
KeepHalf(q) ==
    /\ request[q].kind = "import"
    /\ active' = IF request[q].step = "read" THEN active
                 ELSE (active \ request[q].replaces) \cup request[q].rows
    /\ End(q)

\* The database refuses a row, because its band is taken or for another
\* reason, or a deadlock with an import of several ship types: all is undone.
StorageRefuses(q) ==
    /\ request[q].kind = "import"
    /\ End(q)
    /\ UNCHANGED active

CommitImport(q) ==
    /\ Doing(q, "import", "replacing")
    /\ Missing(q) = {}
    /\ active' = (active \ request[q].replaces) \cup request[q].rows
    /\ End(q)

ImportsNext ==
    \E q \in Requests :
        \/ \E file \in Files : StartImport(q, file)
        \/ TurnOff(q)
        \/ \E band \in Bands : Insert(q, band)
        \/ StorageRefuses(q) \/ CommitImport(q)

\* The active rows are whole files: an import that has one row active has all
\* of its file active, and rows of two imports are active together only if
\* neither had committed when the other read (_apply_versioned; what
\* _partition_errors relies on).
ActiveRowsAreWholeFiles ==
    \A row \in active :
        /\ BandsOf({r \in active : r.by = row.by}) = row.file
        /\ \A other \in active : row.by # other.by => other.by \notin row.saw
=============================================================================
