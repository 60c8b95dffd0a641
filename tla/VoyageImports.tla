---------------------------- MODULE VoyageImports ----------------------------
(***************************************************************************)
(* The import of voyages from CSV files beside VoyageLists                 *)
(* (services/voyage_import.py).                                            *)
(*                                                                         *)
(* The rows of one number make one voyage, a fuel each.  A number comes in *)
(* with all of its rows or not at all, and every number is a transaction   *)
(* of its own: it locks the vessel's row, looks for a live voyage of the   *)
(* same number, inserts and commits.  A number that the checks refuse      *)
(* keeps the lock for the next one, one that the database refuses is       *)
(* rolled back.  An import may be cut off after any statement, and a file  *)
(* may be imported again.                                                  *)
(*                                                                         *)
(* Abstracted: ports, distance, speed and times that the rows of one       *)
(* number must share are the departure; parsing is whether a row is        *)
(* readable.  The numbers of a file are taken in any order.                *)
(***************************************************************************)
EXTENDS VoyageLists, Sequences

CONSTANTS
    Fuels,    \* fuel codes
    Files,    \* contents of files: sequences of rows
    MaxRows   \* rows of a file that are read

FileRow == [number : Numbers \cup {NULL}, fuel : Fuels, departure : Departure,
            readable : BOOLEAN]

ASSUME FileAssumption ==
    /\ Files \subseteq Seq(FileRow)
    /\ MaxRows \in Nat

VARIABLE import

varsVI == <<voyages, holder, list, import>>

-----------------------------------------------------------------------------
(* Rows of a file and the numbers they make up.                            *)

InReach(file) == {n \in DOMAIN file : n <= MaxRows}

RowsOf(file, number) == {n \in DOMAIN file : file[n].number = number}

\* Mutant: rows past the limit do not matter to the number they belong to.
NeverIncomplete(file) == {}

\* Numbers that have rows within the limit and rows past it.
Incomplete(file) ==
    {number \in Numbers : /\ RowsOf(file, number) \cap InReach(file) # {}
                          /\ ~ RowsOf(file, number) \subseteq InReach(file)}

\* Numbers whose rows can all be read, agree, and name different fuels.
Accepted(file) ==
    {number \in Numbers \ Incomplete(file) :
        LET rows == RowsOf(file, number) \cap InReach(file)
        IN  /\ rows # {}
            /\ \A n \in rows : file[n].readable
            /\ \A n, m \in rows :
                  /\ file[n].departure = file[m].departure
                  /\ n # m => file[n].fuel # file[m].fuel}

Taken == {voyages[v].number : v \in Live}

-----------------------------------------------------------------------------
(* An import: the numbers still `left', the one it is `at', what became of *)
(* each row, and what a dry run before it said (`forecast'), as long as    *)
(* nothing has come between.                                               *)

Outcomes == {"pending", "stored", "error", "cut"}

NewImport == [pc |-> "idle", file |-> << >>, left |-> {}, at |-> NULL,
              outcome |-> << >>, forecast |-> NULL]

InitVI ==
    /\ InitLists
    /\ import = [i \in Imports |-> NewImport]

RowsWhose(file, numbers) == {n \in InReach(file) : file[n].number \in numbers}

\* Mutant: the dry run does not look for numbers that are taken.
DryRunOfFile(i, file) ==
    /\ import[i].pc = "idle"
    /\ import' = [import EXCEPT ![i].file = file,
                                ![i].forecast = RowsWhose(file, Accepted(file))]
    /\ UNCHANGED <<voyages, holder, list>>

DryRun(i, file) ==
    /\ import[i].pc = "idle"
    /\ import' = [import EXCEPT ![i].file = file,
                                ![i].forecast = RowsWhose(file, Accepted(file) \ Taken)]
    /\ UNCHANGED <<voyages, holder, list>>

ReadFile(i, file) ==
    /\ import[i].pc = "idle"
    /\ import' =
          [import EXCEPT
              ![i].pc = "next",
              ![i].file = file,
              ![i].left = Accepted(file),
              ![i].forecast = IF file = import[i].file THEN @ ELSE NULL,
              ![i].outcome = [n \in DOMAIN file |->
                                 IF n \notin InReach(file) THEN "cut"
                                 ELSE IF file[n].number \in Accepted(file) THEN "pending"
                                 ELSE "error"]]
    /\ UNCHANGED <<voyages, holder, list>>

\* The import is through with a number.
Through(i, number, outcome) ==
    [import[i] EXCEPT
        !.pc = "next", !.at = NULL, !.left = @ \ {number},
        !.outcome = [n \in DOMAIN @ |->
                        IF n \in RowsWhose(import[i].file, {number})
                          THEN outcome ELSE @[n]]]

\* Mutant: the lock is not waited for.
LockNothing(i, number) ==
    /\ import[i].pc = "next"
    /\ number \in import[i].left
    /\ import' = [import EXCEPT ![i].pc = "locked", ![i].at = number]
    /\ UNCHANGED <<voyages, holder, list>>

\* The import turns to a number as soon as it has the lock for it.
LockVessel(i, number) ==
    /\ import[i].pc = "next"
    /\ number \in import[i].left
    /\ holder \in {NULL, i}
    /\ holder' = i
    /\ import' = [import EXCEPT ![i].pc = "locked", ![i].at = number]
    /\ UNCHANGED <<voyages, list>>

\* The database breaks the wait for the lock off, to end a deadlock or a wait
\* too long, and the number is given up.
LockRefused(i, number) ==
    /\ import[i].pc = "next"
    /\ number \in import[i].left
    /\ holder \notin {NULL, i}
    /\ import' = [import EXCEPT ![i] = [Through(i, number, "error") EXCEPT !.forecast = NULL]]
    /\ UNCHANGED <<voyages, holder, list>>

LookUpNumber(i) ==
    /\ import[i].pc = "locked"
    /\ import' = [import EXCEPT ![i] =
                     IF import[i].at \in Taken THEN Through(i, import[i].at, "error")
                     ELSE [@ EXCEPT !.pc = "clear"]]
    /\ UNCHANGED <<voyages, holder, list>>

\* The voyage is committed.  Its fuels are read once more for the answer; if
\* that fails, the rows are answered as refused though they are stored.
StoreVoyage(i, v) ==
    /\ import[i].pc = "clear"
    /\ voyages[v] = NULL
    /\ \E n \in RowsWhose(import[i].file, {import[i].at}) :
          voyages' = [voyages EXCEPT ![v] =
                         [number |-> import[i].at,
                          departure |-> import[i].file[n].departure]]
    /\ holder' = NULL
    /\ \E outcome \in {"stored", "error"} :
          import' = [j \in Imports |->
                        IF j = i /\ outcome = "stored"
                          THEN Through(i, import[i].at, "stored")
                        ELSE IF j = i
                          THEN [Through(i, import[i].at, "error") EXCEPT !.forecast = NULL]
                        ELSE [import[j] EXCEPT !.forecast = NULL]]
    /\ Watch

Refused(i) ==
    import' = [import EXCEPT
                  ![i] = [Through(i, import[i].at, "error") EXCEPT !.forecast = NULL]]

\* create_voyage refuses the number before it has written anything: no
\* rollback, and the lock stays.
RefuseNumber(i) ==
    /\ import[i].pc = "clear"
    /\ Refused(i)
    /\ UNCHANGED <<voyages, holder, list>>

\* The database refuses a statement: the transaction is rolled back.
FailNumber(i) ==
    /\ import[i].pc \in {"locked", "clear"}
    /\ Refused(i)
    /\ holder' = NULL
    /\ UNCHANGED <<voyages, list>>

\* The answer; closing the session gives back a lock that is left.
Answer(i) ==
    /\ import[i].pc = "next"
    /\ import[i].left = {}
    /\ import' = [import EXCEPT ![i].pc = "done"]
    /\ holder' = IF holder = i THEN NULL ELSE holder
    /\ UNCHANGED <<voyages, list>>

\* The request ends without an answer: what is stored stays, and the file
\* may be imported again.
Abandon(i) ==
    /\ import[i].pc \in {"next", "locked", "clear"}
    /\ import' = [import EXCEPT ![i] = NewImport]
    /\ holder' = IF holder = i THEN NULL ELSE holder
    /\ UNCHANGED <<voyages, list>>

ImportStep(i) ==
    \/ \E file \in Files : DryRun(i, file) \/ ReadFile(i, file)
    \/ \E number \in Numbers : LockVessel(i, number) \/ LockRefused(i, number)
    \/ LookUpNumber(i)
    \/ \E v \in Ids : StoreVoyage(i, v)
    \/ RefuseNumber(i)
    \/ FailNumber(i)
    \/ Answer(i)
    \/ Abandon(i)

\* Steps of VoyageLists: one that changes a voyage outdates the forecasts.
ListStep ==
    /\ NextLists
    /\ import' = IF voyages' = voyages THEN import
                 ELSE [i \in Imports |-> [import[i] EXCEPT !.forecast = NULL]]

NextVI == ListStep \/ \E i \in Imports : ImportStep(i)

SpecVI == InitVI /\ [][NextVI]_varsVI

-----------------------------------------------------------------------------
(* Properties.                                                             *)

\* An import never adds a second live voyage of a number, however it
\* overlaps with another import, hand entries, edits or its own repetition
\* (import_voyages looks the number up under the lock of the vessel's row).
AddsNewNumbers ==
    \A i \in Imports, v \in Ids :
        /\ import[i].pc = "clear" /\ import'[i].pc = "next"
        /\ voyages[v] = NULL /\ voyages'[v] # NULL
        => voyages'[v].number \notin Taken

ImportsKeepNumbers == [][AddsNewNumbers]_varsVI

\* No number comes in with some of the rows the file has for it, refused,
\* failed or cut off as others may be, and an answer accounts for every row
\* (_read_rows, _group_rows, import_voyages).
NumbersComeWhole ==
    \A i \in Imports :
        LET file == import[i].file
            outcome == import[i].outcome
        IN  /\ \A n \in DOMAIN outcome : outcome[n] = "stored" =>
                   \A m \in RowsOf(file, file[n].number) : outcome[m] = "stored"
            /\ import[i].pc = "done" => \A n \in DOMAIN outcome : outcome[n] # "pending"

\* The rows a dry run counts are the rows the import of the same file then
\* counts, unless a voyage was changed or the database refused something
\* in between (import_voyages with dry_run).
DryRunForetells ==
    \A i \in Imports :
        /\ import[i].pc = "done"
        /\ import[i].forecast # NULL
        => import[i].forecast = {n \in DOMAIN import[i].outcome :
                                    import[i].outcome[n] = "stored"}
=============================================================================
