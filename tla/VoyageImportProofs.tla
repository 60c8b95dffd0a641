-------------------------- MODULE VoyageImportProofs --------------------------
(***************************************************************************)
(* Proofs about VoyageLists and VoyageImports: reading the list on, and    *)
(* what an import adds, reports and forecasts.                             *)
(***************************************************************************)
EXTENDS VoyageImports, FiniteSetTheorems, TLAPS

-----------------------------------------------------------------------------
(* The order of the list.                                                  *)

\* A key is its departure and its id, both numbers where they are there.
LEMMA KeyFields ==
    ASSUME NEW p \in Key
    PROVE  /\ p.id \in Nat
           /\ p.departure # NULL => p.departure \in Nat
           /\ \A q \in Key : p.departure = q.departure /\ p.id = q.id => p = q
  <1>1. p.departure \in Departures \cup {NULL} /\ p.id \in Ids
    BY DEF Key, Departure
  <1>2. ASSUME NEW q \in Key, p.departure = q.departure, p.id = q.id
        PROVE  p = q
    <2>1. p = [departure |-> p.departure, id |-> p.id]  BY DEF Key
    <2>2. q = [departure |-> q.departure, id |-> q.id]  BY DEF Key
    <2> QED  BY <1>2, <2>1, <2>2
  <1> QED  BY <1>1, <1>2, ListAssumption

\* The condition of the cursor is the order of the list.
LEMMA AfterIsOrder ==
    ASSUME NEW p \in Key, NEW q \in Key
    PROVE  After(p, q) <=> Precedes(q, p)
  <1>1. /\ p.id \in Nat /\ q.id \in Nat
        /\ p.departure # NULL => p.departure \in Nat
        /\ q.departure # NULL => q.departure \in Nat
    BY KeyFields
  <1> QED  BY <1>1 DEF After, Precedes

\* No key is listed before itself, and of two the one or the other is.
LEMMA OrderIsTotal ==
    ASSUME NEW p \in Key, NEW q \in Key
    PROVE  /\ ~ Precedes(p, p)
           /\ ~ (Precedes(p, q) /\ Precedes(q, p))
           /\ p # q => Precedes(p, q) \/ Precedes(q, p)
  <1>1. /\ p.id \in Nat /\ q.id \in Nat
        /\ p.departure # NULL => p.departure \in Nat
        /\ q.departure # NULL => q.departure \in Nat
        /\ p # q => p.departure # q.departure \/ p.id # q.id
    BY KeyFields
  <1> QED  BY <1>1 DEF Precedes

\* The order of the list is transitive.
LEMMA OrderIsTransitive ==
    ASSUME NEW p \in Key, NEW q \in Key, NEW r \in Key,
           Precedes(p, q), Precedes(q, r)
    PROVE  Precedes(p, r)
  <1>1. /\ p.id \in Nat /\ q.id \in Nat /\ r.id \in Nat
        /\ p.departure # NULL => p.departure \in Nat
        /\ q.departure # NULL => q.departure \in Nat
        /\ r.departure # NULL => r.departure \in Nat
    BY KeyFields
  <1> QED  BY <1>1 DEF Precedes

-----------------------------------------------------------------------------
(* Types.                                                                  *)

OutcomeList == Seq(Outcomes)

ImportState ==
    [pc       : {"idle", "next", "locked", "clear", "done"},
     file     : Files \cup {<< >>},
     left     : SUBSET Numbers,
     at       : Numbers \cup {NULL},
     outcome  : OutcomeList,
     forecast : (SUBSET Nat) \cup {NULL}]

TypeLists ==
    /\ voyages \in [Ids -> Voyage \cup {NULL}]
    /\ holder \in Imports \cup {NULL}
    /\ list \in Reading

TypeVI == TypeLists /\ import \in [Imports -> ImportState]

\* The key of a live voyage is a key.
LEMMA KeyOfLive ==
    ASSUME TypeLists, NEW v \in Live
    PROVE  /\ v \in Ids /\ voyages[v] \in Voyage
           /\ KeyOf(v) \in Key /\ KeyOf(v).id = v
           /\ KeyOf(v).departure = voyages[v].departure
  BY DEF TypeLists, Live, Voyage, KeyOf, Key

\* Files are sequences of rows, and so is the empty one.
LEMMA FileFacts ==
    ASSUME NEW file \in Files \cup {<< >>}
    PROVE  /\ file \in Seq(FileRow)
           /\ DOMAIN file = 1 .. Len(file) /\ Len(file) \in Nat
           /\ DOMAIN file \subseteq Nat
           /\ \A n \in DOMAIN file : file[n] \in FileRow
  <1>1. file \in Seq(FileRow)
    <2>1. << >> \in Seq(FileRow)
      OBVIOUS
    <2>2. Files \subseteq Seq(FileRow)
      BY FileAssumption
    <2> QED  BY <2>1, <2>2
  <1>2. DOMAIN file = 1 .. Len(file) /\ Len(file) \in Nat
    BY <1>1
  <1> QED  BY <1>1, <1>2

\* Accepted gives numbers.
LEMMA AcceptedType ==
    ASSUME NEW file
    PROVE  Accepted(file) \subseteq Numbers
  BY DEF Accepted

\* A request for a page leaves a reading of the right type.
LEMMA PageType ==
    ASSUME TypeLists, NEW r \in Reading, WithPage(r)
    PROVE  list' \in Reading
  <1> DEFINE rows == Matching(r.cursor)
             page == Page(rows)
  <1>1. rows \subseteq Live /\ page \subseteq rows /\ Live \subseteq Ids
    BY DEF Matching, Page, Live
  <1>2. r.delivered \cup (page \cap r.kept) \in SUBSET Ids
        /\ r.wrong \cup (page \cap r.delivered) \in SUBSET Ids
        /\ r.present \in SUBSET Ids
    BY <1>1 DEF Reading
  <1>3. CASE rows = page
    BY <1>1, <1>2, <1>3 DEF WithPage, Closed, Reading
  <1>4. CASE rows # page
    <2>1. PICK last \in Last(page) :
              list' = [r EXCEPT !.pc = "open", !.cursor = KeyOf(last),
                                !.delivered = @ \cup (page \cap r.kept),
                                !.wrong = @ \cup (page \cap r.delivered)]
      BY <1>4 DEF WithPage
    <2>2. KeyOf(last) \in Key
      BY <1>1, KeyOfLive DEF Last
    <2> QED  BY <1>2, <2>1, <2>2 DEF Reading
  <1> QED  BY <1>3, <1>4

\* A change that is watched leaves a reading of the right type.
LEMMA WatchType ==
    ASSUME list \in Reading, Watch
    PROVE  list' \in Reading
  BY DEF Watch, Reading

\* Rows are counted by naturals.
LEMMA RowsWhoseType ==
    ASSUME NEW file \in Files \cup {<< >>}, NEW numbers
    PROVE  RowsWhose(file, numbers) \in SUBSET Nat
  BY FileFacts DEF RowsWhose, InReach

\* Done with a number, an import keeps its type.
LEMMA ThroughType ==
    ASSUME TypeVI, NEW i \in Imports, NEW number, NEW outcome \in Outcomes
    PROVE  /\ Through(i, number, outcome) \in ImportState
           /\ [Through(i, number, outcome) EXCEPT !.forecast = NULL] \in ImportState
  <1> DEFINE old == import[i].outcome
             new == [n \in DOMAIN old |->
                        IF n \in RowsWhose(import[i].file, {number})
                          THEN outcome ELSE old[n]]
  <1>1. import[i] \in ImportState
    BY DEF TypeVI
  <1>2. old \in Seq(Outcomes)
    BY <1>1 DEF ImportState, OutcomeList
  <1>3. new \in OutcomeList
    <2>1. DOMAIN old = 1 .. Len(old) /\ Len(old) \in Nat
          /\ \A n \in DOMAIN old : old[n] \in Outcomes
      BY <1>2
    <2> QED  BY <2>1 DEF OutcomeList
  <1>4. Through(i, number, outcome) =
            [import[i] EXCEPT !.pc = "next", !.at = NULL,
                              !.left = @ \ {number}, !.outcome = new]
    BY DEF Through
  <1>5. import[i].left \ {number} \in SUBSET Numbers
    BY <1>1 DEF ImportState
  <1> HIDE DEF new
  <1>6. Through(i, number, outcome) \in ImportState
    BY <1>1, <1>3, <1>4, <1>5 DEF ImportState
  <1>7. [Through(i, number, outcome) EXCEPT !.forecast = NULL] \in ImportState
    BY <1>6 DEF ImportState
  <1> QED  BY <1>6, <1>7

\* Every variable keeps its type.
LEMMA TypeStep ==
    ASSUME TypeVI, [NextVI]_varsVI
    PROVE  TypeVI'
  <1> USE DEF TypeVI, TypeLists
  <1>1. CASE ListStep
    <2>1. import' \in [Imports -> ImportState]
      BY <1>1 DEF ListStep, ImportState
    <2>2. CASE FirstPage
      <3>1. [list EXCEPT !.present = Live, !.kept = Ids] \in Reading
        BY DEF Reading, Live
      <3> QED  BY <2>1, <2>2, <3>1, PageType DEF FirstPage
    <2>3. CASE NextPage
      BY <2>1, <2>3, PageType DEF NextPage
    <2>4. ASSUME NEW v \in Ids, DeleteVoyage(v)
          PROVE  TypeVI'
      BY <2>1, <2>4, WatchType DEF DeleteVoyage
    <2>5. ASSUME NEW v \in Ids, NEW number \in HandNumbers,
                 NEW departure \in Departure,
                 CreateVoyage(v, number, departure) \/ EditVoyage(v, number, departure)
          PROVE  TypeVI'
      <3>1. [number |-> number, departure |-> departure] \in Voyage
        BY ListAssumption DEF Voyage
      <3> QED  BY <2>1, <2>5, <3>1, WatchType DEF CreateVoyage, EditVoyage
    <2> QED  BY <1>1, <2>2, <2>3, <2>4, <2>5 DEF ListStep, NextLists
  <1>2. ASSUME NEW i \in Imports, ImportStep(i)
        PROVE  TypeVI'
    <2> DEFINE File == Files \cup {<< >>}
    <2>1. ASSUME NEW file \in Files, DryRun(i, file)
          PROVE  TypeVI'
      <3>1. RowsWhose(file, Accepted(file) \ Taken) \in SUBSET Nat
        BY RowsWhoseType
      <3>2. [import[i] EXCEPT !.file = file,
                              !.forecast = RowsWhose(file, Accepted(file) \ Taken)]
                \in ImportState
        BY <3>1 DEF ImportState
      <3> QED  BY <2>1, <3>2 DEF DryRun
    <2>2. ASSUME NEW file \in Files, ReadFile(i, file)
          PROVE  TypeVI'
      <3> DEFINE outcome == [n \in DOMAIN file |->
                                IF n \notin InReach(file) THEN "cut"
                                ELSE IF file[n].number \in Accepted(file) THEN "pending"
                                ELSE "error"]
      <3>1. outcome \in OutcomeList
        BY FileFacts DEF Outcomes, OutcomeList
      <3>2. Accepted(file) \in SUBSET Numbers
        BY AcceptedType
      <3> DEFINE read == [import[i] EXCEPT
                             !.pc = "next", !.file = file, !.left = Accepted(file),
                             !.forecast = IF file = import[i].file THEN @ ELSE NULL,
                             !.outcome = outcome]
      <3>3. /\ import' = [import EXCEPT ![i] = read]
            /\ UNCHANGED <<voyages, holder, list>>
        BY <2>2 DEF ReadFile
      <3> HIDE DEF outcome
      <3>4. read \in ImportState
        BY <3>1, <3>2 DEF ImportState
      <3> HIDE DEF read
      <3> QED  BY <3>3, <3>4
    <2>3. ASSUME NEW number \in Numbers, LockVessel(i, number)
          PROVE  TypeVI'
      <3>1. [import[i] EXCEPT !.pc = "locked", !.at = number] \in ImportState
        BY DEF ImportState
      <3> QED  BY <2>3, <3>1 DEF LockVessel
    <2>4. ASSUME NEW number \in Numbers, LockRefused(i, number)
          PROVE  TypeVI'
      BY <2>4, ThroughType DEF LockRefused, Outcomes
    <2>5. CASE LookUpNumber(i)
      <3>1. [import[i] EXCEPT !.pc = "clear"] \in ImportState
        BY DEF ImportState
      <3> QED  BY <2>5, <3>1, ThroughType DEF LookUpNumber, Outcomes
    <2>6. ASSUME NEW v \in Ids, StoreVoyage(i, v)
          PROVE  TypeVI'
      <3>1. PICK n \in RowsWhose(import[i].file, {import[i].at}) :
                voyages' = [voyages EXCEPT ![v] =
                               [number |-> import[i].at,
                                departure |-> import[i].file[n].departure]]
        BY <2>6 DEF StoreVoyage
      <3>2. import[i].file \in File /\ import[i].at \in Numbers \cup {NULL}
        BY DEF ImportState
      <3>3. import[i].file[n].departure \in Departure
        BY <3>2, FileFacts DEF RowsWhose, InReach, FileRow
      <3>4. voyages' \in [Ids -> Voyage \cup {NULL}]
        BY <3>1, <3>2, <3>3 DEF Voyage
      <3>5. \A j \in Imports : [import[j] EXCEPT !.forecast = NULL] \in ImportState
        BY DEF ImportState
      <3>6. /\ Through(i, import[i].at, "stored") \in ImportState
            /\ [Through(i, import[i].at, "error") EXCEPT !.forecast = NULL] \in ImportState
        BY ThroughType DEF Outcomes
      <3>7. import' \in [Imports -> ImportState]
        BY <2>6, <3>5, <3>6 DEF StoreVoyage
      <3> QED  BY <2>6, <3>4, <3>7, WatchType DEF StoreVoyage
    <2>7. CASE RefuseNumber(i)
      BY <2>7, ThroughType DEF RefuseNumber, Refused, Outcomes
    <2>8. CASE FailNumber(i)
      BY <2>8, ThroughType DEF FailNumber, Refused, Outcomes
    <2>9. CASE Answer(i)
      <3>1. [import[i] EXCEPT !.pc = "done"] \in ImportState
        BY DEF ImportState
      <3> QED  BY <2>9, <3>1 DEF Answer
    <2>10. CASE Abandon(i)
      <3>1. << >> \in OutcomeList
        BY DEF OutcomeList
      <3>2. NewImport \in ImportState
        BY <3>1 DEF NewImport, ImportState
      <3> QED  BY <2>10, <3>2 DEF Abandon
    <2> QED  BY <1>2, <2>1, <2>2, <2>3, <2>4, <2>5, <2>6, <2>7, <2>8, <2>9, <2>10
             DEF ImportStep
  <1>3. CASE UNCHANGED varsVI
    BY <1>3 DEF varsVI, Live, Key
  <1> QED  BY <1>1, <1>2, <1>3 DEF NextVI

\* Every variable keeps its type.
THEOREM VoyageImportTypes == SpecVI => []TypeVI
  <1>1. InitVI => TypeVI
    <2>1. << >> \in OutcomeList
      BY DEF OutcomeList
    <2>2. NewImport \in ImportState
      BY <2>1 DEF NewImport, ImportState
    <2> QED  BY <2>2 DEF InitVI, InitLists, TypeVI, TypeLists, Closed, Reading
  <1>2. TypeVI /\ [NextVI]_varsVI => TypeVI'
    BY TypeStep
  <1> QED  BY <1>1, <1>2, PTL DEF SpecVI

-----------------------------------------------------------------------------
(* Reading on.  Whatever lies behind the cursor and was there from the     *)
(* first page on has been delivered, and what was delivered lies behind.   *)

\* A page that ended at the cursor or before it would have shown v.
Behind(v, cursor) == cursor # NULL /\ ~ After(KeyOf(v), cursor)

Faithful(reading) ==
    /\ reading.present \subseteq reading.kept
    /\ reading.delivered \subseteq reading.kept
    /\ reading.wrong = {}
    /\ \A v \in reading.present :
          v \in Live /\ (Behind(v, reading.cursor) => v \in reading.delivered)
    /\ \A v \in reading.delivered : v \in Live /\ Behind(v, reading.cursor)

ListInv ==
    /\ Faithful(list)
    /\ list.pc = "closed" => list.delivered = {} /\ list.cursor = NULL

\* A page has, with a row, every matching row that is listed before it.
LEMMA PageIsFront ==
    ASSUME TypeLists, NEW rows, rows \subseteq Live,
           NEW u \in rows, NEW v \in Page(rows),
           Precedes(KeyOf(u), KeyOf(v))
    PROVE  u \in Page(rows)
  <1> DEFINE before(w) == {x \in rows : Precedes(KeyOf(x), KeyOf(w))}
  <1>1. v \in rows /\ Cardinality(before(v)) < Limit
    BY DEF Page
  <1>2. before(u) \subseteq before(v)
    BY <1>1, KeyOfLive, OrderIsTransitive
  <1>3. IsFiniteSet(before(v)) /\ IsFiniteSet(before(u))
    <2>1. before(v) \subseteq Ids /\ before(u) \subseteq Ids
      BY DEF Live
    <2> QED  BY <2>1, ListAssumption, FS_Subset
  <1>4. Cardinality(before(u)) <= Cardinality(before(v))
    BY <1>2, <1>3, FS_Subset
  <1>5. Cardinality(before(u)) \in Nat /\ Cardinality(before(v)) \in Nat
    BY <1>3, FS_CardinalityType
  <1>6. Cardinality(before(u)) < Limit
    BY <1>1, <1>4, <1>5, ListAssumption
  <1> QED  BY <1>6 DEF Page

\* A page keeps a reading faithful.
LEMMA PageStep ==
    ASSUME TypeLists, NEW r \in Reading, Faithful(r), WithPage(r),
           UNCHANGED voyages
    PROVE  ListInv'
  <1> DEFINE rows == Matching(r.cursor)
             page == Page(rows)
             delivered == r.delivered \cup (page \cap r.kept)
  <1>1. rows \subseteq Live /\ page \subseteq rows
    BY DEF Matching, Page
  <1>2. r.cursor = NULL \/ r.cursor \in Key
    BY DEF Reading
  <1>3. \A v \in Live : v \in rows <=> ~ Behind(v, r.cursor)
    BY DEF Matching, Behind
  <1>4. page \cap r.delivered = {}
    BY <1>1, <1>3 DEF Faithful
  <1>5. CASE rows = page
    <2>1. r.present \subseteq delivered
      BY <1>3, <1>5 DEF Faithful
    <2>2. list' = Closed({})
      BY <1>4, <1>5, <2>1 DEF WithPage, Faithful
    <2> QED  BY <2>2 DEF ListInv, Faithful, Closed
  <1>6. CASE rows # page
    <2>1. PICK last \in Last(page) :
              list' = [r EXCEPT !.pc = "open", !.cursor = KeyOf(last),
                                !.delivered = delivered,
                                !.wrong = r.wrong \cup (page \cap r.delivered)]
      BY <1>6 DEF WithPage
    <2> DEFINE cursor == KeyOf(last)
    <2>2. /\ last \in page /\ last \in Live /\ cursor \in Key /\ cursor # NULL
          /\ \A u \in page : u # last => Precedes(KeyOf(u), cursor)
      BY <1>1, KeyOfLive, RowAssumption DEF Last
    <2>3. \A u \in page : Behind(u, cursor)
      <3> SUFFICES ASSUME NEW u \in page
                   PROVE  ~ Precedes(cursor, KeyOf(u))
        BY <1>1, <2>2, KeyOfLive, AfterIsOrder DEF Behind
      <3> QED  BY <1>1, <2>2, KeyOfLive, OrderIsTotal
    <2>4. \A u \in Live : Behind(u, r.cursor) => Behind(u, cursor)
      <3> SUFFICES ASSUME NEW u \in Live, r.cursor \in Key, r.cursor # NULL,
                          Precedes(cursor, KeyOf(u))
                   PROVE  Precedes(r.cursor, KeyOf(u))
        BY <1>2, <2>2, KeyOfLive, AfterIsOrder DEF Behind
      <3>1. Precedes(r.cursor, cursor)
        BY <1>1, <1>3, <2>2, AfterIsOrder DEF Behind
      <3> QED  BY <2>2, <3>1, KeyOfLive, OrderIsTransitive
    <2>5. \A u \in rows : Behind(u, cursor) => u \in page
      <3> SUFFICES ASSUME NEW u \in rows, ~ Precedes(cursor, KeyOf(u)), u # last
                   PROVE  u \in page
        BY <1>1, <2>2, KeyOfLive, AfterIsOrder DEF Behind
      <3>1. KeyOf(u) # cursor
        BY <1>1, <2>2, KeyOfLive
      <3>2. Precedes(KeyOf(u), cursor)
        BY <1>1, <2>2, <3>1, KeyOfLive, OrderIsTotal
      <3> QED  BY <1>1, <2>2, <3>2, PageIsFront
    <2>6. /\ r.present \subseteq r.kept /\ delivered \subseteq r.kept
          /\ r.wrong \cup (page \cap r.delivered) = {}
      BY <1>4 DEF Faithful
    <2>7. \A v \in r.present : v \in Live /\ (Behind(v, cursor) => v \in delivered)
      BY <1>3, <2>5 DEF Faithful
    <2>8. \A v \in delivered : v \in Live /\ Behind(v, cursor)
      BY <1>1, <2>3, <2>4 DEF Faithful
    <2>9. /\ list'.pc = "open" /\ list'.cursor = cursor
          /\ list'.present = r.present /\ list'.kept = r.kept
          /\ list'.delivered = delivered
          /\ list'.wrong = r.wrong \cup (page \cap r.delivered)
      BY <2>1 DEF Reading
    <2>10. Live' = Live /\ \A v : KeyOf(v)' = KeyOf(v)
      BY DEF Live, KeyOf
    <2>11. \A v : Behind(v, cursor)' = Behind(v, cursor)
      BY <2>10 DEF Behind, After, KeyOf
    <2> QED  BY <2>6, <2>7, <2>8, <2>9, <2>10, <2>11 DEF ListInv, Faithful, Behind, After, KeyOf
  <1> QED  BY <1>5, <1>6

\* So does every change of voyages.
LEMMA WatchStep ==
    ASSUME TypeLists, ListInv, Watch
    PROVE  ListInv'
  <1> DEFINE stay == Unmoved
  <1>1. /\ list'.pc = list.pc /\ list'.cursor = list.cursor
        /\ list'.present = list.present \cap stay
        /\ list'.kept = list.kept \cap stay
        /\ list'.delivered = list.delivered \cap stay
        /\ list'.wrong = list.wrong
    BY DEF Watch, TypeLists, Reading
  <1>2. \A v \in stay \cap Live : v \in Live' /\ KeyOf(v)' = KeyOf(v)
    BY DEF Unmoved, Live, KeyOf
  <1> QED  BY <1>1, <1>2 DEF ListInv, Faithful, Behind

\* The steps of an import leave the reading alone or watch it.
LEMMA ListInvStep ==
    ASSUME TypeVI, ListInv, [NextVI]_varsVI
    PROVE  ListInv'
  <1> USE DEF TypeVI
  <1>1. ASSUME UNCHANGED <<voyages, list>>
        PROVE  ListInv'
    BY <1>1 DEF ListInv, Faithful, Behind, Live, KeyOf
  <1>2. CASE ListStep
    <2>1. CASE FirstPage
      <3>1. [list EXCEPT !.present = Live, !.kept = Ids] \in Reading
        BY DEF TypeLists, Reading, Live
      <3>2. Faithful([list EXCEPT !.present = Live, !.kept = Ids])
        BY <2>1 DEF FirstPage, ListInv, Faithful, TypeLists, Reading, Live, Behind
      <3> QED  BY <2>1, <3>1, <3>2, PageStep DEF FirstPage
    <2>2. CASE NextPage
      BY <2>2, PageStep DEF NextPage, ListInv, TypeLists
    <2>3. ASSUME NEW v \in Ids, NEW number, NEW departure,
                 \/ DeleteVoyage(v) \/ CreateVoyage(v, number, departure)
                 \/ EditVoyage(v, number, departure)
          PROVE  ListInv'
      BY <2>3, WatchStep DEF DeleteVoyage, CreateVoyage, EditVoyage
    <2> QED  BY <1>2, <2>1, <2>2, <2>3 DEF ListStep, NextLists
  <1>3. ASSUME NEW i \in Imports, ImportStep(i)
        PROVE  ListInv'
    <2>1. ASSUME NEW v \in Ids, StoreVoyage(i, v)
          PROVE  ListInv'
      BY <2>1, WatchStep DEF StoreVoyage
    <2> QED  BY <1>1, <1>3, <2>1
             DEF ImportStep, DryRun, ReadFile, LockVessel, LockRefused, LookUpNumber,
                 RefuseNumber, FailNumber, Answer, Abandon
  <1>4. CASE UNCHANGED varsVI
    BY <1>1, <1>4 DEF varsVI
  <1> QED  BY <1>2, <1>3, <1>4 DEF NextVI

\* Reading the list on repeats no voyage and passes none over, for any number
\* of voyages, any size of page and any changes in between.
THEOREM ListedOnceHolds == SpecVI => []ListedOnce
  <1>1. InitVI => ListInv
    BY DEF InitVI, InitLists, ListInv, Faithful, Closed
  <1>2. TypeVI /\ ListInv /\ [NextVI]_varsVI => ListInv'
    BY ListInvStep
  <1>3. ListInv => ListedOnce
    BY DEF ListInv, Faithful, ListedOnce
  <1> QED  BY <1>1, <1>2, <1>3, VoyageImportTypes, PTL DEF SpecVI

-----------------------------------------------------------------------------
(* What an import adds.  Between its look-up and its commit it holds the   *)
(* lock without which no voyage changes.                                   *)

LockInv ==
    \A i \in Imports :
        /\ import[i].pc \in {"locked", "clear"} => holder = i
        /\ import[i].pc = "clear" => import[i].at \notin Taken

\* Every step keeps LockInv.
LEMMA LockInvStep ==
    ASSUME TypeVI, LockInv, [NextVI]_varsVI
    PROVE  LockInv'
  <1> USE DEF TypeVI, TypeLists
  <1>1. ASSUME holder = NULL, holder' = NULL,
               \A i \in Imports : import'[i].pc = import[i].pc
        PROVE  LockInv'
    BY <1>1, ListAssumption DEF LockInv
  <1>2. ASSUME UNCHANGED voyages, UNCHANGED holder,
               \A i \in Imports : /\ import'[i].pc = import[i].pc
                                 /\ import'[i].at = import[i].at
        PROVE  LockInv'
    BY <1>2 DEF LockInv, Taken, Live
  <1>3. CASE ListStep
    <2>1. \A i \in Imports : /\ import'[i].pc = import[i].pc
                             /\ import'[i].at = import[i].at
      BY <1>3 DEF ListStep, ImportState
    <2>2. \/ UNCHANGED <<voyages, holder>>
          \/ holder = NULL /\ holder' = NULL
      BY <1>3 DEF ListStep, NextLists, FirstPage, NextPage, DeleteVoyage,
                  CreateVoyage, EditVoyage
    <2> QED  BY <1>1, <1>2, <2>1, <2>2
  <1>4. ASSUME NEW i \in Imports, ImportStep(i)
        PROVE  LockInv'
    <2>1. ASSUME UNCHANGED voyages,
                 \A j \in Imports \ {i} : import'[j] = import[j],
                 holder' = holder \/ holder \in {NULL, i},
                 import'[i].pc \in {"locked", "clear"} => holder' = i,
                 import'[i].pc = "clear" => import'[i].at \notin Taken
          PROVE  LockInv'
      <3>1. Taken' = Taken
        BY <2>1 DEF Taken, Live
      <3> SUFFICES ASSUME NEW j \in Imports \ {i}
                   PROVE  /\ import'[j].pc \in {"locked", "clear"} => holder' = j
                          /\ import'[j].pc = "clear" => import'[j].at \notin Taken'
        BY <2>1, <3>1 DEF LockInv
      <3> QED  BY <2>1, <3>1, ListAssumption DEF LockInv
    <2>2. ASSUME NEW v \in Ids, StoreVoyage(i, v)
          PROVE  LockInv'
      <3>1. holder = i
        BY <2>2 DEF StoreVoyage, LockInv
      <3>2. \A j \in Imports \ {i} : import'[j].pc = import[j].pc
        <4>1. \A j \in Imports :
                  /\ import[j] \in ImportState
                  /\ [import[j] EXCEPT !.forecast = NULL].pc = import[j].pc
          BY DEF ImportState
        <4> QED  BY <2>2, <4>1 DEF StoreVoyage
      <3>3. import'[i].pc = "next"
        <4>1. \A number, outcome :
                  /\ Through(i, number, outcome).pc = "next"
                  /\ [Through(i, number, outcome) EXCEPT !.forecast = NULL].pc = "next"
          BY DEF Through, ImportState
        <4> QED  BY <2>2, <4>1 DEF StoreVoyage
      <3>4. \A j \in Imports : import'[j].pc \notin {"locked", "clear"}
        BY <3>1, <3>2, <3>3 DEF LockInv
      <3> QED  BY <3>4 DEF LockInv
    <2>3. ASSUME NEW file \in Files, DryRun(i, file) \/ ReadFile(i, file)
          PROVE  LockInv'
      BY <2>1, <2>3 DEF DryRun, ReadFile, ImportState
    <2>4. ASSUME NEW number \in Numbers, LockVessel(i, number)
          PROVE  LockInv'
      BY <2>1, <2>4 DEF LockVessel, ImportState
    <2>5. ASSUME NEW number \in Numbers, LockRefused(i, number)
          PROVE  LockInv'
      BY <2>1, <2>5 DEF LockRefused, Through, ImportState
    <2>6. CASE LookUpNumber(i)
      BY <2>1, <2>6 DEF LookUpNumber, Through, ImportState, LockInv
    <2>7. CASE RefuseNumber(i)
      BY <2>1, <2>7 DEF RefuseNumber, Refused, Through, ImportState
    <2>8. CASE FailNumber(i)
      <3>1. holder = i
        BY <2>8 DEF FailNumber, LockInv
      <3> QED  BY <2>1, <2>8, <3>1 DEF FailNumber, Refused, Through, ImportState
    <2>9. CASE Answer(i)
      BY <2>1, <2>9 DEF Answer, ImportState
    <2>10. CASE Abandon(i)
      BY <2>1, <2>10 DEF Abandon, NewImport, ImportState
    <2> QED  BY <1>4, <2>2, <2>3, <2>4, <2>5, <2>6, <2>7, <2>8, <2>9, <2>10
             DEF ImportStep
  <1>5. CASE UNCHANGED varsVI
    BY <1>2, <1>5 DEF varsVI
  <1> QED  BY <1>3, <1>4, <1>5 DEF NextVI

\* An import never adds a second live voyage of a number.
THEOREM ImportsKeepNumbersHolds == SpecVI => ImportsKeepNumbers
  <1>1. InitVI => LockInv
    BY DEF InitVI, LockInv, NewImport
  <1>2. TypeVI /\ LockInv /\ [NextVI]_varsVI => LockInv'
    BY LockInvStep
  <1>3. ASSUME TypeVI, LockInv, [NextVI]_varsVI
        PROVE  [AddsNewNumbers]_varsVI
    <2> SUFFICES ASSUME NEW i \in Imports, NEW v \in Ids, NextVI,
                        import[i].pc = "clear", import'[i].pc = "next",
                        voyages[v] = NULL, voyages'[v] # NULL
                 PROVE  voyages'[v].number \notin Taken
      BY <1>3 DEF AddsNewNumbers
    <2>1. PICK w \in Ids : StoreVoyage(i, w)
      <3>1. holder = i /\ holder # NULL
        BY ListAssumption, <1>3 DEF LockInv
      <3>2. ~ ListStep
        BY <3>1 DEF ListStep, NextLists, FirstPage, NextPage, DeleteVoyage,
                    CreateVoyage, EditVoyage
      <3>3. PICK j \in Imports : ImportStep(j)
        BY <3>2 DEF NextVI
      <3>4. PICK w \in Ids : StoreVoyage(j, w)
        BY <3>3 DEF ImportStep, DryRun, ReadFile, LockVessel, LockRefused,
                    LookUpNumber, RefuseNumber, FailNumber, Answer, Abandon
      <3>5. j = i
        BY <1>3, <3>1, <3>4 DEF StoreVoyage, LockInv
      <3> QED  BY <3>4, <3>5
    <2>2. w = v /\ voyages'[v].number = import[i].at
      BY <1>3, <2>1 DEF StoreVoyage, TypeVI, TypeLists
    <2> QED  BY <1>3, <2>2 DEF LockInv
  <1> QED  BY <1>1, <1>2, <1>3, VoyageImportTypes, PTL DEF SpecVI, ImportsKeepNumbers

-----------------------------------------------------------------------------
(* What an import reports.  The rows that wait are those of the numbers    *)
(* still left, and those numbers lie within the limit with all rows.       *)

Sound(m) ==
    /\ m.pc = "idle" => m.outcome = << >> /\ m.left = {}
    /\ m.pc # "idle" => DOMAIN m.outcome = DOMAIN m.file
    /\ m.pc = "done" => m.left = {}
    /\ m.pc \in {"locked", "clear"} => m.at \in m.left
    /\ m.left \subseteq Accepted(m.file)
    /\ \A n \in DOMAIN m.outcome :
          /\ m.outcome[n] = "pending" <=> n \in RowsWhose(m.file, m.left)
          /\ m.outcome[n] = "stored" =>
                \A k \in RowsOf(m.file, m.file[n].number) : m.outcome[k] = "stored"

\* The rows of an accepted number are all within the limit.
LEMMA AcceptedWithinLimit ==
    ASSUME NEW file, NEW number \in Accepted(file)
    PROVE  RowsOf(file, number) = RowsWhose(file, {number})
  BY DEF Accepted, Incomplete, RowsOf, RowsWhose, InReach

\* Done with a number, an import stays sound.
LEMMA ThroughSound ==
    ASSUME TypeVI, NEW i \in Imports, Sound(import[i]), import[i].pc # "idle",
           NEW number \in import[i].left, NEW outcome \in {"stored", "error"}
    PROVE  Sound(Through(i, number, outcome))
  <1> DEFINE m == import[i]
             t == Through(i, number, outcome)
             mine == RowsWhose(m.file, {number})
  <1>1. /\ t.pc = "next" /\ t.file = m.file /\ t.left = m.left \ {number}
        /\ t.outcome = [n \in DOMAIN m.outcome |->
                           IF n \in mine THEN outcome ELSE m.outcome[n]]
    BY DEF Through, TypeVI, ImportState
  <1>2. /\ DOMAIN m.outcome = DOMAIN m.file
        /\ m.left \subseteq Accepted(m.file)
        /\ \A n \in DOMAIN m.outcome :
              /\ m.outcome[n] = "pending" <=> n \in RowsWhose(m.file, m.left)
              /\ m.outcome[n] = "stored" =>
                    \A k \in RowsOf(m.file, m.file[n].number) : m.outcome[k] = "stored"
    BY DEF Sound
  <1>3. RowsOf(m.file, number) = mine /\ mine \subseteq RowsWhose(m.file, m.left)
    BY <1>2, AcceptedWithinLimit DEF RowsWhose
  <1> HIDE DEF t
  <1>4. ASSUME NEW n \in DOMAIN t.outcome
        PROVE  t.outcome[n] = "pending" <=> n \in RowsWhose(t.file, t.left)
    BY <1>1, <1>2, <1>3, <1>4 DEF RowsWhose
  <1>5. ASSUME NEW n \in DOMAIN t.outcome, t.outcome[n] = "stored",
               NEW k \in RowsOf(t.file, t.file[n].number)
        PROVE  t.outcome[k] = "stored"
    <2>1. k \in DOMAIN m.outcome
      BY <1>1, <1>2, <1>5 DEF RowsOf
    <2>2. CASE n \in mine
      <3>1. k \in mine
        BY <1>1, <1>3, <1>5, <2>2 DEF RowsWhose
      <3> QED  BY <1>1, <1>5, <2>1, <2>2, <3>1
    <2>3. CASE n \notin mine
      <3>1. m.outcome[k] = "stored"
        BY <1>1, <1>2, <1>5, <2>3
      <3>2. k \notin mine
        BY <1>2, <1>3, <2>1, <3>1
      <3> QED  BY <1>1, <2>1, <3>1, <3>2
    <2> QED  BY <2>2, <2>3
  <1>6. Sound(t)
    BY <1>1, <1>2, <1>4, <1>5 DEF Sound
  <1> QED  BY <1>6 DEF t

RowsInv == \A i \in Imports : Sound(import[i])

\* The forecast says nothing of what is done.
LEMMA SoundWithForecast ==
    ASSUME NEW m, NEW t, Sound(m),
           t.pc = m.pc, t.file = m.file, t.left = m.left, t.at = m.at,
           t.outcome = m.outcome
    PROVE  Sound(t)
  BY DEF Sound

\* Every step keeps the imports sound.
LEMMA RowsInvStep ==
    ASSUME TypeVI, RowsInv, [NextVI]_varsVI
    PROVE  RowsInv'
  <1>1. ASSUME NEW j \in Imports, import'[j] = import[j]
        PROVE  Sound(import'[j])
    BY <1>1 DEF RowsInv
  <1>2. ASSUME NEW j \in Imports, NEW r \in ImportState, Sound(r),
               import'[j] = [r EXCEPT !.forecast = NULL]
        PROVE  Sound(import'[j])
    <2>1. /\ import'[j].pc = r.pc /\ import'[j].file = r.file
          /\ import'[j].left = r.left /\ import'[j].at = r.at
          /\ import'[j].outcome = r.outcome
      BY <1>2 DEF ImportState
    <2> QED  BY <1>2, <2>1, SoundWithForecast
  <1>3. CASE ListStep
    <2> SUFFICES ASSUME NEW j \in Imports
                 PROVE  Sound(import'[j])
      BY DEF RowsInv
    <2>1. import'[j] = import[j] \/ import'[j] = [import[j] EXCEPT !.forecast = NULL]
      BY <1>3 DEF ListStep
    <2> QED  BY <1>1, <1>2, <2>1 DEF RowsInv, TypeVI
  <1>4. ASSUME NEW i \in Imports, ImportStep(i)
        PROVE  RowsInv'
    <2> SUFFICES ASSUME NEW j \in Imports
                 PROVE  Sound(import'[j])
      BY DEF RowsInv
    <2> DEFINE m == import[i]
    <2>1. m \in ImportState /\ Sound(m)
      BY DEF TypeVI, RowsInv
    <2>2. ASSUME NEW number \in m.left, m.pc # "idle", NEW outcome \in {"stored", "error"}
          PROVE  /\ Through(i, number, outcome) \in ImportState
                 /\ Sound(Through(i, number, outcome))
      BY <2>1, <2>2, ThroughType, ThroughSound DEF Outcomes
    <2>3. m.pc \in {"locked", "clear"} => m.at \in m.left
      BY <2>1 DEF Sound
    <2>4. ASSUME NEW v \in Ids, StoreVoyage(i, v)
          PROVE  Sound(import'[j])
      <3>1. \/ import'[j] = Through(i, m.at, "stored") /\ j = i
            \/ import'[j] = [Through(i, m.at, "error") EXCEPT !.forecast = NULL] /\ j = i
            \/ import'[j] = [import[j] EXCEPT !.forecast = NULL]
        BY <2>4 DEF StoreVoyage
      <3>2. m.pc = "clear"
        BY <2>4 DEF StoreVoyage
      <3> QED  BY <1>2, <2>2, <2>3, <3>1, <3>2 DEF RowsInv, TypeVI
    <2>5. CASE \A v \in Ids : ~ StoreVoyage(i, v)
      <3>1. CASE j # i
        <4>1. import'[j] = import[j]
          BY <1>4, <2>5, <3>1
             DEF ImportStep, DryRun, ReadFile, LockVessel, LockRefused, LookUpNumber,
                 RefuseNumber, FailNumber, Refused, Answer, Abandon, TypeVI
        <4> QED  BY <1>1, <4>1
      <3>2. CASE j = i
        <4> SUFFICES Sound(import'[i])
          BY <3>2
        <4>1. ASSUME NEW file \in Files, DryRun(i, file)
              PROVE  Sound(import'[i])
          <5>1. /\ import'[i].pc = "idle" /\ import'[i].outcome = m.outcome
                /\ import'[i].left = m.left /\ m.pc = "idle"
            BY <2>1, <4>1 DEF DryRun, TypeVI, ImportState
          <5> QED  BY <2>1, <5>1 DEF Sound
        <4>2. ASSUME NEW file \in Files, ReadFile(i, file)
              PROVE  Sound(import'[i])
          <5>1. /\ import'[i].pc = "next" /\ import'[i].file = file
                /\ import'[i].left = Accepted(file)
                /\ import'[i].outcome =
                      [n \in DOMAIN file |->
                          IF n \notin InReach(file) THEN "cut"
                          ELSE IF file[n].number \in Accepted(file) THEN "pending"
                          ELSE "error"]
            BY <2>1, <4>2 DEF ReadFile, TypeVI, ImportState
          <5> QED  BY <5>1 DEF Sound, RowsWhose, InReach
        <4>3. ASSUME NEW number \in Numbers, LockVessel(i, number)
              PROVE  Sound(import'[i])
          <5>1. /\ import'[i].pc = "locked" /\ import'[i].at = number
                /\ number \in m.left /\ m.pc = "next"
                /\ import'[i].file = m.file /\ import'[i].left = m.left
                /\ import'[i].outcome = m.outcome
            BY <2>1, <4>3 DEF LockVessel, TypeVI, ImportState
          <5> QED  BY <2>1, <5>1 DEF Sound
        <4>4. ASSUME NEW number \in Numbers, LockRefused(i, number)
              PROVE  Sound(import'[i])
          BY <1>2, <2>2, <4>4 DEF LockRefused, TypeVI
        <4>5. CASE LookUpNumber(i)
          <5>1. CASE m.at \in Taken
            BY <2>2, <2>3, <4>5, <5>1 DEF LookUpNumber, TypeVI
          <5>2. CASE m.at \notin Taken
            <6>1. /\ import'[i].pc = "clear" /\ import'[i].at = m.at /\ m.pc = "locked"
                  /\ import'[i].file = m.file /\ import'[i].left = m.left
                  /\ import'[i].outcome = m.outcome
              BY <2>1, <4>5, <5>2 DEF LookUpNumber, TypeVI, ImportState
            <6> QED  BY <2>1, <6>1 DEF Sound
          <5> QED  BY <5>1, <5>2
        <4>6. CASE RefuseNumber(i) \/ FailNumber(i)
          BY <1>2, <2>2, <2>3, <4>6 DEF RefuseNumber, FailNumber, Refused, TypeVI
        <4>7. CASE Answer(i)
          <5>1. /\ import'[i].pc = "done" /\ import'[i].at = m.at
                /\ m.pc = "next" /\ m.left = {}
                /\ import'[i].file = m.file /\ import'[i].left = m.left
                /\ import'[i].outcome = m.outcome
            BY <2>1, <4>7 DEF Answer, TypeVI, ImportState
          <5> QED  BY <2>1, <5>1 DEF Sound
        <4>8. CASE Abandon(i)
          BY <4>8 DEF Abandon, NewImport, Sound, TypeVI
        <4> QED  BY <1>4, <2>5, <4>1, <4>2, <4>3, <4>4, <4>5, <4>6, <4>7, <4>8
                 DEF ImportStep
      <3> QED  BY <3>1, <3>2
    <2> QED  BY <2>4, <2>5
  <1>5. CASE UNCHANGED varsVI
    BY <1>1, <1>5 DEF varsVI, RowsInv
  <1> QED  BY <1>3, <1>4, <1>5 DEF NextVI

\* No number comes in with some of its rows, and an answer accounts for all.
THEOREM NumbersComeWholeHolds == SpecVI => []NumbersComeWhole
  <1>1. InitVI => RowsInv
    BY DEF InitVI, RowsInv, Sound, NewImport
  <1>2. TypeVI /\ RowsInv /\ [NextVI]_varsVI => RowsInv'
    BY RowsInvStep
  <1>3. RowsInv => NumbersComeWhole
    BY DEF RowsInv, NumbersComeWhole, Sound, RowsWhose
  <1> QED  BY <1>1, <1>2, <1>3, VoyageImportTypes, PTL DEF SpecVI

-----------------------------------------------------------------------------
(* What a dry run says.  The rows it counted are, at any later time, those *)
(* that are stored and those of the numbers left that are not taken.       *)

StoredRows(m) == {n \in DOMAIN m.outcome : m.outcome[n] = "stored"}

ToCome(m) == IF m.pc = "idle" THEN Accepted(m.file) \ Taken ELSE m.left \ Taken

Foretold(m) ==
    m.forecast # NULL => m.forecast = StoredRows(m) \cup RowsWhose(m.file, ToCome(m))

ForecastInv == \A i \in Imports : Foretold(import[i])

\* A number is done with: its rows are stored and it is taken, or they are
\* refused because it was.
LEMMA NumberDone ==
    ASSUME TypeVI, NEW i \in Imports, Sound(import[i]), Foretold(import[i]),
           import[i].pc # "idle", NEW number \in import[i].left,
           NEW outcome \in {"stored", "error"},
           \/ outcome = "stored" /\ number \notin Taken /\ Taken' = Taken \cup {number}
           \/ outcome = "error" /\ number \in Taken /\ Taken' = Taken,
           import'[i] = Through(i, number, outcome)
    PROVE  Foretold(import[i])'
  <1> DEFINE m == import[i]
             t == import'[i]
             mine == RowsWhose(m.file, {number})
  <1>1. /\ t.pc = "next" /\ t.file = m.file /\ t.left = m.left \ {number}
        /\ t.forecast = m.forecast
        /\ t.outcome = [n \in DOMAIN m.outcome |->
                           IF n \in mine THEN outcome ELSE m.outcome[n]]
    BY DEF Through, TypeVI, ImportState
  <1>2. /\ DOMAIN m.outcome = DOMAIN m.file
        /\ mine \subseteq DOMAIN m.outcome
        /\ \A n \in mine : m.outcome[n] # "stored"
    BY DEF Sound, RowsWhose, InReach
  <1>3. m.forecast # NULL =>
            m.forecast = StoredRows(m) \cup RowsWhose(m.file, m.left \ Taken)
    BY DEF Foretold, ToCome
  <1>4. CASE outcome = "stored"
    <2>1. StoredRows(t) = StoredRows(m) \cup mine
      BY <1>1, <1>2, <1>4 DEF StoredRows
    <2>2. RowsWhose(m.file, m.left \ Taken) = mine \cup RowsWhose(t.file, t.left \ Taken')
      BY <1>1, <1>4 DEF RowsWhose
    <2> QED  BY <1>1, <1>3, <2>1, <2>2 DEF Foretold, ToCome, StoredRows
  <1>5. CASE outcome = "error"
    <2>1. StoredRows(t) = StoredRows(m)
      BY <1>1, <1>2, <1>5 DEF StoredRows
    <2>2. m.left \ Taken = t.left \ Taken'
      BY <1>1, <1>5
    <2> QED  BY <1>1, <1>3, <2>1, <2>2 DEF Foretold, ToCome, StoredRows
  <1> QED  BY <1>4, <1>5

\* Every step keeps the forecasts right.
LEMMA ForecastInvStep ==
    ASSUME TypeVI, LockInv, RowsInv, ForecastInv, [NextVI]_varsVI
    PROVE  ForecastInv'
  <1>1. ASSUME NEW j \in Imports, UNCHANGED voyages, import'[j] = import[j]
        PROVE  Foretold(import[j])'
    BY <1>1 DEF ForecastInv, Foretold, ToCome, StoredRows, Taken, Live
  <1>2. ASSUME NEW j \in Imports, import'[j].forecast = NULL
        PROVE  Foretold(import[j])'
    BY <1>2 DEF Foretold
  <1>3. CASE ListStep
    <2> SUFFICES ASSUME NEW j \in Imports
                 PROVE  Foretold(import[j])'
      BY DEF ForecastInv
    <2>1. \/ UNCHANGED voyages /\ import'[j] = import[j]
          \/ import'[j].forecast = NULL
      BY <1>3 DEF ListStep, TypeVI, ImportState
    <2> QED  BY <1>1, <1>2, <2>1
  <1>4. ASSUME NEW i \in Imports, ImportStep(i)
        PROVE  ForecastInv'
    <2> DEFINE m == import[i]
    <2> SUFFICES ASSUME NEW j \in Imports
                 PROVE  Foretold(import[j])'
      BY DEF ForecastInv
    <2>1. m \in ImportState /\ Sound(m) /\ Foretold(m)
      BY DEF TypeVI, RowsInv, ForecastInv
    <2>2. ASSUME UNCHANGED voyages, m.pc # "idle", import'[i].pc # "idle",
                 import'[i].file = m.file, import'[i].left = m.left,
                 import'[i].outcome = m.outcome, import'[i].forecast = m.forecast
          PROVE  Foretold(import[i])'
      BY <2>1, <2>2 DEF Foretold, ToCome, StoredRows, Taken, Live
    <2>3. ASSUME NEW number,
                 import'[i] = [Through(i, number, "error") EXCEPT !.forecast = NULL]
          PROVE  Foretold(import[i])'
      BY <1>2, <2>1, <2>3 DEF Through, ImportState
    <2>4. ASSUME NEW v \in Ids, StoreVoyage(i, v)
          PROVE  Foretold(import[j])'
      <3>1. CASE j # i
        BY <1>2, <2>4, <3>1 DEF StoreVoyage, TypeVI, ImportState
      <3>2. CASE j = i
        <4>1. CASE import'[i] = [Through(i, m.at, "error") EXCEPT !.forecast = NULL]
          BY <2>3, <3>2, <4>1
        <4>2. CASE import'[i] = Through(i, m.at, "stored")
          <5>1. m.at \in m.left /\ m.at \notin Taken /\ m.pc = "clear"
            BY <2>1, <2>4 DEF StoreVoyage, LockInv, Sound
          <5>2. Taken' = Taken \cup {m.at}
            <6>1. /\ voyages[v] = NULL /\ voyages'[v] # NULL
                  /\ voyages'[v].number = m.at
                  /\ \A w \in Ids \ {v} : voyages'[w] = voyages[w]
              <7>1. voyages' \in [Ids -> Voyage \cup {NULL}]
                BY TypeStep DEF TypeVI, TypeLists
              <7>2. PICK n \in RowsWhose(m.file, {m.at}) :
                        voyages' = [voyages EXCEPT ![v] =
                                       [number |-> m.at,
                                        departure |-> m.file[n].departure]]
                BY <2>4 DEF StoreVoyage
              <7>3. m.at \in Numbers \cup {NULL} /\ m.file[n].departure \in Departure
                BY <2>1, FileFacts DEF ImportState, RowsWhose, InReach, FileRow
              <7>4. [number |-> m.at, departure |-> m.file[n].departure] # NULL
                BY <7>3, RowAssumption DEF Voyage
              <7> QED  BY <2>4, <7>2, <7>4 DEF StoreVoyage, TypeVI, TypeLists
            <6> QED  BY <6>1 DEF Taken, Live
          <5> QED  BY <2>1, <3>2, <4>2, <5>1, <5>2, NumberDone
        <4> QED  BY <2>4, <3>2, <4>1, <4>2 DEF StoreVoyage
      <3> QED  BY <3>1, <3>2
    <2>5. CASE \A v \in Ids : ~ StoreVoyage(i, v)
      <3>1. UNCHANGED voyages
        BY <1>4, <2>5
           DEF ImportStep, DryRun, ReadFile, LockVessel, LockRefused, LookUpNumber,
               RefuseNumber, FailNumber, Answer, Abandon
      <3>2. CASE j # i
        <4>1. import'[j] = import[j]
          BY <1>4, <2>5, <3>2
             DEF ImportStep, DryRun, ReadFile, LockVessel, LockRefused, LookUpNumber,
                 RefuseNumber, FailNumber, Refused, Answer, Abandon, TypeVI
        <4> QED  BY <1>1, <3>1, <4>1
      <3>3. CASE j = i
        <4> SUFFICES Foretold(import[i])'
          BY <3>3
        <4>1. ASSUME NEW file \in Files, DryRun(i, file)
              PROVE  Foretold(import[i])'
          <5>1. /\ import'[i].pc = "idle" /\ import'[i].outcome = << >>
                /\ import'[i].file = file
                /\ import'[i].forecast = RowsWhose(file, Accepted(file) \ Taken)
                /\ Taken' = Taken
            BY <2>1, <3>1, <4>1 DEF DryRun, TypeVI, ImportState, Sound, Taken, Live
          <5>2. StoredRows(import'[i]) = {}
            BY <5>1 DEF StoredRows
          <5> QED  BY <5>1, <5>2 DEF Foretold, ToCome, StoredRows
        <4>2. ASSUME NEW file \in Files, ReadFile(i, file)
              PROVE  Foretold(import[i])'
          <5>1. /\ import'[i].pc = "next" /\ import'[i].file = file
                /\ import'[i].left = Accepted(file)
                /\ \/ import'[i].forecast = NULL
                   \/ file = m.file /\ import'[i].forecast = m.forecast
                /\ \A n \in DOMAIN import'[i].outcome : import'[i].outcome[n] # "stored"
                /\ Taken' = Taken /\ m.pc = "idle" /\ m.outcome = << >>
            BY <2>1, <3>1, <4>2 DEF ReadFile, TypeVI, ImportState, Sound, Taken, Live
          <5>2. StoredRows(import'[i]) = {} /\ StoredRows(m) = {}
            BY <5>1 DEF StoredRows
          <5>3. CASE import'[i].forecast = NULL
            BY <1>2, <5>3
          <5>4. CASE file = m.file /\ import'[i].forecast = m.forecast
            BY <2>1, <5>1, <5>2, <5>4 DEF Foretold, ToCome, StoredRows
          <5> QED  BY <5>1, <5>3, <5>4
        <4>3. ASSUME NEW number \in Numbers, LockVessel(i, number)
              PROVE  Foretold(import[i])'
          BY <2>1, <2>2, <4>3 DEF LockVessel, TypeVI, ImportState
        <4>4. ASSUME NEW number \in Numbers, LockRefused(i, number)
              PROVE  Foretold(import[i])'
          BY <2>3, <4>4 DEF LockRefused, TypeVI
        <4>5. CASE LookUpNumber(i)
          <5>1. CASE m.at \in Taken
            <6>1. import'[i] = Through(i, m.at, "error") /\ m.pc = "locked"
              BY <4>5, <5>1 DEF LookUpNumber, TypeVI
            <6>2. m.at \in m.left /\ Taken' = Taken
              BY <2>1, <3>1, <6>1 DEF Sound, Taken, Live
            <6> QED  BY <2>1, <5>1, <6>1, <6>2, NumberDone
          <5>2. CASE m.at \notin Taken
            BY <2>1, <2>2, <3>1, <4>5, <5>2 DEF LookUpNumber, TypeVI, ImportState
          <5> QED  BY <5>1, <5>2
        <4>6. CASE RefuseNumber(i) \/ FailNumber(i)
          BY <2>3, <4>6 DEF RefuseNumber, FailNumber, Refused, TypeVI
        <4>7. CASE Answer(i)
          BY <2>1, <2>2, <4>7 DEF Answer, TypeVI, ImportState
        <4>8. CASE Abandon(i)
          BY <1>2, <4>8 DEF Abandon, NewImport, TypeVI
        <4> QED  BY <1>4, <2>5, <4>1, <4>2, <4>3, <4>4, <4>5, <4>6, <4>7, <4>8
                 DEF ImportStep
      <3> QED  BY <3>2, <3>3
    <2> QED  BY <2>4, <2>5
  <1>5. CASE UNCHANGED varsVI
    BY <1>1, <1>5 DEF varsVI, ForecastInv
  <1> QED  BY <1>3, <1>4, <1>5 DEF NextVI

\* The rows a dry run counts are the rows the import then counts.
THEOREM DryRunForetellsHolds == SpecVI => []DryRunForetells
  <1> DEFINE Inv == LockInv /\ RowsInv /\ ForecastInv
  <1>1. InitVI => Inv
    BY DEF InitVI, LockInv, RowsInv, Sound, ForecastInv, Foretold, NewImport
  <1>2. TypeVI /\ Inv /\ [NextVI]_varsVI => Inv'
    BY LockInvStep, RowsInvStep, ForecastInvStep
  <1>3. Inv => DryRunForetells
    <2> SUFFICES ASSUME Inv, NEW i \in Imports, import[i].pc = "done",
                        import[i].forecast # NULL
                 PROVE  import[i].forecast = StoredRows(import[i])
      BY DEF DryRunForetells, StoredRows
    <2>1. import[i].left = {}
      BY DEF RowsInv, Sound
    <2>2. RowsWhose(import[i].file, ToCome(import[i])) = {}
      BY <2>1 DEF RowsWhose, ToCome
    <2> QED  BY <2>2 DEF ForecastInv, Foretold
  <1> HIDE DEF Inv
  <1>4. SpecVI => []Inv
    BY <1>1, <1>2, VoyageImportTypes, PTL DEF SpecVI
  <1> QED  BY <1>3, <1>4, PTL
=============================================================================
