--------------------------- MODULE AnalyzerProofs ---------------------------
(***************************************************************************)
(* Theorems about Analyzer, for any cluster, any answers and any layout    *)
(* that leaves room for a row.                                             *)
(***************************************************************************)
EXTENDS Analyzer, FiniteSetTheorems, TLAPS

-----------------------------------------------------------------------------
(***************************************************************************)
(* The steps of the collector.                                             *)
(***************************************************************************)
\* What the analysis of a workload adds.
LEMMA Analysing ==
    ASSUME NEW w \in Workloads, C!Analyse(w)
    PROVE  \E direction \in C!Directions, covered \in BOOLEAN :
              analyses' = analyses \union
                  {[scan |-> at, workload |-> w, direction |-> direction, covered |-> covered]}
<1>1. PICK cpu, mem \in Answers[w], direction \in C!Directions :
          analyses' = analyses \union
              {[scan |-> at, workload |-> w, direction |-> direction,
                covered |-> C!Covered(cpu) /\ C!Covered(mem)]}
  BY DEF C!Analyse
<1> DEFINE covered == C!Covered(cpu) /\ C!Covered(mem)
<1>2. covered \in BOOLEAN
  OBVIOUS
<1>3. analyses' = analyses \union
          {[scan |-> at, workload |-> w, direction |-> direction, covered |-> covered]}
  BY <1>1
<1> HIDE DEF covered
<1> QED
  BY <1>2, <1>3

\* The variables of the collector keep their types.
LEMMA CollectorTypes == C!TypeOK /\ C!Next => C!TypeOK'
<1> SUFFICES ASSUME C!TypeOK, C!Next PROVE C!TypeOK'
    OBVIOUS
<1> USE DEF C!TypeOK, C!Steps, C!Lists, C!Directions, C!configuration, C!found
<1>1. CASE C!ListNamespaces
  BY <1>1 DEF C!ListNamespaces
<1>2. CASE C!Overview
  BY <1>2 DEF C!Overview
<1>3. CASE C!NextNamespace
  BY <1>3 DEF C!NextNamespace
<1>4. CASE C!List
  BY <1>4 DEF C!List, C!AfterList, C!Of
<1>5. CASE C!ListFails
  BY <1>5 DEF C!ListFails, C!AfterFailedList
<1>6. ASSUME NEW w \in Workloads, C!Ignore(w) PROVE C!TypeOK'
  BY <1>6 DEF C!Ignore, C!Leaves
<1>7. ASSUME NEW w \in Workloads, C!QueryFails(w) PROVE C!TypeOK'
  BY <1>7 DEF C!QueryFails, C!Leaves
<1>8. ASSUME NEW w \in Workloads, C!TooFewPoints(w) PROVE C!TypeOK'
  BY <1>8 DEF C!TooFewPoints, C!Leaves
<1>9. ASSUME NEW w \in Workloads, C!Analyse(w) PROVE C!TypeOK'
  <2>1. UNCHANGED <<asked, includeOS, expired, step, at, insufficient, failed>>
        /\ queue' \subseteq queue
    BY <1>9 DEF C!Analyse, C!Leaves
  <2> QED
    BY <1>9, <2>1, Analysing
<1>10. CASE C!EndOfList
  BY <1>10 DEF C!EndOfList
<1> QED
  BY <1>1, <1>2, <1>3, <1>4, <1>5, <1>6, <1>7, <1>8, <1>9, <1>10 DEF C!Next, C!Take

-----------------------------------------------------------------------------
(***************************************************************************)
(* The steps of the report.                                                *)
(***************************************************************************)
\* The sets of the report are finite, and its rows are told apart by their fields.
DataOK == C!TypeOK /\ IsFiniteSet(analyses)

\* Report has its own name for the cardinality of a set.
LEMMA SameCardinality == \A S : R!Cardinality(S) = Cardinality(S)
  BY DEF R!Cardinality, Cardinality

\* The counts of the summary are numbers.
LEMMA Counts ==
    ASSUME DataOK
    PROVE  /\ Cardinality(R!VMs) \in Nat /\ Cardinality(R!Containers) \in Nat
           /\ Cardinality(R!Candidates(R!VMs)) \in Nat
           /\ Cardinality(R!Candidates(R!Containers)) \in Nat
           /\ \A direction : Cardinality(R!Going(direction)) \in Nat
  BY FS_Subset, FS_CardinalityType
     DEF DataOK, R!VMs, R!Containers, R!Candidates, R!Going

\* A row is printed at one place and its note at another.
Places == [page : Nat, y : Nat]

Prints(r, row, note) ==
    /\ row  = R!Cell(R!Start, RowHeight)
    /\ note = IF section = "insufficient" THEN row ELSE R!Cell(row, NoteHeight)
    /\ page' = note.page /\ y' = note.y
    /\ header' \in {header, R!Start.page}
    /\ R!Start.page = page \/ header' = R!Start.page
    /\ R!Start.page # page \/ header' = header
    /\ printed' = [p \in R!Printed \union {r} |->
           IF p = r THEN [page |-> row.page, note |-> note.page, header |-> header']
                    ELSE printed[p]]

\* A row begins at a place on some page.
LEMMA StartIsPlace == R!TypeOK => R!Start \in Places
  BY LayoutAssumption DEF R!TypeOK, R!Start, Places

\* Printing a row, with the places of its cells and of its note named.
LEMMA Printing ==
    ASSUME R!TypeOK, R!PrintRow
    PROVE  \E r \in R!Rows[section] \ R!Printed, row \in Places, note \in Places :
              Prints(r, row, note)
<1>1. R!Start \in Places
  BY StartIsPlace
<1>2. \A place \in Places, height \in Nat : R!Cell(place, height) \in Places
  BY LayoutAssumption DEF R!Cell, Places
<1> DEFINE row  == R!Cell(R!Start, RowHeight)
           note == IF section = "insufficient" THEN row ELSE R!Cell(row, NoteHeight)
<1>3. row \in Places /\ note \in Places
  BY <1>1, <1>2, LayoutAssumption
<1>4. PICK r \in R!Rows[section] \ R!Printed :
          /\ page' = note.page /\ y' = note.y
          /\ header' = IF R!Start.page = page THEN header ELSE R!Start.page
          /\ printed' = [p \in R!Printed \union {r} |->
                 IF p = r THEN [page |-> row.page, note |-> note.page, header |-> header']
                          ELSE printed[p]]
  BY DEF R!PrintRow
<1>5. Prints(r, row, note)
  BY <1>4 DEF Prints
<1> QED
  BY <1>3, <1>5

\* The variables of the report keep their types.
LEMMA ReportTypes == DataOK /\ R!TypeOK /\ R!Next => R!TypeOK'
<1> SUFFICES ASSUME DataOK, R!TypeOK, R!Next PROVE R!TypeOK'
    OBVIOUS
<1> USE DEF R!TypeOK, R!Printed, R!Sections, R!NextSection, R!Tables, R!data
<1>1. CASE R!FixedPage
  BY <1>1, LayoutAssumption DEF R!FixedPage, R!NextPage
<1>2. CASE R!Summarise
  <2>1. section' = "cluster"
    BY <1>2 DEF R!Summarise
  <2>2. page' \in Nat /\ y' \in Nat
    BY <1>2, LayoutAssumption DEF R!Summarise, R!NextPage
  <2>3. summary' \in [DOMAIN R!NoSummary -> Int]
    BY <1>2, Counts, SameCardinality DEF R!Summarise, R!NoSummary, R!CountDirection
  <2> QED
    BY <1>2, <2>1, <2>2, <2>3 DEF R!Summarise
<1>3. CASE R!SkipTable
  BY <1>3 DEF R!SkipTable
<1>4. CASE R!EmptyTable
  BY <1>4, LayoutAssumption DEF R!EmptyTable, R!NextPage
<1>5. CASE R!OpenTable
  BY <1>5, LayoutAssumption DEF R!OpenTable, R!NextPage
<1>6. CASE R!PrintRow
  <2>1. PICK r \in R!Rows[section] \ R!Printed, row \in Places, note \in Places :
            Prints(r, row, note)
    BY <1>6, Printing
  <2>2. page' \in Nat /\ y' \in Nat /\ header' \in Nat
    BY <2>1, StartIsPlace DEF Prints, Places
  <2>3. r \in analyses \union insufficient
    BY <1>6 DEF R!PrintRow, R!Rows, R!Candidates, R!VMs, R!Containers
  <2> QED
    BY <1>6, <2>1, <2>2, <2>3 DEF R!PrintRow, Prints, Places
<1>7. CASE R!CloseTable
  BY <1>7 DEF R!CloseTable
<1> QED
  BY <1>1, <1>2, <1>3, <1>4, <1>5, <1>6, <1>7 DEF R!Next

\* A row of insufficient data is not an analysis.
LEMMA Apart == C!TypeOK => analyses \intersect insufficient = {}
<1> SUFFICES ASSUME C!TypeOK, NEW r \in analyses, r \in insufficient PROVE FALSE
    OBVIOUS
<1>1. DOMAIN r = {"scan", "workload", "direction", "covered"}
  BY DEF C!TypeOK
<1>2. DOMAIN r = {"scan", "workload"}
  BY DEF C!TypeOK
<1> QED
  BY <1>1, <1>2

\* The table that is open has rows, and a table of candidates has its header on the
\* page the cursor is at.
HeaderOK ==
    header # 0 =>
        /\ section \in R!Tables /\ R!Rows[section] # {}
        /\ section # "insufficient" => header = page

\* What is printed at the latest when a section is reached.
PrintedOK ==
    /\ R!Printed \subseteq R!Candidates(analyses) \union insufficient
    /\ section = "cover" => R!Printed = {}
    /\ section \in {"containers", "insufficient", "appendix", "output"} =>
           R!Candidates(R!VMs) \subseteq R!Printed
    /\ section \in {"insufficient", "appendix", "output"} =>
           R!Candidates(R!Containers) \subseteq R!Printed
    /\ section \in {"appendix", "output"} => insufficient \subseteq R!Printed

\* The numbers of the summary, once it is printed.
Counted ==
    LET analysed   == Cardinality(R!VMs) + Cardinality(R!Containers)
        candidates == Cardinality(R!Candidates(R!VMs)) + Cardinality(R!Candidates(R!Containers))
    IN  [analysed   |-> analysed,
         candidates |-> candidates,
         rightSized |-> analysed - candidates,
         downsize   |-> Cardinality(R!Going("downsize")),
         upsize     |-> Cardinality(R!Going("upsize"))]

SummaryOK == section \notin {"cover", "summary"} => summary = Counted

ReportInv == R!TypeOK /\ HeaderOK /\ PrintedOK /\ SummaryOK /\ R!RowsWhole

\* Nothing is analysed or listed while the report is rendered.
LEMMA DataStays == R!Next => UNCHANGED <<analyses, insufficient>>
  BY DEF R!Next, R!FixedPage, R!Summarise, R!SkipTable, R!EmptyTable, R!OpenTable, R!PrintRow,
         R!CloseTable, R!data

\* A row begins where it and its note have room on the page.
LEMMA RowFits ==
    ASSUME C!TypeOK, ReportInv, NEW r \in R!Rows[section] \ R!Printed, section \in R!Tables,
           header # 0, NEW row \in Places, NEW note \in Places, Prints(r, row, note)
    PROVE  /\ row.page = note.page
           /\ r \in analyses => header' = row.page
<1>1. CASE section = "insufficient"
  BY <1>1, Apart DEF Prints, R!Rows
<1>2. CASE section # "insufficient"
  <2>1. R!Start.page = R!Start.page /\ R!Start.y + Guard <= Bottom /\ R!Start \in Places
    BY <1>2, LayoutAssumption DEF R!Start, R!Room, ReportInv, R!TypeOK, Places
  <2>2. row = [page |-> R!Start.page, y |-> R!Start.y + RowHeight]
    BY <2>1, LayoutAssumption DEF Prints, R!Cell, Places
  <2>3. note.page = row.page
    BY <1>2, <2>1, <2>2, LayoutAssumption DEF Prints, R!Cell, Places
  <2>4. header' = R!Start.page
    BY <1>2 DEF Prints, ReportInv, HeaderOK
  <2> QED
    BY <2>2, <2>3, <2>4
<1> QED
  BY <1>1, <1>2

\* Every step of the report keeps what is known of its tables and counts.
LEMMA ReportStep == DataOK /\ ReportInv /\ R!Next => ReportInv'
<1> SUFFICES ASSUME DataOK, ReportInv, R!Next PROVE ReportInv'
    OBVIOUS
<1>1. R!TypeOK'
  BY ReportTypes DEF ReportInv
<1>2. analyses' = analyses /\ insufficient' = insufficient
  BY DataStays
<1>3. HeaderOK'
  <2> USE DEF HeaderOK, R!Tables
  <2>1. R!Rows' = R!Rows
    BY <1>2 DEF R!Rows, R!Candidates, R!VMs, R!Containers
  <2>2. HeaderOK /\ R!TypeOK
    BY DEF ReportInv
  <2>3. CASE R!PrintRow
    <3>1. PICK r \in R!Rows[section] \ R!Printed, row \in Places, note \in Places :
              Prints(r, row, note)
      BY <2>2, <2>3, Printing
    <3>2. row.page = note.page /\ (r \in analyses => header' = row.page)
      BY <2>3, <3>1, RowFits DEF DataOK, R!PrintRow
    <3>3. section # "insufficient" => r \in analyses
      BY <2>3, <3>1 DEF R!PrintRow, R!Rows, R!Candidates, R!VMs, R!Containers
    <3>4. section' = section /\ page' = note.page /\ R!Rows[section] # {}
      BY <2>3, <3>1 DEF R!PrintRow, Prints
    <3> QED
      BY <2>1, <2>2, <2>3, <3>2, <3>3, <3>4 DEF R!PrintRow
  <2>4. CASE R!OpenTable
    BY <2>1, <2>4 DEF R!OpenTable, R!NextPage
  <2>5. CASE R!FixedPage \/ R!Summarise
    BY <2>1, <2>2, <2>5 DEF R!FixedPage, R!Summarise
  <2>6. CASE R!SkipTable \/ R!EmptyTable
    <3>1. R!Subject[section] = {} => R!Rows[section] = {}
      BY <2>6 DEF R!SkipTable, R!EmptyTable, R!Subject, R!Rows, R!Candidates
    <3> QED
      BY <2>2, <2>6, <3>1 DEF R!SkipTable, R!EmptyTable
  <2>7. CASE R!CloseTable
    BY <2>7 DEF R!CloseTable
  <2> QED
    BY <2>3, <2>4, <2>5, <2>6, <2>7 DEF R!Next
<1>4. PrintedOK'
  <2>1. /\ R!VMs' = R!VMs
        /\ R!Candidates(R!VMs)' = R!Candidates(R!VMs)
        /\ R!Candidates(R!Containers)' = R!Candidates(R!Containers)
        /\ R!Candidates(analyses)' = R!Candidates(analyses)
    BY <1>2 DEF R!Candidates, R!VMs, R!Containers
  <2>2. PrintedOK /\ R!TypeOK
    BY DEF ReportInv
  <2>3. CASE R!PrintRow
    <3>1. PICK r \in R!Rows[section] \ R!Printed, row \in Places, note \in Places :
              Prints(r, row, note)
      BY <2>2, <2>3, Printing
    <3>2. R!Printed' = R!Printed \union {r}
      BY <3>1 DEF Prints, R!Printed
    <3>3. r \in R!Candidates(analyses) \union insufficient
      BY <2>3, <3>1 DEF R!PrintRow, R!Tables, R!Rows, R!Candidates, R!VMs, R!Containers
    <3>4. section' = section /\ section \in R!Tables
      BY <2>3 DEF R!PrintRow
    <3> QED
      BY <1>2, <2>1, <2>2, <3>2, <3>3, <3>4 DEF PrintedOK, R!Tables
  <2>4. CASE R!SkipTable \/ R!EmptyTable \/ R!CloseTable
    <3>1. R!Rows[section] \subseteq R!Printed /\ section \in R!Tables
      BY <2>4 DEF R!SkipTable, R!EmptyTable, R!CloseTable, R!Tables, R!Subject, R!Rows, R!Candidates
    <3>2. R!Printed' = R!Printed /\ section' = R!NextSection[section]
      BY <2>4 DEF R!SkipTable, R!EmptyTable, R!CloseTable, R!Printed
    <3> QED
      BY <1>2, <2>1, <2>2, <3>1, <3>2 DEF PrintedOK, R!Tables, R!NextSection, R!Rows
  <2>5. CASE R!FixedPage \/ R!Summarise \/ R!OpenTable
    BY <1>2, <2>1, <2>2, <2>5 DEF PrintedOK, R!FixedPage, R!Summarise, R!OpenTable, R!NextSection,
       R!Printed, R!Tables
  <2> QED
    BY <2>3, <2>4, <2>5 DEF R!Next
<1>5. SummaryOK'
  <2>1. Counted' = Counted
    BY <1>2 DEF Counted, R!VMs, R!Containers, R!Candidates, R!Going
  <2>2. SummaryOK
    BY DEF ReportInv
  <2>3. CASE R!Summarise
    BY <2>1, <2>3, SameCardinality DEF R!Summarise, R!CountDirection, SummaryOK, Counted
  <2>4. CASE ~R!Summarise
    BY <2>1, <2>2, <2>4
       DEF R!Next, R!FixedPage, R!SkipTable, R!EmptyTable, R!OpenTable, R!PrintRow, R!CloseTable,
           R!NextSection, R!Tables, SummaryOK
  <2> QED
    BY <2>3, <2>4
<1>6. R!RowsWhole'
  <2> USE DEF ReportInv, R!RowsWhole
  <2>1. CASE R!PrintRow
    <3>1. PICK r \in R!Rows[section] \ R!Printed, row \in Places, note \in Places :
              Prints(r, row, note)
      BY <2>1, Printing
    <3>2. row.page = note.page /\ (r \in analyses => header' = row.page)
      BY <2>1, <3>1, RowFits DEF DataOK, R!PrintRow
    <3> QED
      BY <1>2, <3>1, <3>2 DEF Prints, R!Printed
  <2>2. CASE ~R!PrintRow
    BY <1>2, <2>2 DEF R!Next, R!FixedPage, R!Summarise, R!SkipTable, R!EmptyTable, R!OpenTable,
       R!CloseTable, R!Printed
  <2> QED
    BY <2>1, <2>2
<1> QED
  BY <1>1, <1>3, <1>4, <1>5, <1>6 DEF ReportInv
-----------------------------------------------------------------------------
(***************************************************************************)
(* What a collection accounts for while it is under way.                   *)
(***************************************************************************)
\* Where Collect is, and in which namespace.
PlaceOK ==
    /\ at \in 0..Len(C!names)
    /\ step \in {"namespaces", "overview", "error"} => at = 0
    /\ step \in C!Lists \union {"machines", "pods"} => at # 0 /\ C!Scanned(at)
    /\ step = "done" => at = Len(C!names)

\* The queue holds workloads of the lists that have been read.
QueueOK ==
    \A w \in queue :
        /\ Home[w] = C!names[at]
        /\ \/ step = "machines" /\ Kind[w] = "vm"
           \/ step = "statefulSets" /\ Kind[w] = "deployment"
           \/ step = "pods" /\ Kind[w] \in {"deployment", "statefulSet"}

\* Nothing is known of the namespaces to come.
FutureOK ==
    /\ \A a \in analyses \union insufficient : a.scan \in 1..at
    /\ \A f \in failed : f[1] \in 1..at

\* A list that failed is behind, with what it would have led to.
FailedListsOK ==
    /\ <<at, "vms">> \in failed => step \notin {"vms", "machines"}
    /\ <<at, "deployments">> \in failed => step \in {"next", "done"}
    /\ <<at, "statefulSets">> \in failed =>
           /\ step \in {"pods", "next", "done"}
           /\ \A w \in queue : Kind[w] # "statefulSet"

\* The loop of the current namespace has not come to w yet.
Pending(w) ==
    \/ step = "vms" \/ w \in queue
    \/ Kind[w] # "vm" /\ step \in {"machines", "deployments"}
    \/ Kind[w] = "statefulSet" /\ step = "statefulSets"

Untouched(i, w) == ~C!Analysed(i, w) /\ ~C!TooFew(i, w) /\ <<i, w>> \notin failed

\* Account of one workload in one namespace that has been begun.
Settled(i, w) ==
    IF i = at /\ Pending(w) THEN Untouched(i, w)
    ELSE IF C!Due(i, w) THEN C!Account(i, w)
    ELSE ~C!Analysed(i, w) /\ ~C!TooFew(i, w)

SettledOK == \A i \in 1..at, w \in Workloads : Settled(i, w)

CollectorInv ==
    C!TypeOK /\ PlaceOK /\ QueueOK /\ FutureOK /\ FailedListsOK /\ SettledOK

\* The namespaces to go through do not change.
LEMMA NamesStay ==
    C!Next => /\ C!names' = C!names
              /\ \A i : C!Scanned(i)' = C!Scanned(i)
              /\ \A i, w : C!Due(i, w)' = C!Due(i, w)
<1> SUFFICES ASSUME C!Next PROVE asked' = asked /\ includeOS' = includeOS
    BY DEF C!names, C!Scanned, C!Due
<1> QED
  BY DEF C!Next, C!ListNamespaces, C!Overview, C!NextNamespace, C!List, C!ListFails, C!Take,
         C!Ignore, C!QueryFails, C!TooFewPoints, C!Analyse, C!Leaves, C!EndOfList, C!configuration

\* There is a finite number of namespaces to go through.
LEMMA NamesFinite == C!TypeOK => Len(C!names) \in Nat
  BY WorkloadsAssumption DEF C!TypeOK, C!names

\* Every step keeps the order of the loops.
LEMMA PlaceStep == CollectorInv /\ C!Next => PlaceOK' /\ QueueOK'
<1> SUFFICES ASSUME CollectorInv, C!Next PROVE PlaceOK' /\ QueueOK'
    OBVIOUS
<1> USE NamesStay, NamesFinite DEF CollectorInv, C!TypeOK, C!Steps, C!Lists, PlaceOK, QueueOK,
        C!configuration, C!found
<1>1. CASE C!ListNamespaces
  BY <1>1 DEF C!ListNamespaces
<1>2. CASE C!Overview
  BY <1>2 DEF C!Overview
<1>3. CASE C!NextNamespace
  BY <1>3 DEF C!NextNamespace
<1>4. CASE C!List
  <2>1. \A w \in C!Of(C!KindOf[step]) : Home[w] = C!names[at] /\ Kind[w] = C!KindOf[step]
    BY DEF C!Of
  <2> QED
    BY <1>4, <2>1 DEF C!List, C!AfterList, C!KindOf
<1>5. CASE C!ListFails
  BY <1>5 DEF C!ListFails, C!AfterFailedList
<1>6. CASE C!Take
  <2>1. UNCHANGED <<asked, includeOS, expired, step, at>> /\ queue' \subseteq queue
    BY <1>6 DEF C!Take, C!Ignore, C!QueryFails, C!TooFewPoints, C!Analyse, C!Leaves
  <2> QED
    BY <2>1
<1>7. CASE C!EndOfList
  BY <1>7 DEF C!EndOfList, C!Looking
<1> QED
  BY <1>1, <1>2, <1>3, <1>4, <1>5, <1>6, <1>7 DEF C!Next

\* Nothing is found, or fails, in a namespace that is still to come.
LEMMA FutureStep == CollectorInv /\ C!Next => FutureOK' /\ FailedListsOK'
<1> SUFFICES ASSUME CollectorInv, C!Next PROVE FutureOK' /\ FailedListsOK'
    OBVIOUS
<1> USE NamesFinite DEF CollectorInv, C!TypeOK, C!Steps, C!Lists, PlaceOK, QueueOK, FutureOK,
        FailedListsOK, C!configuration, C!found
<1>1. CASE C!ListNamespaces
  BY <1>1 DEF C!ListNamespaces
<1>2. CASE C!Overview
  BY <1>2 DEF C!Overview
<1>3. CASE C!NextNamespace
  BY <1>3 DEF C!NextNamespace
<1>4. CASE C!List
  BY <1>4 DEF C!List, C!AfterList, C!Of, C!KindOf
<1>5. CASE C!ListFails
  BY <1>5 DEF C!ListFails, C!AfterFailedList
<1>6. ASSUME NEW w \in Workloads, C!Ignore(w) PROVE FutureOK' /\ FailedListsOK'
  BY <1>6 DEF C!Ignore, C!Leaves
<1>7. ASSUME NEW w \in Workloads, C!QueryFails(w) PROVE FutureOK' /\ FailedListsOK'
  BY <1>7, WorkloadsAssumption DEF C!QueryFails, C!Leaves, C!Looking
<1>8. ASSUME NEW w \in Workloads, C!TooFewPoints(w) PROVE FutureOK' /\ FailedListsOK'
  BY <1>8 DEF C!TooFewPoints, C!Leaves, C!Looking
<1>9. ASSUME NEW w \in Workloads, C!Analyse(w) PROVE FutureOK' /\ FailedListsOK'
  BY <1>9, Analysing DEF C!Analyse, C!Leaves, C!Looking
<1>10. CASE C!EndOfList
  BY <1>10 DEF C!EndOfList, C!Looking
<1> QED
  BY <1>1, <1>2, <1>3, <1>4, <1>5, <1>6, <1>7, <1>8, <1>9, <1>10 DEF C!Next, C!Take

\* Steps that find nothing and fail at nothing leave every account as it is.
LEMMA AccountsStay ==
    ASSUME UNCHANGED <<analyses, insufficient, failed>>, NEW i, NEW w
    PROVE  /\ C!Analysed(i, w)' = C!Analysed(i, w) /\ C!TooFew(i, w)' = C!TooFew(i, w)
           /\ C!Account(i, w)' = C!Account(i, w) /\ Untouched(i, w)' = Untouched(i, w)
  BY DEF C!Analysed, C!TooFew, C!Account, C!Lost, Untouched

\* Entering, leaving and listing: what is pending changes, and no account.
LEMMA SettledBetween ==
    ASSUME CollectorInv, C!ListNamespaces \/ C!Overview \/ C!NextNamespace \/ C!List
                            \/ C!EndOfList,
           NEW i \in 1..at', NEW w \in Workloads
    PROVE  Settled(i, w)'
<1>1. UNCHANGED <<analyses, insufficient, failed>> /\ C!Next
  BY DEF C!ListNamespaces, C!Overview, C!NextNamespace, C!List, C!EndOfList, C!found, C!Next
<1>2. Kind[w] \in {"vm", "deployment", "statefulSet"}
  BY WorkloadsAssumption DEF C!Kinds
<1>3. Settled(i, w)' <=> IF i = at' /\ Pending(w)' THEN Untouched(i, w)
                         ELSE IF C!Due(i, w) THEN C!Account(i, w)
                         ELSE ~C!Analysed(i, w) /\ ~C!TooFew(i, w)
  BY <1>1, AccountsStay, NamesStay DEF Settled
<1> USE NamesFinite DEF CollectorInv, C!TypeOK, PlaceOK
\* A namespace that is entered.
<1>4. CASE C!NextNamespace /\ i \notin 1..at
  <2>1. i = at' /\ at' = at + 1
    BY <1>4 DEF C!NextNamespace
  <2>2. Untouched(i, w)
    BY <2>1 DEF FutureOK, Untouched, C!Analysed, C!TooFew
  <2>3. Pending(w)' \/ ~C!Due(i, w)
    BY <1>4, <2>1 DEF C!NextNamespace, Pending, C!Due
  <2> QED
    BY <1>3, <2>1, <2>2, <2>3 DEF Untouched
\* A namespace that was begun before.
<1>5. CASE C!NextNamespace /\ i \in 1..at
  <2>1. ~Pending(w) /\ (Pending(w)' => i # at')
    BY <1>5 DEF C!NextNamespace, Pending, QueueOK
  <2> QED
    BY <1>3, <1>5, <2>1 DEF Settled, SettledOK
<1>6. CASE ~C!NextNamespace
  <2>1. at' = at /\ Settled(i, w)
    BY <1>6 DEF C!ListNamespaces, C!Overview, C!List, C!EndOfList, SettledOK
  <2>2. \/ Pending(w)' <=> Pending(w)
        \/ i = at /\ Pending(w) /\ ~C!Due(i, w)
        \/ i # at
    <3>1. CASE C!List
      BY <1>2, <2>1, <3>1 DEF C!List, C!Lists, C!AfterList, C!KindOf, C!Of, C!Due, Pending, QueueOK
    <3>2. CASE C!EndOfList
      BY <1>2, <3>2 DEF C!EndOfList, C!Looking, Pending
    <3>3. CASE C!ListNamespaces \/ C!Overview
      BY <2>1, <3>3 DEF C!ListNamespaces, C!Overview
    <3> QED
      BY <1>6, <3>1, <3>2, <3>3
  <2> QED
    BY <1>3, <2>1, <2>2 DEF Settled, Untouched
<1> QED
  BY <1>4, <1>5, <1>6

\* A list that fails takes its workloads, and those of the list it hides, with it.
LEMMA SettledListFails ==
    ASSUME CollectorInv, C!ListFails, NEW i \in 1..at', NEW w \in Workloads
    PROVE  Settled(i, w)'
<1> USE DEF CollectorInv, C!TypeOK, PlaceOK
<1>1. /\ at' = at /\ queue' = queue /\ step \in C!Lists /\ Settled(i, w)
      /\ failed' = failed \union {<<at, step>>} /\ step' = C!AfterFailedList[step]
      /\ UNCHANGED <<analyses, insufficient>>
  BY DEF C!ListFails, C!found, SettledOK
<1>2. Kind[w] \in {"vm", "deployment", "statefulSet"} /\ w \notin C!Lists
  BY WorkloadsAssumption DEF C!Kinds
<1>3. /\ C!Analysed(i, w)' = C!Analysed(i, w) /\ C!TooFew(i, w)' = C!TooFew(i, w)
      /\ C!Due(i, w)' = C!Due(i, w) /\ (<<i, w>> \in failed') = (<<i, w>> \in failed)
  BY <1>1, <1>2, NamesStay DEF C!Next, C!Analysed, C!TooFew
<1>4. Untouched(i, w)' = Untouched(i, w)
  BY <1>3 DEF Untouched
<1>5. C!Lost(i, w) => C!Lost(i, w)'
  BY <1>1 DEF C!Lost
<1>6. CASE i = at /\ Pending(w)
  <2>1. Untouched(i, w)
    BY <1>1, <1>6 DEF Settled
  <2>2. Pending(w)' \/ C!Lost(i, w)' \/ ~C!Due(i, w)
    BY <1>1, <1>2, <1>6 DEF C!Lists, C!AfterFailedList, Pending, C!Lost, QueueOK
  <2>3. C!Lost(i, w)' => C!Account(i, w)'
    BY <1>1, <1>3, <2>1 DEF C!Account, Untouched, C!Analysed
  <2> QED
    BY <1>1, <1>3, <1>4, <1>6, <2>1, <2>2, <2>3 DEF Settled, Untouched
<1>7. CASE ~(i = at /\ Pending(w))
  <2>1. i = at => ~Pending(w)'
    BY <1>1, <1>2, <1>7 DEF C!Lists, C!AfterFailedList, Pending, QueueOK
  <2>2. C!Lost(i, w)' = C!Lost(i, w)
    BY <1>1, <1>2, <1>7 DEF C!Lost, C!Lists, Pending
  <2>3. C!Account(i, w)' = C!Account(i, w)
    BY <1>1, <1>3, <2>2 DEF C!Account
  <2> QED
    BY <1>1, <1>3, <1>7, <2>1, <2>3 DEF Settled
<1> QED
  BY <1>6, <1>7

\* A workload that leaves the queue has an account; the others keep theirs.
LEMMA SettledTake ==
    ASSUME CollectorInv, NEW v \in Workloads,
           C!Ignore(v) \/ C!QueryFails(v) \/ C!TooFewPoints(v) \/ C!Analyse(v),
           NEW i \in 1..at', NEW w \in Workloads
    PROVE  Settled(i, w)'
<1> USE DEF CollectorInv, C!TypeOK, PlaceOK
<1>1. /\ UNCHANGED <<asked, includeOS, step, at>>
      /\ C!Looking /\ v \in queue /\ queue' = queue \ {v} /\ Settled(i, w)
  BY DEF C!Ignore, C!QueryFails, C!TooFewPoints, C!Analyse, C!Leaves, C!configuration, SettledOK
<1>2. C!Due(i, w)' = C!Due(i, w)
  BY NamesStay DEF C!Next, C!Take
<1>3. w \notin C!Lists /\ v \notin C!Lists
  BY WorkloadsAssumption
<1>4. \A x \in Workloads : x # v => Pending(x)' = Pending(x)
  BY <1>1 DEF Pending
<1>5. Pending(v) /\ ~Pending(v)'
  BY <1>1 DEF Pending, C!Looking, QueueOK
\* Another workload, or another namespace.
<1>6. CASE ~(i = at /\ w = v)
  <2>1. /\ C!Analysed(i, w)' = C!Analysed(i, w) /\ C!TooFew(i, w)' = C!TooFew(i, w)
        /\ (<<i, w>> \in failed') = (<<i, w>> \in failed)
        /\ C!Lost(i, w)' = C!Lost(i, w)
        /\ C!Account(i, w)' = C!Account(i, w)
    <3>1. CASE C!Ignore(v)
      BY <3>1 DEF C!Ignore, C!found, C!Analysed, C!TooFew, C!Lost, C!Account
    <3>2. CASE C!QueryFails(v)
      <4>1. failed' = failed \union {<<at, v>>} /\ UNCHANGED <<analyses, insufficient>>
        BY <3>2 DEF C!QueryFails, C!found
      <4>2. /\ (<<i, w>> \in failed') = (<<i, w>> \in failed)
            /\ C!Lost(i, w)' = C!Lost(i, w)
        BY <1>3, <1>6, <4>1 DEF C!Lost, C!Lists
      <4> QED
        BY <4>1, <4>2 DEF C!Analysed, C!TooFew, C!Account
    <3>3. CASE C!TooFewPoints(v)
      <4>1. /\ insufficient' = insufficient \union {[scan |-> at, workload |-> v]}
            /\ UNCHANGED <<analyses, failed>>
        BY <3>3 DEF C!TooFewPoints
      <4>2. C!TooFew(i, w)' = C!TooFew(i, w)
        BY <1>6, <4>1 DEF C!TooFew
      <4> QED
        BY <4>1, <4>2 DEF C!Analysed, C!Lost, C!Account
    <3>4. CASE C!Analyse(v)
      <4>1. PICK direction \in C!Directions, covered \in BOOLEAN :
                analyses' = analyses \union
                    {[scan |-> at, workload |-> v, direction |-> direction,
                      covered |-> covered]}
        BY <3>4, Analysing
      <4>2. UNCHANGED <<insufficient, failed>>
        BY <3>4 DEF C!Analyse
      <4>3. \A a : a.scan = i /\ a.workload = w => (a \in analyses' <=> a \in analyses)
        BY <1>6, <4>1
      <4>4. C!Analysed(i, w)' = C!Analysed(i, w)
        BY <4>3 DEF C!Analysed
      <4> QED
        BY <4>2, <4>3, <4>4 DEF C!TooFew, C!Lost, C!Account
    <3> QED
      BY <3>1, <3>2, <3>3, <3>4
  <2>2. Untouched(i, w)' = Untouched(i, w)
    BY <2>1 DEF Untouched
  <2> QED
    BY <1>1, <1>2, <1>4, <1>6, <2>1, <2>2 DEF Settled
\* The one that leaves.
<1>7. CASE i = at /\ w = v
  <2>1. Untouched(i, w) /\ ~(i = at' /\ Pending(w)')
    BY <1>1, <1>5, <1>7 DEF Settled
  <2>2. ~C!Lost(i, w)
    BY <1>1, <1>7, <2>1 DEF C!Lost, C!Looking, Untouched, FailedListsOK, QueueOK
  <2>3. CASE C!Ignore(v)
    BY <1>2, <1>7, <2>1, <2>3
       DEF C!Ignore, C!found, C!Analysed, C!TooFew, C!Due, Settled, Untouched
  <2>4. CASE C!QueryFails(v)
    <3>1. C!Lost(i, w)' /\ ~C!Analysed(i, w)' /\ ~C!TooFew(i, w)'
      BY <1>1, <1>7, <2>1, <2>4
         DEF C!QueryFails, C!found, C!Lost, C!Analysed, C!TooFew, Untouched
    <3> QED
      BY <2>1, <3>1, <1>1 DEF Settled, C!Account, C!Analysed
  <2>5. CASE C!TooFewPoints(v) \/ C!Analyse(v)
    <3>1. C!Due(i, w)
      BY <1>1, <1>7, <2>5 DEF C!TooFewPoints, C!Analyse, C!Due, C!Looking, QueueOK
    <3>2. ~C!Lost(i, w)'
      BY <2>2, <2>5 DEF C!TooFewPoints, C!Analyse, C!Lost
    <3>3. CASE C!TooFewPoints(v)
      <4>1. C!TooFew(i, w)' /\ ~C!Analysed(i, w)'
        BY <1>1, <1>7, <2>1, <3>3 DEF C!TooFewPoints, C!TooFew, C!Analysed, Untouched
      <4> QED
        BY <1>2, <2>1, <3>1, <3>2, <4>1 DEF Settled, C!Account, C!Analysed
    <3>4. CASE C!Analyse(v)
      <4>1. PICK direction \in C!Directions, covered \in BOOLEAN :
                analyses' = analyses \union
                    {[scan |-> at, workload |-> v, direction |-> direction,
                      covered |-> covered]}
        BY <3>4, Analysing
      <4>2. C!Analysed(i, w)'
        <5> DEFINE entry == [scan |-> at, workload |-> v, direction |-> direction,
                             covered |-> covered]
        <5>1. entry.scan = i /\ entry.workload = w
          BY <1>7
        <5>2. entry \in analyses'
          BY <4>1
        <5> QED
          BY <5>1, <5>2 DEF C!Analysed
      <4>3. ~C!TooFew(i, w)'
        BY <2>1, <3>4 DEF C!Analyse, C!TooFew, Untouched
      <4>4. \A a, b \in analyses' :
               a.scan = i /\ b.scan = i /\ a.workload = w /\ b.workload = w => a = b
        BY <2>1, <4>1 DEF C!Analysed, Untouched
      <4> QED
        BY <1>2, <2>1, <3>1, <3>2, <4>2, <4>3, <4>4 DEF Settled, C!Account
    <3> QED
      BY <2>5, <3>3, <3>4
  <2> QED
    BY <2>3, <2>4, <2>5
<1> QED
  BY <1>6, <1>7

\* Every step of the collector keeps its invariant.
LEMMA CollectorStep == CollectorInv /\ C!Next => CollectorInv'
<1> SUFFICES ASSUME CollectorInv, C!Next PROVE CollectorInv'
    OBVIOUS
<1>1. C!TypeOK' /\ PlaceOK' /\ QueueOK' /\ FutureOK' /\ FailedListsOK'
  BY CollectorTypes, PlaceStep, FutureStep DEF CollectorInv
<1>2. ASSUME NEW i \in 1..at', NEW w \in Workloads PROVE Settled(i, w)'
  <2>1. CASE C!ListNamespaces \/ C!Overview \/ C!NextNamespace \/ C!List \/ C!EndOfList
    BY <2>1, SettledBetween
  <2>2. CASE C!ListFails
    BY <2>2, SettledListFails
  <2>3. CASE C!Take
    BY <2>3, SettledTake DEF C!Take
  <2> QED
    BY <2>1, <2>2, <2>3 DEF C!Next
<1> QED
  BY <1>1, <1>2 DEF CollectorInv, SettledOK

\* A finished collection has come to the end of every list.
LEMMA SettledAccounts == CollectorInv => C!Accounted
<1> SUFFICES ASSUME CollectorInv, step = "done", NEW i \in DOMAIN C!names, NEW w \in Workloads
             PROVE  IF C!Due(i, w) THEN C!Account(i, w)
                    ELSE ~C!Analysed(i, w) /\ ~C!TooFew(i, w)
    BY DEF C!Accounted
<1>1. C!names \in Seq(Namespaces)
  BY WorkloadsAssumption DEF CollectorInv, C!TypeOK, C!names
<1>2. i \in 1..at
  BY <1>1 DEF CollectorInv, PlaceOK
<1>3. ~Pending(w)
  BY DEF CollectorInv, QueueOK, Pending
<1> QED
  BY <1>2, <1>3 DEF CollectorInv, SettledOK, Settled

-----------------------------------------------------------------------------
(***************************************************************************)
(* Main.                                                                   *)
(***************************************************************************)
\* What is behind main in each of its phases.
MainOK ==
    /\ phase \in Phases
    /\ report \in {"none", "partial", "complete"}
    /\ nameFile \in {"untried", "written", "failed"}
    /\ marker \in BOOLEAN
    /\ phase \in {"none", "booting", "collecting", "preparing"} => section = "cover"
    /\ phase \in {"preparing", "rendering", "writing", "naming", "announcing", "serving"} =>
           step = "done"
    /\ phase \in {"writing", "naming", "announcing", "serving"} => section = "output"
    /\ phase \in {"none", "booting", "collecting", "preparing", "rendering"} => report = "none"
    /\ phase \in {"naming", "announcing", "serving"} => report = "complete"
    /\ phase \in {"announcing", "serving"} => nameFile # "untried"
    /\ marker =>
           /\ phase \in {"serving", "ended"}
           /\ step = "done" /\ section = "output"
           /\ report = "complete" /\ nameFile # "untried"

IInv == DataOK /\ CollectorInv /\ ReportInv /\ MainOK

\* All of it holds at the start.
LEMMA IInvInit == Init => IInv
<1> SUFFICES ASSUME Init PROVE IInv
    OBVIOUS
<1>1. DataOK
  BY FS_EmptySet DEF Init, C!Init, DataOK, C!TypeOK, C!Steps, C!Lists
<1>2. CollectorInv
  BY <1>1, NamesFinite
  DEF Init, C!Init, DataOK, C!TypeOK, CollectorInv, PlaceOK, QueueOK, FutureOK, FailedListsOK,
     SettledOK, C!Lists
<1>3. ReportInv
  BY LayoutAssumption
  DEF Init, R!Init, ReportInv, R!TypeOK, R!Sections, R!NextSection, R!Printed, R!NoSummary,
     HeaderOK, PrintedOK, SummaryOK, R!RowsWhole
<1>4. MainOK
  BY DEF Init, C!Init, R!Init, MainOK, Phases
<1> QED
  BY <1>1, <1>2, <1>3, <1>4 DEF IInv

\* The steps of main alone leave the data alone.
LEMMA MainSteps ==
    Starts \/ Boots \/ BootFails \/ CollectFails \/ Collected \/ Prepares \/ CreatesFile
      \/ WritesFile \/ WritesName \/ Announces \/ Stops \/ Ended \/ UNCHANGED vars
    => UNCHANGED <<collectVars, reportVars>>
  BY DEF Starts, Boots, BootFails, CollectFails, Collected, Prepares, CreatesFile, WritesFile,
     WritesName, Announces, Stops, Ended, vars

\* The end of the context, and steps that are not the collector's, leave its
\* invariant as it is.
LEMMA CollectorSame ==
    ASSUME CollectorInv, expired' \in BOOLEAN,
           UNCHANGED <<asked, includeOS, step, at, queue, analyses, insufficient, failed>>
    PROVE  CollectorInv'
<1> USE DEF CollectorInv
<1>1. C!names' = C!names /\ \A i : C!Scanned(i)' = C!Scanned(i)
  BY DEF C!names, C!Scanned
<1>2. C!TypeOK'
  BY DEF C!TypeOK
<1>3. PlaceOK' /\ QueueOK' /\ FutureOK' /\ FailedListsOK'
  BY <1>1 DEF PlaceOK, QueueOK, FutureOK, FailedListsOK
<1>4. ASSUME NEW i \in 1..at', NEW w \in Workloads PROVE Settled(i, w)'
  <2>1. C!Due(i, w)' = C!Due(i, w) /\ Pending(w)' = Pending(w)
    BY <1>1 DEF C!Due, Pending
  <2> QED
    BY <2>1, AccountsStay DEF SettledOK, Settled
<1> QED
  BY <1>2, <1>3, <1>4 DEF SettledOK

\* Steps that are not the report's leave its invariant as it is.
LEMMA ReportSame ==
    ASSUME ReportInv, UNCHANGED <<reportVars, analyses, insufficient>>
    PROVE  ReportInv'
<1>1. R!Printed' = R!Printed /\ R!Rows' = R!Rows /\ Counted' = Counted
  BY DEF reportVars, R!Printed, R!Rows, R!Candidates, R!VMs, R!Containers, R!Going, Counted
<1> QED
  BY <1>1 DEF ReportInv, reportVars, R!TypeOK, HeaderOK, PrintedOK, SummaryOK, R!RowsWhole,
     R!Candidates, R!VMs, R!Containers

\* As long as the cover is to be drawn, the data may grow.
LEMMA ReportWaits ==
    ASSUME ReportInv, UNCHANGED reportVars, section = "cover"
    PROVE  ReportInv'
<1>1. R!Printed' = {} /\ R!Printed = {} /\ header' = 0
  BY DEF reportVars, R!Printed, ReportInv, PrintedOK, HeaderOK, R!Tables
<1> QED
  BY <1>1 DEF ReportInv, reportVars, R!TypeOK, HeaderOK, PrintedOK, SummaryOK, R!RowsWhole

\* One workload at a time is analysed.
LEMMA DataStep == DataOK /\ C!Next => DataOK'
<1> SUFFICES ASSUME DataOK, C!Next PROVE IsFiniteSet(analyses')
    BY CollectorTypes DEF DataOK
<1>1. ASSUME NEW w \in Workloads, C!Analyse(w) PROVE IsFiniteSet(analyses')
  <2>1. PICK entry : analyses' = analyses \union {entry}
    BY <1>1, Analysing
  <2> QED
    BY <2>1, FS_AddElement DEF DataOK
<1>2. CASE UNCHANGED analyses
  BY <1>2 DEF DataOK
<1> QED
  BY <1>1, <1>2 DEF C!Next, C!ListNamespaces, C!Overview, C!NextNamespace, C!List, C!ListFails,
     C!Take, C!Ignore, C!QueryFails, C!TooFewPoints, C!EndOfList, C!found

\* Every step of the analyzer preserves the invariant.
LEMMA IInvStep == IInv /\ [Next]_vars => IInv'
<1> SUFFICES ASSUME IInv, [Next]_vars PROVE IInv'
    OBVIOUS
<1> USE DEF IInv
<1>1. CASE Starts \/ Boots \/ BootFails \/ CollectFails \/ Collected \/ Prepares \/ CreatesFile
             \/ WritesFile \/ WritesName \/ Announces \/ Stops \/ Ended \/ UNCHANGED vars
  <2>1. UNCHANGED <<collectVars, reportVars>>
    BY <1>1, MainSteps
  <2>2. DataOK' /\ CollectorInv'
    BY <2>1, CollectorSame DEF collectVars, DataOK, C!TypeOK
  <2>3. ReportInv'
    BY <2>1, ReportSame DEF collectVars
  <2>4. MainOK'
    <3> USE <2>1 DEF MainOK, Phases, Moves, collectVars, reportVars
    <3>1. CASE Starts \/ Boots \/ BootFails \/ Prepares
      BY <3>1 DEF Starts, Boots, BootFails, Prepares
    <3>2. CASE CollectFails \/ Collected
      BY <3>2 DEF CollectFails, Collected
    <3>3. CASE CreatesFile \/ WritesFile
      BY <3>3 DEF CreatesFile, WritesFile
    <3>4. CASE WritesName
      BY <3>4 DEF WritesName
    <3>5. CASE Announces
      BY <3>5 DEF Announces
    <3>6. CASE Stops
      BY <3>6 DEF Stops
    <3>7. CASE Ended \/ UNCHANGED vars
      BY <3>7 DEF Ended, vars, mainVars
    <3> QED
      BY <1>1, <3>1, <3>2, <3>3, <3>4, <3>5, <3>6, <3>7
  <2> QED
    BY <2>2, <2>3, <2>4
<1>2. CASE Expires
  <2>1. /\ expired' \in BOOLEAN
        /\ UNCHANGED <<asked, includeOS, step, at, queue, analyses, insufficient, failed>>
        /\ UNCHANGED <<mainVars, reportVars>>
    BY <1>2 DEF Expires
  <2>2. DataOK' /\ CollectorInv' /\ ReportInv'
    BY <2>1, CollectorSame, ReportSame DEF DataOK, C!TypeOK
  <2> QED
    BY <2>1, <2>2 DEF MainOK, mainVars, reportVars
<1>3. CASE Collects
  <2>1. C!Next /\ phase = "collecting" /\ UNCHANGED <<mainVars, reportVars>>
    BY <1>3 DEF Collects
  <2>2. DataOK' /\ CollectorInv' /\ ReportInv'
    BY <2>1, DataStep, CollectorStep, ReportWaits DEF MainOK
  <2> QED
    BY <2>1, <2>2 DEF MainOK, mainVars, reportVars
<1>4. CASE Renders
  <2>1. /\ R!Next /\ phase = "rendering" /\ UNCHANGED mainVars
        /\ UNCHANGED <<asked, includeOS, expired, step, at, queue, failed>>
    BY <1>4 DEF Renders
  <2>2. UNCHANGED <<analyses, insufficient>>
    BY <2>1, DataStays
  <2>3. DataOK' /\ CollectorInv' /\ ReportInv'
    BY <2>1, <2>2, CollectorSame, ReportStep DEF DataOK, C!TypeOK
  <2> QED
    BY <2>1, <2>3 DEF MainOK, mainVars
<1> QED
  BY <1>1, <1>2, <1>3, <1>4 DEF Next, MainStep

\* The inductive invariant holds in every behaviour.
LEMMA Invariance == Spec => []IInv
  BY IInvInit, IInvStep, PTL DEF Spec

-----------------------------------------------------------------------------
(***************************************************************************)
(* Theorems.                                                               *)
(***************************************************************************)
\* Every variable has its type, always.
THEOREM TypeCorrect == Spec => []TypeOK
<1>1. IInv => TypeOK
  BY DEF IInv, DataOK, CollectorInv, ReportInv, MainOK, TypeOK
<1> QED
  BY <1>1, Invariance, PTL

\* A finished collection accounts for every workload (vm.go, container.go): whatever
\* fails, and whenever the context ends.
THEOREM AccountsForAll == Spec => []Accounted
<1>1. IInv => Accounted
  BY SettledAccounts DEF IInv, Accounted
<1> QED
  BY <1>1, Invariance, PTL

\* Every row is in one piece, for any layout in which a row fits above the bottom of
\* a page (tables.go).
THEOREM WholeRows == Spec => []RowsWhole
<1>1. IInv => RowsWhole
  BY DEF IInv, ReportInv, RowsWhole
<1> QED
  BY <1>1, Invariance, PTL

\* At the end, what is printed is what was found.
LEMMA AllPrinted ==
    IInv /\ section = "output" => R!Printed = R!Candidates(analyses) \union insufficient
<1> SUFFICES ASSUME IInv, section = "output"
             PROVE  R!Candidates(analyses) \union insufficient \subseteq R!Printed
    BY DEF IInv, ReportInv, PrintedOK
<1>1. R!Candidates(analyses) \subseteq R!Candidates(R!VMs) \union R!Candidates(R!Containers)
  BY DEF R!Candidates, R!Containers
<1> QED
  BY <1>1 DEF IInv, ReportInv, PrintedOK

\* The cardinality of a set in two parts.
LEMMA Parts ==
    ASSUME NEW S, IsFiniteSet(S), NEW A \in SUBSET S, NEW B \in SUBSET S,
           A \union B = S, A \intersect B = {}
    PROVE  /\ Cardinality(S) = Cardinality(A) + Cardinality(B)
           /\ Cardinality(S) \in Nat /\ Cardinality(A) \in Nat /\ Cardinality(B) \in Nat
           /\ IsFiniteSet(A) /\ IsFiniteSet(B)
<1>1. IsFiniteSet(A) /\ IsFiniteSet(B) /\ IsFiniteSet(A \intersect B)
  BY FS_Subset
<1>2. Cardinality(A \union B) = Cardinality(A) + Cardinality(B) - Cardinality(A \intersect B)
  BY <1>1, FS_Union
<1> QED
  <2>1. Cardinality(A \intersect B) = 0
    BY FS_EmptySet
  <2>2. Cardinality(S) \in Nat /\ Cardinality(A) \in Nat /\ Cardinality(B) \in Nat
    BY <1>1, FS_CardinalityType
  <2> QED
    BY <1>1, <1>2, <2>1, <2>2

\* The numbers of the summary are those of the tables, and add up (summary.go).
THEOREM HonestSummary == Spec => []SummaryAgrees
<1>1. ASSUME IInv, section = "output" PROVE SummaryAgrees
  <2>1. /\ analyses \intersect insufficient = {} /\ IsFiniteSet(analyses)
        /\ \A a \in analyses : a.direction \in {"none", "downsize", "upsize"}
        /\ summary = Counted
    BY <1>1, Apart DEF IInv, DataOK, C!TypeOK, C!Directions, ReportInv, SummaryOK
  <2>2. R!Printed \ insufficient = R!Candidates(analyses)
    BY <1>1, <2>1, AllPrinted DEF R!Candidates
  <2> DEFINE vmCandidates == R!Candidates(R!VMs)
             containerCandidates == R!Candidates(R!Containers)
             down == R!Going("downsize")
             up   == R!Going("upsize")
  <2>3. Cardinality(analyses) = Cardinality(R!VMs) + Cardinality(R!Containers)
    BY <2>1, Parts DEF R!VMs, R!Containers
  <2>4. IsFiniteSet(R!Candidates(analyses))
    BY <2>1, FS_Subset DEF R!Candidates
  <2>5. Cardinality(R!Candidates(analyses)) =
            Cardinality(vmCandidates) + Cardinality(containerCandidates)
    BY <2>1, <2>4, Parts DEF R!VMs, R!Containers, R!Candidates
  <2>6. /\ Cardinality(R!Candidates(analyses)) = Cardinality(down) + Cardinality(up)
        /\ Cardinality(down) \in Nat /\ Cardinality(up) \in Nat
    <3>1. /\ down \in SUBSET R!Candidates(analyses) /\ up \in SUBSET R!Candidates(analyses)
          /\ down \union up = R!Candidates(analyses) /\ down \intersect up = {}
      BY <2>1 DEF R!Candidates, R!Going
    <3> QED
      BY <2>4, <3>1, Parts
  <2>7. /\ summary.candidates = Cardinality(R!Candidates(analyses))
        /\ summary.downsize = Cardinality(down) /\ summary.upsize = Cardinality(up)
        /\ summary.rightSized = Cardinality(analyses) - Cardinality(R!Candidates(analyses))
    BY <2>1, <2>3, <2>5 DEF Counted
  <2>8. Cardinality(analyses) \in Nat
    BY <2>1, FS_CardinalityType
  <2>9. /\ {r \in R!Candidates(analyses) : r.direction = "downsize"} = down
        /\ {r \in R!Candidates(analyses) : r.direction = "upsize"} = up
    BY DEF R!Candidates, R!Going
  <2> HIDE DEF down, up
  <2>10. summary.rightSized + summary.downsize + summary.upsize = Cardinality(analyses)
    BY <2>6, <2>7, <2>8
  <2> QED
    BY <2>2, <2>7, <2>9, <2>10, SameCardinality DEF SummaryAgrees, R!SummaryAgrees
<1>2. IInv => SummaryAgrees
  BY <1>1 DEF SummaryAgrees, R!SummaryAgrees
<1> QED
  BY <1>2, Invariance, PTL

\* A report that has been announced is whole, and whatever is due is in it or was
\* lost to a failed request (main.go).
THEOREM CompleteWhenServed == Spec => []ServedIsComplete
<1>1. ASSUME IInv, marker, NEW i \in DOMAIN C!names, NEW w \in Workloads, C!Due(i, w)
      PROVE  \/ C!Lost(i, w)
             \/ \E a \in analyses :
                   /\ a.scan = i /\ a.workload = w
                   /\ a.direction # "none" => a \in R!Printed
             \/ [scan |-> i, workload |-> w] \in insufficient \intersect R!Printed
  <2>1. step = "done" /\ R!Printed = R!Candidates(analyses) \union insufficient
    BY <1>1, AllPrinted DEF IInv, MainOK
  <2>2. C!Account(i, w)
    BY <1>1, <2>1, SettledAccounts DEF IInv, C!Accounted
  <2> QED
    BY <2>1, <2>2 DEF C!Account, C!Analysed, C!TooFew, R!Candidates
<1>2. IInv => ServedIsComplete
  BY <1>1 DEF ServedIsComplete, IInv, MainOK
<1> QED
  BY <1>2, Invariance, PTL

\* The analyzer implements the pod that the command relies on (run.go:113-145).
THEOREM ImplementsPod == Spec => PodAsPromised
<1> DEFINE state == IF phase \in {"none", "booting", "serving", "ended"} THEN phase
                    ELSE "collecting"
<1>1. Init => Pod!Init
  BY DEF Init, Pod!Init
<1>2. ASSUME IInv, [Next]_vars PROVE [Pod!Next]_Pod!vars
  <2> USE DEF Pod!Next, Pod!vars, Pod!Start, Pod!Collect, Pod!Write, Pod!Announce, Pod!End, Moves,
          IInv, MainOK, Phases
  <2>1. CASE Starts \/ Boots \/ BootFails
    BY <1>2, <2>1 DEF Starts, Boots, BootFails
  <2>2. CASE CollectFails \/ Collected \/ Prepares
    BY <1>2, <2>2 DEF CollectFails, Collected, Prepares
  <2>3. CASE CreatesFile \/ WritesFile
    BY <1>2, <2>3 DEF CreatesFile, WritesFile
  <2>4. CASE WritesName \/ Announces
    BY <1>2, <2>4 DEF WritesName, Announces
  <2>5. CASE Stops
    BY <1>2, <2>5 DEF Stops
  <2>6. CASE Collects \/ Renders \/ Expires \/ Ended \/ UNCHANGED vars
    BY <1>2, <2>6 DEF Collects, Renders, Expires, Ended, vars, mainVars
  <2> QED
    BY <1>2, <2>1, <2>2, <2>3, <2>4, <2>5, <2>6 DEF Next, MainStep
<1> QED
  BY <1>1, <1>2, Invariance, PTL DEF Spec, PodAsPromised, Pod!Spec
=============================================================================
