------------------------------- MODULE Report -------------------------------
(***************************************************************************)
(* pdf.Generate (internal/pdf): the numbers of the summary and the tables, *)
(* row by row over pages, as the PDF library places them. Heights are in   *)
(* half millimetres from the top of the page. The other sections put fixed *)
(* drawings on a page of their own. The order of the rows is left open.    *)
(***************************************************************************)
EXTENDS Integers, FiniteSets

CONSTANTS
    Kind,           \* the kind of each workload
    Top, Bottom,    \* where a page begins, and where the library breaks it
    SectionHeight,  \* a section's title and the gap below it
    TextHeight,     \* the text above the table of insufficient data
    HeaderHeight,   \* the header of a table
    RowHeight,      \* a row
    NoteHeight,     \* the justification below a row
    Guard           \* a row does not begin closer than this to Bottom

VARIABLES
    analyses,      \* what the collector found
    insufficient,
    section,       \* where Generate is
    page, y,       \* the cursor
    header,        \* the page of the current table's last header; 0 before the first
    printed,       \* where each printed row is, its note, and the header above it
    summary        \* the numbers of the executive summary

data == <<analyses, insufficient>>
vars == <<data, section, page, y, header, printed, summary>>

-----------------------------------------------------------------------------
Tables == {"vms", "containers", "insufficient"}

\* The sections in the order of Generate.
NextSection ==
    [cover |-> "summary", summary |-> "cluster", cluster |-> "vms", vms |-> "containers",
     containers |-> "insufficient", insufficient |-> "appendix", appendix |-> "output"]

Sections == DOMAIN NextSection \union {"output"}

VMs        == {a \in analyses : Kind[a.workload] = "vm"}
Containers == analyses \ VMs

\* filterCandidates.
Candidates(set)  == {a \in set : a.direction # "none"}
Going(direction) == {a \in analyses : a.direction = direction}

\* What a table is about, and what gets a row in it.
Subject == [vms |-> VMs, containers |-> Containers, insufficient |-> insufficient]
Rows    == [vms |-> Candidates(VMs), containers |-> Candidates(Containers),
            insufficient |-> insufficient]

Printed == DOMAIN printed

NoSummary == [analysed |-> 0, candidates |-> 0, rightSized |-> 0, downsize |-> 0, upsize |-> 0]

TypeOK ==
    /\ section \in Sections
    /\ page \in Nat /\ y \in Nat /\ header \in Nat
    /\ printed \in [Printed -> [page : Nat, note : Nat, header : Nat]]
    /\ Printed \subseteq analyses \union insufficient
    /\ summary \in [DOMAIN NoSummary -> Int]

Init ==
    /\ section = "cover"
    /\ page = 0 /\ y = Top /\ header = 0
    /\ printed = [r \in {} |-> 0]
    /\ summary = NoSummary

-----------------------------------------------------------------------------
NextPage(height) == page' = page + 1 /\ y' = Top + height

\* Cover, cluster overview and appendix.
FixedPage ==
    /\ section \in {"cover", "cluster", "appendix"}
    /\ NextPage(0)
    /\ section' = NextSection[section]
    /\ UNCHANGED <<data, header, printed, summary>>

\* Fault variant: the containers are forgotten in one of the counts.
CountVMs(direction) == Cardinality(Going(direction) \intersect VMs)

\* countDirections goes through both lists.
CountDirection(direction) == Cardinality(Going(direction))

\* The chart has the slices rightSized, downsize and upsize.
Summarise ==
    /\ section = "summary"
    /\ LET analysed   == Cardinality(VMs) + Cardinality(Containers)
           candidates == Cardinality(Candidates(VMs)) + Cardinality(Candidates(Containers))
       IN  summary' = [analysed   |-> analysed,
                       candidates |-> candidates,
                       rightSized |-> analysed - candidates,
                       downsize   |-> CountDirection("downsize"),
                       upsize     |-> CountDirection("upsize")]
    /\ NextPage(0)
    /\ section' = NextSection[section]
    /\ UNCHANGED <<data, header, printed>>

-----------------------------------------------------------------------------
\* A section without a subject gets no page.
SkipTable ==
    /\ section \in Tables /\ Subject[section] = {}
    /\ section' = NextSection[section]
    /\ UNCHANGED <<data, page, y, header, printed, summary>>

\* Nothing but "No rightsizing candidates found."
EmptyTable ==
    /\ section \in Tables /\ Subject[section] # {} /\ Rows[section] = {}
    /\ NextPage(SectionHeight)
    /\ section' = NextSection[section]
    /\ UNCHANGED <<data, header, printed, summary>>

OpenTable ==
    /\ section \in Tables /\ Rows[section] # {} /\ header = 0
    /\ NextPage(SectionHeight + HeaderHeight
                  + (IF section = "insufficient" THEN TextHeight ELSE 0))
    /\ header' = page + 1
    /\ UNCHANGED <<data, section, printed, summary>>

\* A cell that would cross the end of the page goes to a new one, without a header.
Cell(at, height) ==
    IF at.y + height > Bottom THEN [page |-> at.page + 1, y |-> Top + height]
                              ELSE [page |-> at.page, y |-> at.y + height]

\* Fault variant: the note is not thought of.
RoomForRow == y + RowHeight <= Bottom

Room == y + Guard <= Bottom

\* Where a row begins: only the tables of candidates begin a page by themselves,
\* and with a header.
Start ==
    IF section = "insufficient" \/ Room THEN [page |-> page, y |-> y]
    ELSE [page |-> page + 1, y |-> Top + HeaderHeight]

\* Every candidate has a justification; what has too little data has none.
PrintRow ==
    /\ section \in Tables /\ header # 0
    /\ \E r \in Rows[section] \ Printed :
          LET row  == Cell(Start, RowHeight)
              note == IF section = "insufficient" THEN row ELSE Cell(row, NoteHeight)
          IN  /\ page' = note.page /\ y' = note.y
              /\ header' = IF Start.page = page THEN header ELSE Start.page
              /\ printed' = [p \in Printed \union {r} |->
                     IF p = r THEN [page |-> row.page, note |-> note.page, header |-> header']
                              ELSE printed[p]]
    /\ UNCHANGED <<data, section, summary>>

CloseTable ==
    /\ section \in Tables /\ header # 0 /\ Rows[section] \subseteq Printed
    /\ section' = NextSection[section]
    /\ header' = 0
    /\ UNCHANGED <<data, page, y, printed, summary>>

Next ==
    \/ FixedPage \/ Summarise
    \/ SkipTable \/ EmptyTable \/ OpenTable \/ PrintRow \/ CloseTable

-----------------------------------------------------------------------------
\* Every row of a table is in one piece: its cells and its justification are on
\* the same page and, in the tables of candidates, below a header on that page
\* (tables.go:36-79). The library would tear a row at the end of a page.
RowsWhole ==
    \A r \in Printed :
        /\ printed[r].page = printed[r].note
        /\ r \in analyses => printed[r].header = printed[r].page

\* The numbers on the summary page, counted before the tables exist, are those of
\* the rows that follow, and the chart's slices add up to what was analysed
\* (summary.go:28-66, 78-103; tables.go:84-92).
SummaryAgrees ==
    section = "output" =>
        /\ summary.candidates = Cardinality(Printed \ insufficient)
        /\ \A direction \in {"downsize", "upsize"} :
              summary[direction] =
                  Cardinality({r \in Printed \ insufficient : r.direction = direction})
        /\ summary.rightSized + summary.downsize + summary.upsize = Cardinality(analyses)
=============================================================================
