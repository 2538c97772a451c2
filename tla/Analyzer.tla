------------------------------ MODULE Analyzer ------------------------------
(***************************************************************************)
(* The analyzer's main (cmd/analyzer/main.go): collect, write the report   *)
(* and the file with the cluster's name, log the line the command waits    *)
(* for, and wait to be stopped. Composes Collector and Report, which share *)
(* the data of the report. The choice of the source is OvroAccess's.       *)
(***************************************************************************)
EXTENDS Integers, Sequences, FiniteSets

CONSTANTS
    Namespaces, Listing, Asked, Platform, Workloads, Home, Kind, Excluded, Unrequested,
    Answers, MinPoints, Expected,
    Top, Bottom, SectionHeight, TextHeight, HeaderHeight, RowHeight, NoteHeight, Guard

VARIABLES
    phase,      \* where main is
    report,     \* /output/report.pdf
    nameFile,   \* /output/cluster-name.txt: not tried, written, or failed
    marker,     \* has the report-ready line been logged?
    asked, includeOS, expired, step, at, queue, analyses, insufficient, failed,
    section, page, y, header, printed, summary

C == INSTANCE Collector
R == INSTANCE Report

ASSUME WorkloadsAssumption ==
    /\ Listing \in Seq(Namespaces) /\ Asked \subseteq Seq(Namespaces)
    /\ Home \in [Workloads -> Namespaces] /\ Kind \in [Workloads -> C!Kinds]
    /\ Workloads \intersect C!Lists = {}

\* A row fits above Bottom once it may begin, and below the first header of a page.
ASSUME LayoutAssumption ==
    /\ Top \in Nat /\ Bottom \in Nat /\ SectionHeight \in Nat /\ TextHeight \in Nat
    /\ HeaderHeight \in Nat /\ RowHeight \in Nat /\ NoteHeight \in Nat /\ Guard \in Nat
    /\ RowHeight + NoteHeight <= Guard
    /\ Top + HeaderHeight + Guard <= Bottom

mainVars    == <<phase, report, nameFile, marker>>
collectVars == <<asked, includeOS, expired, step, at, queue, analyses, insufficient, failed>>
reportVars  == <<section, page, y, header, printed, summary>>
vars == <<mainVars, collectVars, reportVars>>

Phases == {"none", "booting", "collecting", "preparing", "rendering", "writing", "naming",
           "announcing", "serving", "ended"}

TypeOK ==
    /\ phase \in Phases
    /\ report \in {"none", "partial", "complete"}
    /\ nameFile \in {"untried", "written", "failed"}
    /\ marker \in BOOLEAN
    /\ C!TypeOK /\ R!TypeOK

Init ==
    /\ phase = "none" /\ report = "none" /\ nameFile = "untried" /\ marker = FALSE
    /\ C!Init /\ R!Init

-----------------------------------------------------------------------------
Moves(from, to) ==
    /\ phase = from /\ phase' = to
    /\ UNCHANGED <<nameFile, marker>>

Starts == Moves("none", "booting") /\ UNCHANGED <<report, collectVars, reportVars>>

\* The clients, and the source of the samples.
Boots == Moves("booting", "collecting") /\ UNCHANGED <<report, collectVars, reportVars>>

\* The configuration of the cluster cannot be read: os.Exit(1).
BootFails == Moves("booting", "ended") /\ UNCHANGED <<report, collectVars, reportVars>>

Collects ==
    /\ phase = "collecting" /\ C!Next
    /\ UNCHANGED <<mainVars, reportVars>>

\* Collect returns an error only when the namespaces cannot be listed.
CollectFails ==
    /\ step = "error" /\ Moves("collecting", "ended")
    /\ UNCHANGED <<report, collectVars, reportVars>>

Collected ==
    /\ step = "done" /\ Moves("collecting", "preparing")
    /\ UNCHANGED <<report, collectVars, reportVars>>

\* The cluster's identity has a fallback for every failure; the output directory
\* has none.
Prepares ==
    /\ \/ Moves("preparing", "rendering")
       \/ Moves("preparing", "ended")
    /\ UNCHANGED <<report, collectVars, reportVars>>

Renders ==
    /\ phase = "rendering" /\ section # "output" /\ R!Next
    /\ UNCHANGED <<mainVars, asked, includeOS, expired, step, at, queue, failed>>

\* OutputFileAndClose creates the file and then writes it.
CreatesFile ==
    /\ section = "output"
    /\ \/ Moves("rendering", "writing") /\ report' = "partial"
       \/ Moves("rendering", "ended") /\ UNCHANGED report
    /\ UNCHANGED <<collectVars, reportVars>>

\* Fault variant: the error of Generate is ignored.
WritesFileOrNot ==
    /\ \/ Moves("writing", "naming") /\ report' = "complete"
       \/ Moves("writing", "naming") /\ UNCHANGED report
    /\ UNCHANGED <<collectVars, reportVars>>

WritesFile ==
    /\ \/ Moves("writing", "naming") /\ report' = "complete"
       \/ Moves("writing", "ended") /\ UNCHANGED report
    /\ UNCHANGED <<collectVars, reportVars>>

\* A failure is ignored.
WritesName ==
    /\ phase = "naming" /\ phase' = "announcing"
    /\ nameFile' \in {"written", "failed"}
    /\ UNCHANGED <<report, marker, collectVars, reportVars>>

\* Fault variant: the line is logged when the report has been rendered.
AnnouncesRendered ==
    /\ phase = "writing" /\ phase' = "serving"
    /\ marker' = TRUE
    /\ UNCHANGED <<report, nameFile, collectVars, reportVars>>

Announces ==
    /\ phase = "announcing" /\ phase' = "serving"
    /\ marker' = TRUE
    /\ UNCHANGED <<report, nameFile, collectVars, reportVars>>

\* SIGTERM, before or after the wait for it; the Job's deadline; the node.
Stops ==
    /\ phase \notin {"none", "ended"} /\ phase' = "ended"
    /\ UNCHANGED <<report, nameFile, marker, collectVars, reportVars>>

\* The 25-minute context ends, whatever the collector is doing.
Expires ==
    /\ phase \in {"booting", "collecting"} /\ ~expired
    /\ expired' = TRUE
    /\ UNCHANGED <<mainVars, asked, includeOS, step, at, queue, analyses, insufficient, failed,
                   reportVars>>

MainStep ==
    \/ Boots \/ BootFails \/ Collects \/ CollectFails \/ Collected \/ Prepares
    \/ Renders \/ CreatesFile \/ WritesFile \/ WritesName \/ Announces

\* A stopped analyzer is not started again.
Ended == phase = "ended" /\ UNCHANGED vars

Next == Starts \/ MainStep \/ Stops \/ Expires \/ Ended

Spec == Init /\ [][Next]_vars

\* The process is scheduled, and each of its requests ends: by its answer, by the
\* 30 seconds of the Prometheus client or with the context.
FairSpec == Spec /\ WF_vars(MainStep)

-----------------------------------------------------------------------------
\* The collection accounts for every workload (Collector).
Accounted == C!Accounted

\* Rows are in one piece, and the summary agrees with them (Report).
RowsWhole     == R!RowsWhole
SummaryAgrees == R!SummaryAgrees

\* When the line has been logged, both files have been dealt with and the report
\* is whole: every workload that is due was analysed and has a row if it is a
\* candidate, or has a row among those with insufficient data, or was lost to a
\* failed request (main.go:102-139). A deadline in the middle of the collection
\* does not change that.
ServedIsComplete ==
    marker =>
        /\ report = "complete" /\ nameFile # "untried"
        /\ \A i \in DOMAIN C!names, w \in Workloads :
              C!Due(i, w) =>
                  \/ C!Lost(i, w)
                  \/ \E a \in analyses :
                        /\ a.scan = i /\ a.workload = w
                        /\ a.direction # "none" => a \in R!Printed
                  \/ [scan |-> i, workload |-> w] \in insufficient \intersect R!Printed

\* The analyzer is the pod the command relies on: the line is logged once, when the
\* report is complete, and the report stays as it is (main.go:132-142). Module
\* OrchestratorRefinement shows that the command assumes no more of its pod.
Pod == INSTANCE Pod WITH
    state <- IF phase \in {"none", "booting", "serving", "ended"} THEN phase ELSE "collecting"

PodAsPromised == Pod!Spec

\* An analyzer that has started ends up serving its report, or ends: no failure and
\* no deadline keeps it at work (main.go:50, vm.go:54-63, container.go:77-84).
ServesOrEnds == phase = "booting" ~> phase \in {"serving", "ended"}

-----------------------------------------------------------------------------
\* What the design document promises and the code does not keep (Collector).
AnalysedIsCovered == C!AnalysedIsCovered
=============================================================================
