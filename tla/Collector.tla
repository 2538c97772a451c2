----------------------------- MODULE Collector ------------------------------
(***************************************************************************)
(* Collector.Collect (internal/collector): which workloads of which        *)
(* namespaces end up in the report, and in which of its lists. Every       *)
(* request to the API server or to Prometheus may fail, and all of them    *)
(* fail once the context has expired. What the calculator says of a        *)
(* workload is the subject of Rightsizing; here it is any direction.       *)
(***************************************************************************)
EXTENDS Integers, Sequences

CONSTANTS
    Namespaces,   \* the namespaces of the cluster
    Listing,      \* the order in which the API server lists them
    Asked,        \* the lists of namespaces a user may name with -n
    Platform,     \* the namespaces called openshift-*, kube-* or rrrt-*
    Workloads,    \* all workloads of the cluster
    Home, Kind,   \* the namespace and the kind of each
    Excluded,     \* those with the annotation that excludes them
    Unrequested,  \* those without a request for CPU or for memory
    Answers,      \* what a query may say of each workload
    MinPoints,    \* the points of seven days
    Expected      \* the points of the lookback

Kinds == {"vm", "deployment", "statefulSet"}

VARIABLES
    asked,         \* the namespaces named with -n; none means all
    includeOS,     \* --include-openshift
    expired,       \* is the context of the collection over?
    step,          \* where Collect is
    at,            \* the index of the namespace it is at
    queue,         \* the workloads still to look at in the current list
    analyses,      \* data.VMAnalyses and data.ContainerAnalyses
    insufficient,  \* data.InsufficientData
    failed         \* the requests that failed

vars == <<asked, includeOS, expired, step, at, queue, analyses, insufficient, failed>>

-----------------------------------------------------------------------------
Lists == {"vms", "deployments", "statefulSets"}

Steps == Lists \union {"namespaces", "overview", "next", "machines", "pods", "done", "error"}

Directions == {"none", "downsize", "upsize"}

\* The namespaces to go through, before the filter.
names == IF asked = <<>> THEN Listing ELSE asked

\* filterNamespaces, one namespace at a time: it looks at the names, however
\* they came to be asked for.
Scanned(i) == includeOS \/ names[i] \notin Platform

(***************************************************************************)
(* The answer of a range query, as numbers of points: in the first series  *)
(* of the workload, in its other series (a machine that migrated, the      *)
(* other pods and containers), and in the series of other workloads, which *)
(* the pattern name-.* matches when their names begin with name- as well.  *)
(***************************************************************************)
\* How many points the code has in its hands.
Read(w, answer) ==
    IF Kind[w] = "vm" THEN answer.first
                      ELSE answer.first + answer.others + answer.foreign

\* Do at least half of the lookback's points describe this workload?
Covered(answer) == 2 * (answer.first + answer.others) >= Expected

TypeOK ==
    /\ asked \in Asked /\ includeOS \in BOOLEAN /\ expired \in BOOLEAN
    /\ step \in Steps
    /\ at \in Nat
    /\ queue \subseteq Workloads
    /\ analyses \subseteq [scan : Nat, workload : Workloads, direction : Directions,
                           covered : BOOLEAN]
    /\ insufficient \subseteq [scan : Nat, workload : Workloads]
    /\ failed \subseteq Nat \X (Lists \union Workloads)

Init ==
    /\ asked \in Asked /\ includeOS \in BOOLEAN /\ expired = FALSE
    /\ step = "namespaces" /\ at = 0 /\ queue = {}
    /\ analyses = {} /\ insufficient = {} /\ failed = {}

configuration == <<asked, includeOS, expired>>
found == <<analyses, insufficient>>

-----------------------------------------------------------------------------
\* The namespaces are listed only when none are named.
ListNamespaces ==
    /\ step = "namespaces"
    /\ \/ step' = "overview" /\ (asked = <<>> => ~expired)
       \/ step' = "error" /\ asked = <<>>
    /\ UNCHANGED <<configuration, at, queue, found, failed>>

\* Twelve figures about the cluster; one that cannot be had is shown as 0.
Overview ==
    /\ step = "overview" /\ step' = "next"
    /\ UNCHANGED <<configuration, at, queue, found, failed>>

\* The head of the loop over the filtered namespaces.
NextNamespace ==
    /\ step = "next"
    /\ IF at < Len(names)
         THEN at' = at + 1 /\ step' = (IF Scanned(at + 1) THEN "vms" ELSE "next")
         ELSE step' = "done" /\ UNCHANGED at
    /\ UNCHANGED <<configuration, queue, found, failed>>

Of(kind) == {w \in Workloads : Home[w] = names[at] /\ Kind[w] = kind}

\* What follows a list that could be read, and one that could not: without the
\* deployments the stateful sets are not asked for.
AfterList == [vms |-> "machines", deployments |-> "statefulSets", statefulSets |-> "pods"]
AfterFailedList == [vms |-> "deployments", deployments |-> "next", statefulSets |-> "pods"]

KindOf == [vms |-> "vm", deployments |-> "deployment", statefulSets |-> "statefulSet"]

List ==
    /\ step \in Lists /\ ~expired
    /\ queue' = queue \union Of(KindOf[step])
    /\ step' = AfterList[step]
    /\ UNCHANGED <<configuration, at, found, failed>>

ListFails ==
    /\ step \in Lists
    /\ failed' = failed \union {<<at, step>>}
    /\ step' = AfterFailedList[step]
    /\ UNCHANGED <<configuration, at, queue, found>>

-----------------------------------------------------------------------------
(***************************************************************************)
(* The loop over the workloads of a list. The annotation is looked at      *)
(* first, then (for pods) the requests, then both queries are made.        *)
(***************************************************************************)
Looking == step \in {"machines", "pods"}

Ignored(w) == w \in Excluded \/ (Kind[w] # "vm" /\ w \in Unrequested)

Leaves(w) ==
    /\ Looking /\ w \in queue
    /\ queue' = queue \ {w}
    /\ UNCHANGED <<configuration, step, at>>

Ignore(w) == Leaves(w) /\ Ignored(w) /\ UNCHANGED <<found, failed>>

\* Fault variants: the loop ends, or tries again, instead of going on.
QueryFailsForGood(w) ==
    /\ Looking /\ w \in queue /\ ~Ignored(w)
    /\ failed' = failed \union {<<at, w>>}
    /\ queue' = {}
    /\ UNCHANGED <<configuration, step, at, found>>

QueryFailsRetried(w) ==
    /\ Looking /\ w \in queue /\ ~Ignored(w)
    /\ failed' = failed \union {<<at, w>>}
    /\ UNCHANGED <<configuration, step, at, queue, found>>

\* Fault variant: a failure is noted the wrong way round.
QueryFailsSwapped(w) ==
    /\ Leaves(w) /\ ~Ignored(w)
    /\ failed' = failed \union {<<w, at>>}
    /\ UNCHANGED found

\* One of the two queries fails: the workload is left out.
QueryFails(w) ==
    /\ Leaves(w) /\ ~Ignored(w)
    /\ failed' = failed \union {<<at, w>>}
    /\ UNCHANGED found

\* Only the points of the CPU are counted.
TooFewPoints(w) ==
    /\ Leaves(w) /\ ~Ignored(w) /\ ~expired
    /\ \E cpu \in Answers[w] : Read(w, cpu) < MinPoints
    /\ insufficient' = insufficient \union {[scan |-> at, workload |-> w]}
    /\ UNCHANGED <<analyses, failed>>

\* The owner's label is looked up as well; without it the field stays empty.
Analyse(w) ==
    /\ Leaves(w) /\ ~Ignored(w) /\ ~expired
    /\ \E cpu, mem \in Answers[w], direction \in Directions :
          /\ Read(w, cpu) >= MinPoints
          /\ analyses' = analyses \union
                 {[scan |-> at, workload |-> w, direction |-> direction,
                   covered |-> Covered(cpu) /\ Covered(mem)]}
    /\ UNCHANGED <<insufficient, failed>>

EndOfList ==
    /\ Looking /\ queue = {}
    /\ step' = IF step = "machines" THEN "deployments" ELSE "next"
    /\ UNCHANGED <<configuration, at, queue, found, failed>>

Take == \E w \in Workloads : Ignore(w) \/ QueryFails(w) \/ TooFewPoints(w) \/ Analyse(w)

Next ==
    \/ ListNamespaces \/ Overview \/ NextNamespace \/ List \/ ListFails
    \/ Take \/ EndOfList

-----------------------------------------------------------------------------
(***************************************************************************)
(* What a collection owes to its reader.                                   *)
(***************************************************************************)
\* Workload w belongs in what the i-th namespace contributes.
Due(i, w) == Scanned(i) /\ Home[w] = names[i] /\ ~Ignored(w)

\* A request about it failed: its own query, or a list it would have been in.
Lost(i, w) ==
    \/ <<i, w>> \in failed
    \/ Kind[w] = "vm" /\ <<i, "vms">> \in failed
    \/ Kind[w] # "vm" /\ <<i, "deployments">> \in failed
    \/ Kind[w] = "statefulSet" /\ <<i, "statefulSets">> \in failed

Analysed(i, w) == \E a \in analyses : a.scan = i /\ a.workload = w
TooFew(i, w)   == [scan |-> i, workload |-> w] \in insufficient

\* Exactly one of three.
Account(i, w) ==
    /\ Lost(i, w) \/ Analysed(i, w) \/ TooFew(i, w)
    /\ Lost(i, w) => ~Analysed(i, w) /\ ~TooFew(i, w)
    /\ ~(Analysed(i, w) /\ TooFew(i, w))
    /\ \A a, b \in analyses :
          a.scan = i /\ b.scan = i /\ a.workload = w /\ b.workload = w => a = b

\* Whatever fails in between, and wherever the context ends, a finished
\* collection accounts for every workload that is due: it is analysed once,
\* listed as insufficient once, or lost to a failed request of its own or to a
\* list it was in (collector.go:61-73, vm.go:22-80, container.go:18-102). Nothing
\* else gets in.
Accounted ==
    step = "done" =>
        \A i \in DOMAIN names, w \in Workloads :
            IF Due(i, w) THEN Account(i, w) ELSE ~Analysed(i, w) /\ ~TooFew(i, w)

\* docs/superpowers/specs/2026-05-07-rrrt-design.md: "Resources with less than 50%
\* metric coverage of the lookback window are not analyzed". The code counts the
\* CPU points of seven days, whoever they belong to, and no memory points
\* (vm.go:73-75, container.go:94-96).
AnalysedIsCovered == \A a \in analyses : a.covered
=============================================================================
