---------------------------- MODULE Rightsizing -----------------------------
(***************************************************************************)
(* One workload and its reports over time: what its query matches leaves   *)
(* samples, the collector reads the lookback window and calls the          *)
(* calculator (internal/collector/vm.go, container.go), and the owner      *)
(* applies what the report recommends, which changes what the next report  *)
(* sees. A query matches by name, so the series it returns may be those of *)
(* several pods, also of other workloads (queries.go:53, 60), or those of  *)
(* the nodes a virtual machine has been on.                                *)
(***************************************************************************)
EXTENDS Calculator, Sequences, Functions

CONSTANTS
    Kinds,         \* the kinds of workload: "vm", "container" (deployment, stateful set)
    Pods,          \* the pods the queries match; for a virtual machine, the nodes it is on
    Own,           \* the pods of the workload itself
    Containers,    \* the containers of a pod; a virtual machine has one
    Moments,       \* of each kind, the samples there may be at a moment: [cpu, mem]
    Requests,      \* what the workload may request at the start: [cpu, mem]
    MinCPUSavings, \* of each kind
    MinMemSavings, \* of each kind
    Window,        \* the points of the lookback window
    MinPoints,     \* the samples that are enough: the steps of seven days
    Core,          \* units of CPU in a core
    MemUnit,       \* bytes in a unit of memory
    MaxRequest     \* bound: a larger recommendation is not applied

Resources == {"cpu", "mem"}

\* A query returns a series for each container of each pod it matches.
Series == Pods \X Containers

ASSUME WorkloadAssumption ==
    /\ Kinds \subseteq {"vm", "container"}
    /\ Own \subseteq Pods /\ IsFiniteSet(Pods) /\ IsFiniteSet(Containers)
    /\ \A k \in Kinds : \A m \in Moments[k] : \A r \in Resources :
          DOMAIN m[r] \subseteq Series /\ \A s \in DOMAIN m[r] : m[r][s] \in Nat
    /\ Requests \subseteq [cpu : Nat, mem : Nat]
    /\ MinCPUSavings \in [Kinds -> Nat \ {0}]
    /\ MinMemSavings \in [Kinds -> Nat \ {0}]
    /\ Window \in Nat \ {0} /\ MinPoints \in Nat \ {0}
    /\ Core \in Nat \ {0} /\ MemUnit \in Nat \ {0} /\ MaxRequest \in Nat

VARIABLES
    kind,      \* the workload's kind
    request,   \* what it requests now, all containers together
    history,   \* the window: at each of its points, the samples of either resource
    advice     \* what the last report recommends, until it is applied

vars == <<kind, request, history, advice>>

Init ==
    /\ kind \in Kinds
    /\ request \in Requests
    /\ history = <<>>
    /\ advice = NoAdvice

-----------------------------------------------------------------------------
\* The samples the query for a resource returns: a point of the window and a series.
Returned(r) ==
    {p \in (DOMAIN history) \X Series : p[2] \in DOMAIN history[p[1]][r]}

\* The series the server puts first: the order of an answer is its own.
First(answer) == CHOOSE s \in answer : TRUE

\* Fault variant: of a pod, too, only the first series is read.
ReadFirst(r) ==
    {p \in Returned(r) : p[2] = First({q[2] : q \in Returned(r)})}

\* The samples that are read: of a virtual machine those of the first series, of a pod
\* those of all series, concatenated.
Read(r) ==
    IF kind = "vm" THEN {p \in Returned(r) : p[2] = First({q[2] : q \in Returned(r)})}
                   ELSE Returned(r)

Vals(r) == [p \in Read(r) |-> history[p[1]][r][p[2]]]
P95(r)  == ComputePercentile(Vals(r), 95)
Peak(r) == MaxVal(Vals(r))

\* The percent of whole units that hundredths of a unit are.
PercentOf(hundredths, whole) == [num |-> hundredths, den |-> whole]

\* A virtual machine's usage, in cores, becomes percent without regard to how
\* many cores it has.
CPUPercent(hundredths) ==
    PercentOf(hundredths, IF kind = "vm" THEN Core ELSE request.cpu)

\* With no memory request, the bytes a virtual machine uses stand for percent.
MemPercent(hundredths) ==
    IF request.mem > 0 THEN PercentOf(hundredths, request.mem)
                       ELSE PercentOf(hundredths * MemUnit, 100)

\* A pod that does not request both resources is not looked at.
Skipped == kind = "container" /\ (request.cpu = 0 \/ request.mem = 0)

\* What the report says of the workload. Only the samples of the CPU are counted.
Recommendation ==
    IF Skipped \/ Cardinality(Read("cpu")) < MinPoints THEN NoAdvice
    ELSE Analyze([cpu    |-> request.cpu,
                  mem    |-> request.mem,
                  cpuP95 |-> CPUPercent(P95("cpu")),
                  memP95 |-> MemPercent(P95("mem")),
                  cpuMax |-> CPUPercent(100 * Peak("cpu")),
                  memMax |-> MemPercent(100 * Peak("mem")),
                  minCPUSavings |-> MinCPUSavings[kind],
                  minMemSavings |-> MinMemSavings[kind]])

Report ==
    /\ advice' = Recommendation
    /\ UNCHANGED <<kind, request, history>>

\* Either query fails: the workload is not in the report.
QueryFails ==
    /\ advice' = NoAdvice
    /\ UNCHANGED <<kind, request, history>>

\* A virtual machine gets whole cores.
Granted(cpu) == IF kind = "vm" THEN CeilDiv(cpu, Core) * Core ELSE cpu

\* The owner applies the last report, however old it is.
Apply ==
    /\ advice.direction # "none"
    /\ advice.cpu <= MaxRequest
    /\ request' = [cpu |-> Granted(advice.cpu), mem |-> advice.mem]
    /\ advice' = NoAdvice
    /\ UNCHANGED <<kind, history>>

\* A virtual machine cannot use more cores than it has.
Possible(moment) ==
    kind = "vm" => \A s \in DOMAIN moment.cpu : moment.cpu[s] <= request.cpu

\* Fault variant: the query has no range.
TickKeepsAll ==
    /\ \E moment \in Moments[kind] :
          Possible(moment) /\ history' = Append(history, moment)
    /\ UNCHANGED <<kind, request, advice>>

\* Time passes: a point enters the window and the oldest leaves a full one. The CPU is
\* queried at steps and the memory as it was scraped, so either may have no sample.
Tick ==
    /\ \E moment \in Moments[kind] :
          /\ Possible(moment)
          /\ history' = IF Len(history) < Window THEN Append(history, moment)
                                                 ELSE Append(Tail(history), moment)
    /\ UNCHANGED <<kind, request, advice>>

Next == Report \/ QueryFails \/ Apply \/ Tick

Spec == Init /\ [][Next]_vars

\* An owner who keeps asking for reports and applies advice that they keep giving. The
\* disjunction is WF_vars(Report): a report changes something exactly when there is a
\* new advice. Queries may fail again and again, so the fairness of Apply is strong.
FairSpec ==
    /\ Spec
    /\ []<>(Recommendation = advice) \/ []<><<Report>>_vars
    /\ SF_vars(Apply)

-----------------------------------------------------------------------------
\* The type invariant.
TypeOK ==
    /\ kind \in Kinds
    /\ request \in [cpu : Nat, mem : Nat]
    /\ history \in Seq(Moments[kind])
    /\ Len(history) <= Window
    /\ advice \in [direction : {"none", "downsize", "upsize"}, cpu : Nat, mem : Nat]

\* Advice still fits the request when it is applied, however long after the
\* report: a downsize raises neither resource and goes below no floor the
\* request was above, an upsize lowers neither, and one resource changes by as
\* much as is worth the trouble (calculator.go:74-93, 118-130).
AdviceIsHonest ==
    /\ advice.direction = "downsize" =>
          /\ advice.cpu <= request.cpu /\ advice.mem <= request.mem
          /\ advice.cpu < request.cpu => advice.cpu >= MinCPU
          /\ advice.mem < request.mem => advice.mem >= MinMem
          /\ \/ request.cpu - advice.cpu >= MinCPUSavings[kind]
             \/ request.mem - advice.mem >= MinMemSavings[kind]
    /\ advice.direction = "upsize" =>
          /\ advice.cpu >= request.cpu /\ advice.mem >= request.mem
          /\ \/ advice.cpu - request.cpu >= MinCPUSavings[kind]
             \/ advice.mem - request.mem >= MinMemSavings[kind]

-----------------------------------------------------------------------------
(***************************************************************************)
(* What a report promises, in terms of the samples of a resource that the  *)
(* query returned: those of all pods, mixed.                               *)
(***************************************************************************)
Sample(r, p) == history[p[1]][r][p[2]]

SamplesUncovered(r, amount) ==
    {p \in Returned(r) : Sample(r, p) * (100 + HeadroomPercent) > 100 * amount}

FewUncovered(r, amount) ==
    100 * (Cardinality(SamplesUncovered(r, amount)) - 1) <= 5 * (Cardinality(Returned(r)) - 1)

\* A downsize of a pod leaves at most 5% of the samples the query returned, rounded
\* as the interpolation rounds, whose value with the headroom is more than the new
\* request (calculator.go:34-71, container.go:86-113). It is not said whose samples
\* those 5% are: they may be all of one replica, when there are many.
CoversSamples ==
    [][ kind = "container" /\ advice' # advice /\ advice'.direction = "downsize" =>
          \A r \in Resources : advice'[r] < request[r] => FewUncovered(r, advice'[r]) ]_vars

\* The recommended amount is the least of which no sample is more than 70%.
TargetsSeventy(r, amount) ==
    /\ \A p \in Returned(r) : 100 * Sample(r, p) <= 70 * amount
    /\ \E p \in Returned(r) : 100 * Sample(r, p) > 70 * (amount - 1)

\* An upsize of a pod leaves no container of any pod that the query matched above
\* 70% at its peak, and is no larger than the hottest of them needs
\* (container.go:86-113, calculator.go:108-123).
PeakAtSeventy ==
    [][ kind = "container" /\ advice' # advice /\ advice'.direction = "upsize" =>
          \A r \in Resources : advice'[r] > request[r] => TargetsSeventy(r, advice'[r]) ]_vars

\* The same of a virtual machine's CPU (vm.go:84-106).
VMPeakAtSeventy ==
    [][ kind = "vm" /\ advice' # advice /\ advice'.direction = "upsize" =>
          (advice'.cpu > request.cpu => TargetsSeventy("cpu", advice'.cpu)) ]_vars

-----------------------------------------------------------------------------
\* What a pod as a whole uses, at the points where it was scraped.
Containing(pod, r, k) == {s \in DOMAIN history[k][r] : s[1] = pod}

Scraped(pod, r) == {k \in DOMAIN history : Containing(pod, r, k) # {}}

PodUse(pod, r, k) ==
    SumFunctionOnSet([s \in Containing(pod, r, k) |-> history[k][r][s]], Containing(pod, r, k))

Uncovered(pod, r, amount) ==
    {k \in Scraped(pod, r) : PodUse(pod, r, k) * (100 + HeadroomPercent) > 100 * amount}

PodCovered(pod, r, amount) ==
    100 * (Cardinality(Uncovered(pod, r, amount)) - 1) <= 5 * (Cardinality(Scraped(pod, r)) - 1)

\* A downsize covers at least 95% of the moments of each pod of the workload,
\* rounded (calculator.go:34-71, container.go:38-62, 86-113).
CoversUsage ==
    [][ kind = "container" /\ advice' # advice /\ advice'.direction = "downsize" =>
          \A r \in Resources : advice'[r] < request[r] =>
              \A pod \in Own : PodCovered(pod, r, advice'[r]) ]_vars

-----------------------------------------------------------------------------
\* The largest sample is near saturation of what a downsize would leave: the
\* percentile with the headroom.
Bursty(r) ==
    /\ Peak(r) > 0
    /\ 10000 * (100 * Peak(r)) >= UpsizeThreshold * (100 + HeadroomPercent) * P95(r)

\* When advice that is up to date is applied, no advice in the same direction
\* follows on the same samples; and what follows a downsize is an upsize only if the
\* samples are bursty. So a run of the tool cannot grow or shrink what it has
\* just grown or shrunk, and growing and shrinking chase each other only over a
\* peak that the percentile leaves out (calculator.go:56-160).
ChasesOnlyBursts ==
    [][ request' # request /\ kind = "container" /\ advice = Recommendation =>
          /\ Recommendation'.direction # advice.direction
          /\ advice.direction = "downsize" /\ Recommendation' # NoAdvice =>
                \E r \in Resources : Bursty(r) ]_vars

\* Pods with enough samples and without bursts.
Calm ==
    /\ kind = "container" /\ ~Skipped
    /\ Cardinality(Read("cpu")) >= MinPoints
    /\ \A r \in Resources : ~Bursty(r)

\* What the calculator learns from the samples.
Profile == <<P95("cpu"), Peak("cpu"), P95("mem"), Peak("mem")>>

\* No sample is near saturation, or what is missing is not worth a recommendation.
Enough(r, least) ==
    \A p \in Returned(r) :
        \/ 100 * Sample(r, p) < UpsizeThreshold * request[r]
        \/ CeilDiv(100 * Sample(r, p), 70) - request[r] < least

\* When the samples keep their percentile and their peak from one report to the
\* next, as those of a load that recurs, and are not bursty, an owner who follows
\* the reports gets to a request about which they have nothing more to say, and
\* which is enough (calculator.go:56-160).
SteadyUsageSettles ==
    (<>[]Calm /\ <>[][UNCHANGED Profile]_history) =>
        <>[](/\ advice = NoAdvice
             /\ Enough("cpu", MinCPUSavings[kind])
             /\ Enough("mem", MinMemSavings[kind]))
=============================================================================
