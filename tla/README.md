# Verification of rrrt

rrrt reports which workloads of an OpenShift cluster ask for too much or too
little. A command on the user's machine (`oc-rrrt`) creates a throw-away namespace
with a Job, the Job's pod (the analyzer) reads metrics from Prometheus or from
OVRO's VictoriaMetrics and writes a PDF, and the command downloads the PDF and
removes what it created. This directory holds TLA+ models of that program, TLC
runs over small instances of them, and theorems checked by TLAPS.

    Orchestrator.tla           one invocation of the command, its cluster and its pod
    Contract.tla               what an invocation promises, as a specification
    Pod.tla                    the pod as the command sees it, as a specification
    OrchestratorRefinement.tla Orchestrator as Contract, and its pod as Pod
    MCOrchestrator.tla         instances for TLC (5 runs)
    OrchestratorProofs.tla     inductive invariant and safety theorems
    RefinementProofs.tla       the two refinements, as theorems
    OvroAccess.tla             several invocations and the network policy they share
    MCOvroAccess.tla           instances for TLC (2 runs)
    OvroAccessProofs.tla       what may cost a run its access and its queries
    Calculator.tla             the percentile and the recommendations, as operators
    Rightsizing.tla            a workload that is reported about and resized, over time
    MCRightsizing.tla          instances for TLC (3 runs)
    CalculatorProofs.tla       what the calculator computes, for every input
    RightsizingProofs.tla      type correctness and honest advice, for every workload
    UsageProofs.tla            what advice means for the samples, and what follows it
    Collector.tla              which workloads get into which list of the report
    Report.tla                 the summary's numbers and the tables, row by row
    Analyzer.tla               the analyzer's main: composes Collector and Report
    MCAnalyzer.tla             instances for TLC (2 runs)
    AnalyzerProofs.tla         accounts, rows, summary and the refinement of Pod
    PROJECT.json               runs, mutants, source map, findings, hazards, theorems

`tlc -config MCOrchestrator.cfg MCOrchestrator.tla` and the like repeat a run,
`tlapm OrchestratorProofs.tla` and the like a proof. All runs together take about
seven minutes, and the proofs three.

How the modules fit together:

    Contract <--refines-- Orchestrator --assumes--> Pod <--implements-- Analyzer
                                                                        /      \
                              OvroAccess (the source)           Collector    Report
                              Calculator <- Rightsizing (one workload's advice)

## 1. Inventory

Sources are relative to `src/`.

**Command** (`cmd/oc-rrrt/main.go`, `internal/cli/`).
`cli.Run` goes from top to bottom: check for OpenShift, create namespace, make a
`Cleanup` and register the signal handler, create service account, CA bundle,
cluster role, two cluster role bindings and the Job, wait up to
`cfg.Timeout` (the flag `--timeout`) for the pod, follow its log until the line that says
that the report is ready, read the cluster's name and the PDF out of the pod, run the
cleanup, return.
*State:* where it is; the namespace's name; `Cleanup.crbNames`; the output file;
the context. *Concurrency:* a goroutine waits for SIGINT/SIGTERM, cancels the
context, runs the same `Cleanup.Run` as main may be running, and calls `os.Exit`.
Nothing locks `crbNames`. *Hard:* an error after each step, an error whose request
was executed all the same, a signal at every moment, two cleanups at once, a
cleanup racing late requests and a pod that is still at work, a log without a
timeout. *Correct when:* a finished cleanup is final, success leaves nothing
behind, nothing with cluster-wide rights survives, the exit status tells the truth
about the file, and the command ends.

**Cleanup** (`internal/cli/cleanup.go`). Deletes the network policy of the analyzer
(error dropped), the two bindings (errors logged), the namespace (on error the
manual commands are printed); with `--keep-namespace` nothing.

**Cluster.** The API server executes requests some time after they were sent; the
namespace controller empties a terminating namespace; the Job controller starts the
pod, never a second one (`backoffLimit: 0`), and deletes it at the deadline.
External, modelled from how the code uses it.

**Analyzer** (`cmd/analyzer/main.go`). Reads its configuration, looks for OVRO and
opens a network policy to it if it has the right to, probes the source, collects
under a 25-minute context, writes the PDF and the name file, logs the line, and waits
for a signal, which comes with the end of the namespace or at the Job's deadline.
*Hard:* one deadline over many queries (the rest fails and a partial report is a
success), files before the line, a policy whose name is the same for all runs.
*Correct when:* an announced report is whole, its gaps have a cause, and it ends.

**OVRO access** (`internal/collector/discovery.go`, `cmd/analyzer/main.go:59-95,
238-281`). Discovery of the CRD, the policy, the probe. *State:* one network policy
in OVRO's namespace, shared by all runs. *Hard:* the last run to end deletes the
policy that another one is using; a delete that fails is not noticed; a source that is
chosen once serves many queries, and `--ovro-endpoint` is taken without a probe.

**Collector** (`internal/collector/collector.go, vm.go, container.go`). Selects
namespaces, lists virtual machines, deployments and stateful sets, queries the
samples of each, sorts them into analysed and insufficient. *Hard:* failed lists
and queries drop workloads silently; what counts as enough data; queries that match by
name and return the series of other pods; units. *Correct
when:* whatever fails, every workload that is due is in one list, once, or was lost
to a failure of its own.
**Prometheus client** (`prometheus.go, queries.go`): one instant query at a time,
stateless. **Cluster overview** (`cluster.go`) and **owner resolver** (`owner/resolver.go`):
reads whose failure leaves a field empty.

**Calculator** (`internal/calculator/calculator.go`). Pure: percentile by linear
interpolation, downsizing with headroom, floors and minimum savings, upsizing to
70%. *Hard:* ranks at the ends, rounding, the order of floor and cap, what happens
when advice is followed and asked for again.

**PDF** (`internal/pdf/`). Summary counts and sums, tables over pages, drawing.
*Hard:* the library breaks pages between cells; the summary counts what the tables
filter again. *Correct when:* rows are in one piece and the summary is about them.
**Types** (`internal/types/`): data and constants.

PROJECT.json lists all of these as components with their status, and every hazard
of the code with its line and the properties that watch it.

## 2. Orchestrator

### State and actions

| variables | in the code |
|---|---|
| `pc`, `call` | where `cli.Run` is; the request it is at: unsent, sent, answered |
| `crbNames`, `names` | `Cleanup.crbNames`; what each goroutine read of it |
| `sig`, `cancelled` | the goroutine of `RegisterSignalHandler`; the context |
| `clean` | how far each goroutine is in `Cleanup.Run` |
| `output`, `proc` | the PDF on disk; the process and its exit status |
| `objs`, `inflight`, `terminating` | the cluster; requests not executed yet |
| `pod`, `marker` | the analyzer's pod; the report-ready line in its log |
| `faults`, `botched`, `keep` | failures still possible; deletes that failed; the flag |

A create request is three steps: `Send`, the server's `Execute` (or `Turn` for a
namespace that is gone, or `Refuse`), and `Receive` or `CreateFails`. `ReplyLost`
lets main give up on a request that is still on its way; the request may be executed
later. Every error path of `cli.Run` is `CleanUpAndFail`. `Delete(t)` walks
goroutine `t` through `Cleanup.Run` one request at a time, so the two goroutines
interleave between any two requests. `TornRead` is the data race on `crbNames`
(run.go:95 against cleanup.go:54): a torn slice header panics, otherwise the read
gets the old or the new value. `KilledByInterrupt` is a signal before the handler
exists. The pod is reduced to what the command and the cluster see of it: it may
open the policy while it boots, announce a report, or end at any moment.

### Runs

| run | shows |
|---|---|
| `orchestrator` | with one failure of each kind and a signal at any moment (21 412 states): `CleanupIsFinal`, `SuccessLeavesNothing`, `JobHasItsRights`, `HonestExit` and the types; the command always ends, although only the Job's deadline ends a log that hangs; recorded bindings are revoked; a cleaned-up namespace empties for good; `LeftoversHaveACause`: whatever mixture of errors, signals and lost replies ended a run, a binding or the namespace is left for one of four causes only, each a window in the code between an effect and its record; `NothingComesBack`: after the namespace no pod, no object in it, no policy and no recorded binding appears again; `CommandKeepsContract` and `AssumesNoMore` (below) |
| `error_cleans_up` (violated) | when the second binding is refused, the first one is left: its name was never recorded (rbac.go:136, run.go:90-95) |
| `interrupt_cleans_up` (violated) | a signal between the namespace's creation (run.go:68) and the handler's registration (run.go:73) leaves the namespace |
| `policy_cleaned_up` (violated) | a pod that is still booting creates the policy after the cleanup deleted it and before its rights are revoked |
| `failed_cleanup_reported` (violated) | a run that exits 0 can leave the policy without printing the manual commands |

The four violated runs state sentences of the design documents; PROJECT.json quotes
them with their lines.

**Bounds.** The only bound is that each kind of failure (a refused request, a lost
reply, a failed delete, a broken stream) happens at most once per run, which gives up
to four failures in one behaviour; main takes one error path in a run, and the second
failed delete of a kind does nothing a first one does not, since `botched` only
switches off promises. Nothing else is bounded: the objects, the goroutines and the
stages are those of the code.

**Fairness** (`FairSpec`). Weak fairness of each goroutine (the Go scheduler), of the
API server's answers, of the namespace controller and of the Job's deadline (a field
of the Job, job.go:57). Nothing is assumed of the pod, the user or the failures, so
`Terminates` holds for an analyzer that hangs. Deletes use `context.Background()`
(cleanup.go:48): an API server that never answers would keep the command alive, and
is excluded by the fairness of main's steps.

### Proved (OrchestratorProofs)

For every set of faults and with or without interrupts: `TypeCorrect`,
`CleanupFinal`, `SuccessIsClean`, `JobRights`, `Honesty`. None of the four
properties is inductive. `IInv` adds, in named parts, what each goroutine's control
says (`ControlOK`), which requests can still be on their way (`InflightOK`: only
main's current one, or the one it gave up on), that whoever knows the bindings'
names learned them after both requests had ended (`BoundOK`: no late request can
bring a binding back), what a cleanup under way has already taken away
(`DeletedOK`), what a complete report implies (`FinishingOK`: the pod is past
creating the policy) and what main has built so far (`BuiltOK`). `IInvStep` has one
step per action; only `Delete` needs a case per stage. The assumptions are the two
on the constants.

`Leftovers` and `NoReturn` rest on two more invariants, proved on top of `IInv`.
`EndOK` says how a process can have ended: without a namespace, before the handler, or
with a finished cleanup, and that main's cleanup read what main had recorded; with
`DeletedOK` that leaves the four causes. `GoneOK` says that the objects of the
namespace and the pod go with it; it needs only `WhoTouchesTheCluster`, the list of
the actions that touch objects or pod at all. That no late request brings anything back
is `InflightOK` for the namespace (its creation was confirmed before anybody could
delete it), `Execute`'s guard for what is in it, and `BoundOK` for recorded
bindings. `NoReturn` and `CleanupFinal` are the safety halves of `NamespaceEmptied`
and `RecordedBindingsRevoked`; those two and `Terminates` themselves are liveness and
only model-checked.

### Contract and Pod

`Contract` says what an invocation promises, without goroutines, requests or stages:
its rights are granted before its Job exists; what has been revoked is not granted
again; after a success nothing is granted any more, and every right is revoked; a
delivered report comes before success. `OrchestratorRefinement` maps `Orchestrator`
to it. A binding in the cluster is a right that is held; a binding that is not there
is revoked once a goroutine has read the names (`Known`), since nobody deletes a
binding before, and not granted yet otherwise. `excused` stands for
`--keep-namespace` and for a delete of a binding that failed. Late requests are
why the contract lets rights be granted after a failure, and only then; the
findings above are such failures. What is hard about `CommandKeepsContract` is
that a request main gave up on is executed at any later time, next to two
goroutines that revoke.

`Pod` is the command's side of the analyzer: one pod per Job, never restarted
(job.go:58, 62), the report-ready line implies a complete report, and the report
stays as it is until the pod ends. `AssumesNoMore` shows that the pod inside
`Orchestrator`, with a report that is complete when the marker is there, behaves
like `Pod`; `PodAsPromised` (section 5) that `Analyzer` does. The two together
close the gap between the two halves of the model: the command relies on
`Pod`, and the analyzer provides it. Orchestrator's pod may end at any moment
and says nothing about how long the analyzer takes, so no liveness is passed over.

**Proved (RefinementProofs).** `KeepsContract` and `ReliesOnPodOnly`, for every set of
faults. `RInv` extends `IInv` by what the mapping needs: until somebody has read the
names nobody has taken a binding away (`GrantedOK`), only goroutines with names take
bindings away (`NamedOK`), and how far each of them is (`RevokedOK`). `CommandStep` has a
step per action and, under `Delete` and `Execute`, a case per abstract step.

## 3. Calculator and Rightsizing

`Calculator` translates calculator.go to operators. Percentages are exact fractions
where the code has `float64`, so results are rounded only where the code rounds
(`math.Ceil`); a difference of one unit through floating-point error is outside the
model. Samples are a family of naturals over any finite index set, in hundredths
after interpolation; `Sorted(vals, k)` is defined by counting, not by sorting.

`Rightsizing` puts the calculator where the collector calls it (vm.go:65-129,
container.go:68-153) and closes the loop.

| operators and actions | in the code |
|---|---|
| `history`, `Tick` | the lookback window: at each point the samples of either resource, a sample per *series*, which is a container of a pod (queries.go:37-63) |
| `Returned(r)` | what the query for resource `r` returns (prometheus.go:120-149) |
| `Read(r)` | what the code makes of it: all series of a pod, concatenated (container.go:86-92); the first series of a virtual machine (vm.go:65-71) |
| `P95`, `Peak`, `CPUPercent`, `MemPercent` | percentile and maximum, in percent (container.go:105-113, vm.go:84-92) |
| `Report`, `QueryFails` | one look at the workload: `Recommendation`, or nothing when either query failed |
| `Apply` | the owner follows the advice, at any later time |

The query for a pod matches `name-.*` (queries.go:53, 60), so `Pods` are all pods it may
match: replicas, and the pods of other workloads whose names begin alike. `Own` are the
workload's own; the code cannot tell them apart, and only `CoversUsage` does. For a virtual
machine `Pods` are the nodes it was on, one series each; which comes first is the
server's choice, in the model a fixed one that is not specified (`First`). CPU and memory are asked apart and at different resolutions, so a moment
has samples of both, of one or of neither. Only CPU samples are counted (container.go:97,
vm.go:76): memory without samples counts as 0 and is cut down to the floor. A virtual
machine uses no more cores than it has and is given whole cores.

| run | shows |
|---|---|
| `rightsizing` (23 491 states, two minutes) | `AdviceIsHonest`: advice keeps floors, direction and minimum savings for the request it is applied to; `CoversSamples`: a downsize of a pod leaves at most 5% of all samples returned (as interpolation rounds) whose value with headroom is above the new request; `PeakAtSeventy`: an upsize of a pod is the least request of which no sample returned is above 70%; `ChasesOnlyBursts`: up-to-date advice that was applied is followed by none in the same direction, and a downsize by an upsize only if the samples are bursty; `SteadyUsageSettles`: on recurring usage without bursts the reports fall silent, at a request that no sample saturates unless what is missing is below the minimum savings |
| `pods_cover_usage` (violated) | with two containers, requests are summed (container.go:45-48) and samples are not (86-92): a pod is downsized below what it uses at every moment |
| `vm_peak_at_seventy` (violated) | a virtual machine's CPU percent is of one core (vm.go:84) and is applied to all its cores: four cores of which less than two are used become eleven |

**What is promised, and what not.** The percentile and the maximum are those of a mixture,
so that is what `CoversSamples` and `PeakAtSeventy` speak of. They do not say whose samples
the 5% are: a pod that is always busy beside twenty idle ones of the same prefix is
5% of the samples, and is downsized to what the idle ones need; a hot pod of another
workload decides an upsize alone. `CoversUsage` states the promise for every pod of the
workload, as the documents do. It is checked where it fails with the fewest samples, with
two containers. With one it fails by dilution, which takes more than 21 samples
(the rank `0.95 * (n - 1)` has to leave two behind), beyond what the passing run's windows hold;
`OneSeriesIsCovered` (below) says when it cannot fail.

**Bursts.** Growing looks at the maximum (calculator.go:59) and shrinking at the percentile
(calculator.go:66), so the two chase each other when the maximum is near saturation of what the
percentile with headroom asks for: `Bursty`. That needs no spike in time; one replica, or one
foreign pod, that is always hotter than the others has the same effect, on usage that
never changes, for ever. The passing run's instance contains such chases (80/64 becomes
42/18, which is too small for the peak), and `ChasesOnlyBursts` says that there are no
others. `SteadyUsageSettles` accordingly asks for samples whose percentile and maximum recur
(`Profile`, not each sample, so the window goes on moving) and are not bursty.

**Bounds.** A unit is 50m of CPU or 64Mi of memory, so the floors (2, 1) and the
minimum savings (5 and 4; 20 and 16 for virtual machines) keep the proportions of
types.go. Levels: idle, half a core, two cores, and much memory with little CPU;
requests: no memory, below the CPU floor, a middle and a large one. The moments of the
passing run: own pod idle; only its memory; only the CPU of a foreign pod; own pod idle and
foreign pod busy; and for machines nobody, a node idle, busy, only memory, two nodes at once.
The window has three points and two samples are enough, so the percentile interpolates, windows
have gaps in one resource or in both, one series or several, and old points leave. `MaxRequest`
only stops virtual machines, whose requests grow without end under the fault above; pods
never reach it, and `SteadyUsageSettles` speaks of pods. `MemUnit` is smaller
than 64Mi, for TLC's integers; any number that makes a unit of memory exceed 90 gives the same
branch of `Analyze`.

**Fairness.** The owner asks for reports unless another one would say the same, and
applies advice that keeps coming. Queries may fail again and again and each failure
withdraws the advice, so the fairness of `Apply` is strong. This is what following the tool
means, not something the code provides. Usage and failures are under no fairness:
`SteadyUsageSettles` only speaks of behaviours in which usage becomes steady.

**Proved (CalculatorProofs, RightsizingProofs).** `OrderStatistic`: there is a
sample of every rank, so the definition by counting is total; it rests on largest
and smallest samples of finite families, which come from the well-foundedness of
strict inclusion on finite sets, without induction. `PercentileLeavesFew`: less than
(100 - p)% of the samples, and one that interpolation rounds away, lie above the
percentile, for every family and every p. `HeadroomCovers`: hence the amount with
headroom covers the samples. `AnalyzeHonest`: what the calculator promises for
every input. `TypeCorrect` and `HonestAdvice`: the invariants of `Rightsizing` for
every workload, policy and window; `TypeOK` is inductive, and `AdviceIsHonest` is
inductive relative to it, because only `Apply` changes the request and it withdraws
the advice.

**Proved (UsageProofs).** For every set of pods, containers, moments and requests, every
window and every policy (headroom, threshold, floors, minimum savings).

- *Samples.* `DownsizeCoversSamples` and `UpsizeTargetsPeak` say what `Recommendation` means
  for the samples, for every resource whose percentages are of its request
  (`OwnPercent`) and all of whose series are read (`Read(r) = Returned(r)`). Pods satisfy
  both (`PodPercent`), whatever else the query matched: `SamplesAreCovered` (`CoversSamples`)
  and `PeakIsAtSeventy` (`PeakAtSeventy`). They stop at the samples because the code does.
- *One series.* When the query returns one pod's one container and nothing else, a sample is
  the pod's use (`OneSeries`; `SumOfOne` unfolds the library's sum, which over a single
  index is its base case and one step, so no induction is needed). `OneSeriesIsCovered`:
  then a downsize covers the pod. The hypothesis is not a convenience: with a second
  container the conclusion is false (`pods_cover_usage`), and so it is with enough replicas.
- *Machines.* `OwnPercentIsRight`: of a virtual machine whose answer has one series, the
  memory, if any is requested, and the CPU, if it has one core. So `vm_peak_at_seventy` can
  only fail for other numbers of cores, or for a machine with several series.
- *What follows advice.* `OnlyBurstsAreChased` (`ChasesOnlyBursts`): the next report on the
  same samples depends on the new request alone. After a downsize the amounts that headroom and
  floor give are at most those just granted, so nothing shrinks again, and a maximum
  that reaches the threshold of the new request is `Bursty` by definition of the
  percentages; after an upsize no sample is above 70%, which is below the threshold, so
  nothing grows again. The assumption is `UpsizeThreshold > 70` (90 in the code); without it
  growing would ask for more growing. Nothing is assumed of how percentile and maximum relate.

`SteadyUsageSettles` is liveness and only model-checked; `OnlyBurstsAreChased` is the reason
why it holds.

## 4. OvroAccess

`Orchestrator` follows one invocation. `OvroAccess` has any number of them, each
reduced to its analyzer and the delete of its cleanup, because there is one thing
they share: the network policy `allow-rrrt-to-victoriametrics` (main.go:242), which
admits one namespace and which every cleanup deletes (cleanup.go:51).

| variables | in the code |
|---|---|
| `phase`, `probes` | where the analyzer's `main` is; what is left of the loop of main.go:75 |
| `found` | `result.Detected` |
| `source` | `prometheusURL`, once it has been chosen: Thanos, OVRO, or the endpoint of `--ovro-endpoint` |
| `left`, `lost` | queries still to make; why some failed: an error of their own, or nobody answered |
| `expired` | the 25-minute context |
| `late` | the request to open the policy that the analyzer gave up on, if it may still be executed, or was after the cleanup |
| `cleaned` | the command's delete of the policy: not yet, failed, before or after the analyzer had opened it |
| `policy`, `store` | the namespace the policy admits; VictoriaMetrics, up, down or restored |

The source is chosen in one of three ways (main.go:59-95). `UsesEndpoint` takes the endpoint
the user named, without discovery, policy or probe; `KeepsThanos` is `--no-ovro` or a
cluster in which OVRO was not detected; after `Detects` the policy is opened and probed,
and `FallsBack` to Thanos if no probe succeeds. `createOVRONetworkPolicy` is two requests,
`Creates` and `Updates`, and other runs act in between: the policy that was found may be gone
when it is updated, which is an error that only warns. The reply to either may be lost
(`OpeningFails`): the analyzer goes on to its probes, and `OpensLate` is the server, which
executes the request at any later time, also after the cleanup. A probe may fail although
the run is admitted, since a policy takes time to spread (that is why the code probes six
times); taking it away acts at once. The context is checked where the code passes it on; the sleep
between probes does not look at it (main.go:81).

A query of the collection fails in one of two ways, and either way its workload is
skipped (vm.go:54-63). `QueryErrs` is an error of its own: a timeout, a status other than 200,
a body that does not decode (prometheus.go:104-118); it may strike any query of any
source. `Query` is answered, or is met by silence: when the context is over, when the run has
chosen OVRO and is not let in any more or VictoriaMetrics is down, and for a custom endpoint
at any time, since the run knows nothing of what is behind it: it may be VictoriaMetrics
behind a policy that admits nobody. `lost` keeps the two apart, because a hole of the second
kind lasts: every further query of the run meets the same silence until its cause
ends. An outage of Thanos is `QueryErrs` again and again.

`Cleanup` deletes the policy, whomever it admits; `CleanupFails` is the delete whose error
cleanup.go:51 drops, with the policy still there. A run has one delete here; that the
signal's goroutine may send a second one is in `Orchestrator`. `PodEnds` covers every exit of
`main`, the Job's deadline and the
end of the namespace; it takes time after the cleanup, so a pod works on.

| run | shows |
|---|---|
| `ovro_access` (1 075 626 states, two and a half minutes) | `PolicyHasOwner`: a policy that admits a run is not left by a cleanup of that run that deleted it, unless the cleanup came before the opening, or the opening was a late request; nothing is said of a cleanup whose delete failed, which does leave it (`failed_cleanup_reported`); `LosesAccessOnlyToOthers`: an admitted and probed run loses its access only to another run; `HolesHaveACause`: a query that nobody answered has a cause outside the run: no time, a custom endpoint, or an OVRO that was chosen and then failed or was taken away, so a run that fell back to Thanos is touched by neither; `WorkShrinks`: each step of an analyzer leaves it fewer phases, probes or queries and no step of anybody gives it more, so no run can keep another one busy; `EveryRunEnds` |
| `ovro_keeps_access` (violated) | the cleanup of one run deletes the policy that admits another |

**Bounds.** Two runs, since every property speaks of a run and one other, and one of
them (`Unlucky`) may lose the reply to its request, so that both the run itself and the other
see a late opening; two probes for
six, since only "one left" and "none left" differ. One query: no property relates two queries
of a run, and `lost` only grows; that the access may be lost after a successful query
adds nothing, since a query changes nothing but `left` and `lost`. The theorems hold for every
number of queries. **Fairness**: weak fairness of each analyzer, since it is scheduled and
each of its requests ends by a timeout (5 s for a probe, 30 s for a query) or with the
context. Nothing is assumed of the cleanup (`--keep-namespace` has none), of the pod's end or
of VictoriaMetrics.

**Proved (OvroAccessProofs).** `TypeCorrect`, `PolicyOwned`, `AccessLostToOthers` and
`HolesExplained` for any number of runs, probes and queries, and `AloneIsComplete`: a
run alone in the cluster that found its source itself, was not cut off and whose source did not
fail has lost nothing but queries that failed by themselves. The invariants are not
inductive by themselves; `PhasesOK` adds the order of `main`: who opens, also late, or
probes has found OVRO, an opening is never repeated (so a late cleanup stays late), and a source other than
Thanos is chosen at the end of the discovery and for good. `AccessStep` rests on
`TakenByOther` (the policy leaves a run by another run's hand) and `IntruderStays` (that hand
stays visible), and `HolesStep` on both and `QueryLost`. `WorkBounded` (`WorkShrinks`) has a
step per action of the analyzer; `WorkType` makes the measure a natural number, so an analyzer
takes at most `5 + Attempts + Queries` steps. `AloneKeepsAccess`: the sentence of
the design document that `ovro_keeps_access` refutes for two runs holds for one.
`EveryRunEnds` adds to `WorkShrinks` that a step is taken while there is work, which is
fairness and ENABLED, and is only model-checked.

## 5. Collector, Report and Analyzer

### State and actions

`Analyzer` is `main` of cmd/analyzer, from its start to its end. `C == INSTANCE Collector`
is the call of `Collect` (main.go:102), `R == INSTANCE Report` the call of `Generate`
(main.go:132); they share `analyses` and `insufficient`, the lists of `ReportData`.

| variables | in the code |
|---|---|
| `phase` | where `main` is |
| `report`, `nameFile`, `marker` | /output/report.pdf; /output/cluster-name.txt; the report-ready line |
| `asked`, `includeOS`, `expired` | the namespaces named with `-n`; `--include-openshift`; the 25-minute context |
| `step`, `at`, `queue` | where `Collect` is, in which namespace, and what is left of the current list |
| `analyses`, `insufficient` | `data.VMAnalyses` with `data.ContainerAnalyses`; `data.InsufficientData` |
| `failed` | history: which lists and queries failed |
| `section`, `page`, `y`, `header` | where `Generate` is; fpdf's cursor; the page of the last header |
| `printed`, `summary` | where each row was put; the numbers of the summary |

**Collector.** `ListNamespaces` is the only request whose failure is an error of `Collect`.
`NextNamespace` goes through `names` and skips what `filterNamespaces` drops. `List` and
`ListFails` are the three lists of a namespace: without the deployments the stateful sets
are not asked for (container.go:18-21), without the stateful sets the deployments are
still looked at (24-26), without the machines the containers are. `Ignore`, `QueryFails`,
`TooFewPoints` and `Analyse` are the ways through the body of either loop. Both queries
are one action: neither has an effect, and the loop leaves a workload the same way when
either fails. Once the context has expired every request fails. An answer is a number of
points in the workload's first series, in its other ones and in series of other workloads
that the pattern `name-.*` matches (queries.go:53); what the calculator says is any
direction here, and the subject of `Rightsizing`. The order within a list is left open,
`analyses` is a set of records that carry the index of the namespace they come from, so a
namespace that is named twice has its own records for each scan, as the code has its own rows.

**Report.** One action per section, and one per row of a table. `Cell` is fpdf's page
break: a cell that would cross the bottom of the page goes to a new one, without a header
(external). `Start` is the check at the head of the loop (tables.go:38-43), which the table
of insufficient data does not have. Heights are half millimetres.

**Analyzer.** `CreatesFile` and `WritesFile` split `OutputFileAndClose`, and `WritesName`
and `Announces` follow one by one, so a stop or a failure falls in between. `Stops` is
SIGTERM before or after `signal.Notify`, the Job's deadline or the node: it may come at
every moment. `Expires` is the context of main.go:50.

### Runs

| run | shows |
|---|---|
| `analyzer` (408 116 states, under a minute) | `Accounted`: a finished collection has each due workload in exactly one place - analysed once, insufficient once, or lost to a failed request about it - and nothing else; `RowsWhole`: no row is torn; `SummaryAgrees`: the numbers of the summary are those of the rows printed later; `ServedIsComplete`: behind the line there is a whole report with everything that is due and was not lost; `PodAsPromised`: `Analyzer` implements `Pod`; `ServesOrEnds` |
| `analysed_is_covered` (violated) | a virtual machine with points for 7 of 30 days is analysed, where the design document and the report's own text ask for half of them |

**Bounds.** Two namespaces: one with a workload of every kind and a deployment without
requests, one that the filter drops, with an excluded machine, and that may be named
twice. So every order of list failures, scans that contribute nothing and a second scan
of the same namespace occur; each of several workloads in one list can fail while the
others do not. Answers are none and just enough, in one series or spread. Pages are short (84
half millimetres below the top), so that tables go over a page with the second row, and the
heights keep the proportions of tables.go, with the same `Guard` of 12 mm over rows of 5.5 mm
and notes of 4 mm. In the violated run one namespace is named and answers go up to all points.

**Fairness** (`FairSpec`): weak fairness of `main`, whose requests all end (30 seconds in the
Prometheus client, or the context). Nothing is assumed of failures, of the end of the
context or of a stop, so `ServesOrEnds` says that none of them keeps the analyzer at work.
It is only model-checked.

### Proved (AnalyzerProofs)

For every cluster (any namespaces, any workloads, of any number), any answers and any
layout in which a row and its note fit above the bottom (`LayoutAssumption`, which the
run checks for its numbers; 5.5 + 4 <= 12 and a header of 7 mm in the code): `TypeCorrect`,
`AccountsForAll`, `WholeRows`, `HonestSummary`, `CompleteWhenServed` and `ImplementsPod`.

`Accounted` speaks only of finished collections and is far from inductive. `CollectorInv`
says of every workload of every namespace begun so far that it has its account, or is still
pending in the current loop and untouched (`SettledOK`); for a step to keep that, nothing may be
known of namespaces to come (`FutureOK`: otherwise the second scan of a namespace could
inherit from the first), the queue holds only workloads of the lists that were read
(`QueueOK`), and a list that failed is behind with what it hides (`FailedListsOK`).
`ReportInv` says what is printed at the latest in each section (`PrintedOK`), that the open
table of candidates has its header on the current page (`HeaderOK`) and that the summary was counted
from the lists as they still are (`SummaryOK`). `MainOK` ties the two to `phase`: lists no
longer change once rendering begins. `RowFits` is the arithmetic of the page,
`HonestSummary` the addition of the cardinalities of disjoint sets.

## 6. Observations without a run

- A lost reply to the namespace's creation leaves the namespace: `cli.Run` returns
  before it has a `Cleanup` (run.go:68-71). No document promises more; `LeftoversHaveACause` lists it.
- After a first signal every further one is swallowed (the channel has one slot and
  its reader is gone), so a cleanup that hangs cannot be interrupted.
- `os.Exit` in the signal goroutine can beat `os.Remove` in `copyFromPod` and leave a
  partial PDF; `HonestExit` exempts interrupted runs.
- The error of `os.Remove` is dropped (copy.go:43): where a file that was just created
  cannot be removed, a truncated PDF stays after a failure. The model removes it.
- Pods of other workloads with the same prefix, and replicas, are ranked with a
  workload's own (queries.go:53): a busy pod among twenty idle ones is downsized below its
  use, and one that is always hotter than the others makes reports grow and shrink the
  request for ever (section 3).
- Of a virtual machine with several series, one per node it was on, all but the first are
  ignored (vm.go:65-71), whichever the server puts first.
- With `--ovro-endpoint` there is no policy, no probe and no fallback (main.go:62-65): a
  wrong endpoint gives a report without rows and exit status 0.
- Virtual machines without a memory request always take the branch for more
  resources: bytes are compared with 90 percent (vm.go:89), so they are never
  downsized.
- Namespaces named with `-n` go through the filter like any other (collector.go:80-94);
  the design document says that no exclusions apply to them. `Scanned` has it as
  in the code, so `-n kube-system` gives a report without rows.
- `-n a -n a` scans the namespace twice: every workload has two rows and is counted
  twice in the summary. `Accounted` holds for each scan.
- A failed query is not mentioned in the report, only in the log; a workload lost to one
  cannot be told from one that does not exist. `Accounted` says no more than that such
  a failure is the only reason.
- A figure of the cluster overview whose query fails is shown as 0 (cluster.go:41-51).
- The table of insufficient data goes over pages without a repeated header.
- Memory points are never counted: a workload without any is analysed as one that
  uses no memory, and its memory is cut down to the floor (container.go:97, vm.go:76).

## 7. Plan

Done: the orchestrator with its contract, the policy that runs share, the calculator
and the loop around it, the collector, the report and the analyzer, each with its
proofs, and the refinements that join the two programs. What is left, in this order:

1. Two invocations on one machine: the temporary file for the cluster's name
   (run.go:230) is the only state they share there; it decides nothing but a file name.
2. The sums of savings in the summary, against those of the rows.

What stays with TLC: the liveness properties (`Terminates`, `RecordedBindingsRevoked`,
`NamespaceEmptied`, `SteadyUsageSettles`, `EveryRunEnds`, `ServesOrEnds`), since they need
fairness and ENABLED, which the prover does not handle; every other property of a passing
run is a theorem.

## 8. Not modelled

Flag parsing (cobra), the console URL (a read that only warns), PromQL and its
evaluation, HTTP and JSON in the Prometheus client, owner lookup (one read without
state; the report does not print the owner), the figures of the cluster overview, drawing,
the texts of justifications and progress lines, sums of savings. The PDF library
is modelled only by its page break. Of the cluster only what the code uses is there: when requests are
executed, the namespace's end, the Job's pod and deadline. Memory and CPU of the
analyzer, and the size of the report, are not bounded in the model.
