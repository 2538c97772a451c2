---------------------------- MODULE Orchestrator ----------------------------
(***************************************************************************)
(* One invocation of oc-rrrt: cli.Run (internal/cli/run.go) creates a      *)
(* namespace, a service account, a CA bundle, a cluster role, two cluster  *)
(* role bindings and a Job, follows the log of the Job's pod, downloads    *)
(* the report and deletes what it created (internal/cli/cleanup.go).       *)
(*                                                                         *)
(* Four parties take turns here:                                           *)
(*   - the main goroutine (pc, call, crbNames, output), which runs         *)
(*     cli.Run from top to bottom;                                         *)
(*   - the signal goroutine of RegisterSignalHandler (sig), which cancels  *)
(*     the context and runs the same Cleanup as main may be running;       *)
(*   - the API server and its controllers (objs, inflight, terminating),   *)
(*     which execute a request some time after it was sent, even when its  *)
(*     sender no longer waits for the answer;                              *)
(*   - the analyzer pod (pod, marker), reduced to what the CLI and the     *)
(*     cluster see of it.                                                  *)
(***************************************************************************)
EXTENDS FiniteSets

CONSTANTS
    Faults,        \* the kinds of failure that may happen, each at most once
    CanInterrupt   \* may the user press Ctrl+C?

ASSUME FaultsAssumption == Faults \subseteq {"refused", "lost", "delete", "io"}
ASSUME InterruptAssumption == CanInterrupt \in BOOLEAN

Threads == {"main", "sig"}

\* The two cluster role bindings, in the order the code creates and deletes them.
Bindings == {"analyzerCRB", "monitoringCRB"}

\* What lives in the run's namespace and disappears with it.
InNamespace == {"serviceAccount", "caBundle", "job"}
Namespaced  == InNamespace \union {"namespace"}

\* What cli.Run creates; while one of these is being created it is also main's pc.
Created == Namespaced \union Bindings \union {"clusterRole"}

\* What the Job's pod needs before it can do its work.
Prerequisites == {"serviceAccount", "caBundle", "clusterRole"} \union Bindings

VARIABLES
    pc,          \* where main is in cli.Run
    call,        \* the create request main is at: unsent, sent, or answered
    crbNames,    \* Cleanup.crbNames, shared by both goroutines without a lock
    output,      \* the user's report file
    sig,         \* the signal goroutine: off (not registered), waiting, woken, cleaning
    cancelled,   \* has the context of cli.Run been cancelled?
    clean,       \* how far each goroutine is in Cleanup.Run
    names,       \* the value of crbNames each goroutine read in Cleanup.Run
    proc,        \* the process: running, or how it ended
    objs,        \* the objects that exist in the cluster
    inflight,    \* create requests the API server has not executed yet
    terminating, \* has the namespace been marked for deletion?
    pod,         \* the analyzer pod
    marker,      \* has the pod logged the report-ready line?
    faults,      \* the failures that may still happen
    botched,     \* objects a delete request failed for
    keep         \* --keep-namespace

mainVars    == <<pc, call, crbNames, output>>
sigVars     == <<sig, cancelled>>
cleanVars   == <<clean, names>>
clusterVars == <<objs, inflight, terminating>>
podVars     == <<pod, marker>>
faultVars   == <<faults, botched>>
vars == <<mainVars, sigVars, cleanVars, proc, clusterVars, podVars, faultVars, keep>>

-----------------------------------------------------------------------------
(***************************************************************************)
(* Where main can be, and what each variable can hold.                     *)
(***************************************************************************)
Locations == Created \union
    {"preflight", "register", "recordCRBs", "waitForPod", "streamLogs",
     "clusterName", "copy", "failing", "finishing"}

CleanupStages == {"idle", "policy", "read", "namespace", "done"} \union Bindings

TypeOK ==
    /\ pc \in Locations
    /\ call \in {"unsent", "sent", "ok", "refused"}
    /\ crbNames \in {{}, Bindings}
    /\ output \in {"none", "partial", "complete"}
    /\ sig \in {"off", "waiting", "woken", "cleaning"}
    /\ cancelled \in BOOLEAN
    /\ clean \in [Threads -> CleanupStages]
    /\ names \in [Threads -> {{}, Bindings}]
    /\ proc \in {"running", "exit0", "exit1", "killed", "panic"}
    /\ objs \subseteq Created \union {"policy"}
    /\ inflight \subseteq Created
    /\ terminating \in BOOLEAN
    /\ pod \in {"none", "booting", "collecting", "serving", "ended", "deleted"}
    /\ marker \in BOOLEAN
    /\ faults \subseteq Faults
    /\ botched \subseteq Bindings \union {"policy", "namespace"}
    /\ keep \in BOOLEAN

\* The cluster role is shared by all runs and never deleted: an earlier run
\* may have left it behind.
Init ==
    /\ pc = "preflight" /\ call = "unsent" /\ crbNames = {} /\ output = "none"
    /\ sig = "off" /\ cancelled = FALSE
    /\ clean = [t \in Threads |-> "idle"] /\ names = [t \in Threads |-> {}]
    /\ proc = "running"
    /\ objs \in {{}, {"clusterRole"}} /\ inflight = {} /\ terminating = FALSE
    /\ pod = "none" /\ marker = FALSE
    /\ faults = Faults /\ botched = {}
    /\ keep \in BOOLEAN

Running == proc = "running"
NamespaceActive == "namespace" \in objs /\ ~terminating

\* A failure of the given kind happens now, and not again.
Happens(kind) == kind \in faults /\ faults' = faults \ {kind}

\* Main, still at the request for o, has not been answered.
Awaited(o) == pc = o /\ call = "sent"

\* What most steps of each party leave alone.
othersIdle  == <<sigVars, proc, clusterVars, podVars, keep>>
processIdle == <<mainVars, sigVars, cleanVars, proc, faultVars, keep>>

Goto(location) ==
    /\ pc' = location
    /\ UNCHANGED <<call, crbNames, output, cleanVars, faultVars, othersIdle>>

Exit(status) ==
    /\ proc' = status
    /\ UNCHANGED <<mainVars, sigVars, cleanVars, clusterVars, podVars, keep>>

\* Fault variant: cleanup forgets the network policy.
StartCleanupAtBindings(t) ==
    clean' = [clean EXCEPT ![t] = IF keep THEN "done" ELSE "read"]

\* Cleanup.Run returns at once under --keep-namespace.
StartCleanup(t) ==
    clean' = [clean EXCEPT ![t] = IF keep THEN "done" ELSE "policy"]

\* Fault variant: the names are recorded even when a binding's request has failed.
CleanUpAndFailRecording ==
    /\ pc' = "failing"
    /\ call' = "unsent"
    /\ crbNames' = IF pc \in Bindings THEN Bindings ELSE crbNames
    /\ StartCleanup("main")
    /\ UNCHANGED <<names, botched, othersIdle>>

\* Every error path of cli.Run after the namespace exists: cleanup.Run, return.
CleanUpAndFail ==
    /\ pc' = "failing"
    /\ call' = "unsent"
    /\ StartCleanup("main")
    /\ UNCHANGED <<crbNames, names, botched, othersIdle>>

-----------------------------------------------------------------------------
(***************************************************************************)
(* Main: before the first object, and the sequence of create requests.     *)
(***************************************************************************)
PreflightPasses == Running /\ pc = "preflight" /\ Goto("namespace")

\* Not an OpenShift cluster, or no randomness for the namespace's name.
PreflightFails ==
    Running /\ pc = "preflight" /\ Exit("exit1") /\ UNCHANGED faultVars

\* A cancelled context fails the request before it leaves the client.
Send ==
    /\ Running /\ pc \in Created /\ call = "unsent" /\ ~cancelled
    /\ call' = "sent"
    /\ inflight' = inflight \union {pc}
    /\ UNCHANGED <<pc, crbNames, output, sigVars, cleanVars, proc, objs, terminating,
                   podVars, faultVars, keep>>

\* Fault variant: the Job is created before the names are recorded.
AfterCreateJobEarly ==
    [namespace |-> "register", serviceAccount |-> "caBundle", caBundle |-> "clusterRole",
     clusterRole |-> "analyzerCRB", analyzerCRB |-> "monitoringCRB",
     monitoringCRB |-> "job", job |-> "waitForPod"]

\* The order of creation in cli.Run and createClusterRoleBindings.
AfterCreate ==
    [namespace |-> "register", serviceAccount |-> "caBundle", caBundle |-> "clusterRole",
     clusterRole |-> "analyzerCRB", analyzerCRB |-> "monitoringCRB",
     monitoringCRB |-> "recordCRBs", job |-> "waitForPod"]

Receive ==
    /\ Running /\ pc \in Created /\ call = "ok"
    /\ pc' = AfterCreate[pc]
    /\ call' = "unsent"
    /\ UNCHANGED <<crbNames, output, cleanVars, faultVars, othersIdle>>

\* There is no Cleanup yet when creating the namespace fails.
GiveUp == IF pc = "namespace" THEN Exit("exit1") /\ UNCHANGED botched
                              ELSE CleanUpAndFail /\ UNCHANGED output

\* The request was refused, or main stops waiting because of the signal.
CreateFails ==
    /\ Running /\ pc \in Created
    /\ call = "refused" \/ cancelled
    /\ GiveUp
    /\ UNCHANGED faults

\* The connection breaks: the request may have been executed, or may still be.
ReplyLost ==
    /\ Running /\ pc \in Created /\ call \in {"sent", "ok"}
    /\ Happens("lost")
    /\ GiveUp

\* From here on a signal is no longer fatal.
Register ==
    /\ Running /\ pc = "register"
    /\ pc' = "serviceAccount"
    /\ sig' = "waiting"
    /\ UNCHANGED <<call, crbNames, output, cancelled, cleanVars, proc, clusterVars,
                   podVars, faultVars, keep>>

\* Fault variant: the second name is forgotten.
RecordFirstBinding ==
    /\ Running /\ pc = "recordCRBs"
    /\ crbNames' = {"analyzerCRB"}
    /\ pc' = "job"
    /\ UNCHANGED <<call, output, cleanVars, faultVars, othersIdle>>

RecordBindings ==
    /\ Running /\ pc = "recordCRBs"
    /\ crbNames' = Bindings
    /\ pc' = "job"
    /\ UNCHANGED <<call, output, cleanVars, faultVars, othersIdle>>

-----------------------------------------------------------------------------
(***************************************************************************)
(* Main: waiting for the pod, following its log, downloading the report.   *)
(***************************************************************************)
PodFound ==
    /\ Running /\ pc = "waitForPod" /\ ~cancelled
    /\ pod \in {"booting", "collecting", "serving", "ended"}
    /\ Goto("streamLogs")

\* The timeout, which can win against a pod that has just started; the signal;
\* or an error of the List call.
WaitFails ==
    Running /\ pc = "waitForPod" /\ CleanUpAndFail /\ UNCHANGED <<output, faults>>

\* The cluster's name is asked for only when the user named no output file.
LogsReady ==
    /\ Running /\ pc = "streamLogs" /\ marker
    /\ \E next \in {"clusterName", "copy"} : Goto(next)

\* The stream ends with the pod or with the context, and there is no timeout.
LogsEnd ==
    /\ Running /\ pc = "streamLogs"
    /\ cancelled \/ pod \in {"ended", "deleted"}
    /\ CleanUpAndFail /\ UNCHANGED <<output, faults>>

LogsBreak ==
    /\ Running /\ pc = "streamLogs" /\ Happens("io")
    /\ CleanUpAndFail /\ UNCHANGED output

\* Any failure in here only changes the name of the output file.
ReadClusterName == Running /\ pc = "clusterName" /\ Goto("copy")

\* copyFromPod creates (and truncates) the file before it opens the stream.
OpenOutput ==
    /\ Running /\ pc = "copy" /\ output = "none"
    /\ output' = "partial"
    /\ UNCHANGED <<pc, call, crbNames, cleanVars, faultVars, othersIdle>>

\* The last byte may win against a cancellation.
CopyDone ==
    /\ Running /\ pc = "copy" /\ output = "partial" /\ pod = "serving"
    /\ output' = "complete"
    /\ pc' = "finishing"
    /\ StartCleanup("main")
    /\ UNCHANGED <<call, crbNames, names, faultVars, othersIdle>>

\* Fault variant: no os.Remove after a failed stream.
KeepOutput == UNCHANGED output

\* What copyFromPod leaves of the output file when the stream fails.
DiscardOutput == output' = "none"

CopyFails ==
    /\ Running /\ pc = "copy" /\ output = "partial"
    /\ cancelled \/ pod # "serving"
    /\ DiscardOutput /\ CleanUpAndFail /\ UNCHANGED faults

\* The file cannot be created, or the stream breaks.
CopyBreaks ==
    /\ Running /\ pc = "copy" /\ Happens("io")
    /\ DiscardOutput /\ CleanUpAndFail

MainReturns ==
    /\ Running /\ pc \in {"failing", "finishing"} /\ clean["main"] = "done"
    /\ Exit(IF pc = "finishing" THEN "exit0" ELSE "exit1")
    /\ UNCHANGED faultVars

-----------------------------------------------------------------------------
(***************************************************************************)
(* Cleanup.Run, in either goroutine. The shared slice is read once, at the *)
(* head of the loop over it. Deleting what does not exist is not a failure *)
(* that matters: the code goes on, as it does after any other failure.     *)
(***************************************************************************)
\* Fault variants: the loop ends after its first binding; the namespace is forgotten.
AfterDeleteOneBinding ==
    [policy |-> "read", analyzerCRB |-> "namespace", monitoringCRB |-> "namespace",
     namespace |-> "done"]

AfterDeleteNoNamespace ==
    [policy |-> "read", analyzerCRB |-> "monitoringCRB", monitoringCRB |-> "done",
     namespace |-> "done"]

AfterDelete ==
    [policy |-> "read", analyzerCRB |-> "monitoringCRB", monitoringCRB |-> "namespace",
     namespace |-> "done"]

NextStage(t) ==
    /\ Running /\ clean[t] \in DOMAIN AfterDelete
    /\ clean' = [clean EXCEPT ![t] = AfterDelete[clean[t]]]
    /\ UNCHANGED <<mainVars, sigVars, names, proc, inflight, podVars, keep>>

\* Deleting a namespace only marks it; its controller does the rest.
Delete(t) ==
    /\ NextStage(t)
    /\ IF clean[t] = "namespace"
         THEN terminating' = TRUE /\ UNCHANGED objs
         ELSE objs' = objs \ {clean[t]} /\ UNCHANGED terminating
    /\ UNCHANGED faultVars

DeleteFails(t) ==
    /\ NextStage(t)
    /\ Happens("delete")
    /\ botched' = botched \union {clean[t]}
    /\ UNCHANGED <<objs, terminating>>

\* Main writes crbNames while the signal goroutine may be reading it.
Racing(t) == t = "sig" /\ pc = "recordCRBs"

ReadNames(t) ==
    /\ Running /\ clean[t] = "read"
    /\ \E seen \in {crbNames} \union (IF Racing(t) THEN {Bindings} ELSE {}) :
        /\ names' = [names EXCEPT ![t] = seen]
        /\ clean' = [clean EXCEPT ![t] = IF seen = {} THEN "namespace" ELSE "analyzerCRB"]
    /\ UNCHANGED <<mainVars, faultVars, othersIdle>>

\* The race may also tear the slice header: the new length with the old nil
\* pointer, which the loop dereferences.
TornRead(t) ==
    Running /\ clean[t] = "read" /\ Racing(t) /\ Exit("panic") /\ UNCHANGED faultVars

-----------------------------------------------------------------------------
(***************************************************************************)
(* The signal goroutine. A second Ctrl+C finds nobody reading sigCh and    *)
(* changes nothing, so it is not an action.                                *)
(***************************************************************************)
KilledByInterrupt ==
    CanInterrupt /\ Running /\ sig = "off" /\ Exit("killed") /\ UNCHANGED faultVars

Interrupt ==
    /\ CanInterrupt /\ Running /\ sig = "waiting"
    /\ sig' = "woken"
    /\ UNCHANGED <<mainVars, cancelled, cleanVars, proc, clusterVars, podVars, faultVars, keep>>

SigCancels ==
    /\ Running /\ sig = "woken"
    /\ sig' = "cleaning"
    /\ cancelled' = TRUE
    /\ StartCleanup("sig")
    /\ UNCHANGED <<mainVars, names, proc, clusterVars, podVars, faultVars, keep>>

\* Fault variant: the handler exits without waiting for its cleanup.
SigExitsAtOnce ==
    Running /\ sig = "cleaning" /\ Exit("exit1") /\ UNCHANGED faultVars

SigExits ==
    /\ Running /\ sig = "cleaning" /\ clean["sig"] = "done"
    /\ Exit("exit1") /\ UNCHANGED faultVars

-----------------------------------------------------------------------------
(***************************************************************************)
(* The API server. It goes on after the process has ended.                 *)
(***************************************************************************)
Answer(o, reply) ==
    /\ inflight' = inflight \ {o}
    /\ call' = IF Awaited(o) THEN reply ELSE call
    /\ UNCHANGED <<pc, crbNames, output, sigVars, cleanVars, proc, terminating, podVars,
                   botched, keep>>

\* ensureClusterRole creates or updates: either way the role is there after it.
Execute(o) ==
    /\ o \in inflight
    /\ o \in InNamespace => NamespaceActive
    /\ objs' = objs \union {o}
    /\ Answer(o, "ok") /\ UNCHANGED faults

\* A namespace that is going or gone takes no new objects; a request nobody
\* waits for may never have reached the server.
Turn(o) ==
    /\ o \in inflight
    /\ (o \in InNamespace /\ ~NamespaceActive) \/ ~Awaited(o) \/ ~Running
    /\ Answer(o, "refused") /\ UNCHANGED <<objs, faults>>

\* Quota, admission, missing rights of the user, a server error.
Refuse(o) ==
    /\ o \in inflight
    /\ Happens("refused")
    /\ Answer(o, "refused") /\ UNCHANGED objs

\* The namespace controller deletes what is in a terminating namespace, pods
\* included, and then the namespace. Until then the pod goes on.
NamespaceGone ==
    /\ terminating /\ "namespace" \in objs
    /\ objs' = objs \ Namespaced
    /\ pod' = IF "job" \in objs THEN "deleted" ELSE pod
    /\ UNCHANGED <<inflight, terminating, marker, processIdle>>

-----------------------------------------------------------------------------
(***************************************************************************)
(* The Job and its pod.                                                    *)
(***************************************************************************)
PodBecomes(state) == pod' = state /\ UNCHANGED <<inflight, terminating, processIdle>>

\* Fault variant: a pod that has ended is started again (backoffLimit above 0).
PodStartsAgain ==
    /\ "job" \in objs /\ pod \in {"none", "ended"}
    /\ PodBecomes("booting") /\ UNCHANGED <<objs, marker>>

PodStarts ==
    /\ "job" \in objs /\ pod = "none"
    /\ PodBecomes("booting") /\ UNCHANGED <<objs, marker>>

\* OVRO was found: allow this namespace into ovro-system. The right to do so
\* comes from the analyzer's cluster role binding.
OpensPolicy ==
    /\ pod = "booting" /\ "analyzerCRB" \in objs
    /\ objs' = objs \union {"policy"}
    /\ PodBecomes("collecting") /\ UNCHANGED marker

\* --no-ovro, a custom endpoint, no OVRO in the cluster, or no right to allow it.
SkipsPolicy ==
    pod = "booting" /\ PodBecomes("collecting") /\ UNCHANGED <<objs, marker>>

\* The report is written, the line is logged and the pod waits to be fetched from.
ReportReady ==
    /\ pod = "collecting"
    /\ marker' = TRUE
    /\ PodBecomes("serving") /\ UNCHANGED objs

\* Every os.Exit(1) of the analyzer, and the SIGTERM that ends its wait;
\* backoffLimit 0 means that no second pod follows.
PodEnds ==
    /\ pod \in {"booting", "collecting", "serving"}
    /\ PodBecomes("ended") /\ UNCHANGED <<objs, marker>>

\* Fault variant: the deadline covers the start of the pod only.
StartDeadline ==
    /\ "job" \in objs /\ pod = "none"
    /\ PodBecomes("deleted") /\ UNCHANGED <<objs, marker>>

\* activeDeadlineSeconds: the Job controller deletes a pod that still runs.
JobDeadline ==
    /\ "job" \in objs /\ pod \in {"none", "booting", "collecting", "serving"}
    /\ PodBecomes("deleted") /\ UNCHANGED <<objs, marker>>

-----------------------------------------------------------------------------
Cleaning(t) == Delete(t) \/ ReadNames(t) \/ TornRead(t)

MainStep ==
    \/ PreflightPasses \/ PreflightFails \/ Send \/ Receive \/ CreateFails
    \/ Register \/ RecordBindings
    \/ PodFound \/ WaitFails \/ LogsReady \/ LogsEnd \/ ReadClusterName
    \/ OpenOutput \/ CopyDone \/ CopyFails
    \/ Cleaning("main") \/ MainReturns

SigStep == SigCancels \/ Cleaning("sig") \/ SigExits

FaultStep ==
    \/ ReplyLost \/ LogsBreak \/ CopyBreaks
    \/ \E t \in Threads : DeleteFails(t)
    \/ \E o \in Created : Refuse(o)

UserStep == KilledByInterrupt \/ Interrupt

ServerStep == \E o \in Created : Execute(o) \/ Turn(o)

PodStep == PodStarts \/ OpensPolicy \/ SkipsPolicy \/ ReportReady \/ PodEnds

\* The process has ended; the cluster may still move.
Ended == ~Running /\ UNCHANGED vars

Next ==
    \/ MainStep \/ SigStep \/ FaultStep \/ UserStep
    \/ ServerStep \/ NamespaceGone \/ JobDeadline \/ PodStep \/ Ended

Spec == Init /\ [][Next]_vars

\* Both goroutines are scheduled, the API server answers, the controllers work.
\* Nothing is assumed of the pod, of the user or of the failures.
Fairness ==
    /\ WF_vars(MainStep) /\ WF_vars(SigStep) /\ WF_vars(ServerStep)
    /\ WF_vars(NamespaceGone) /\ WF_vars(JobDeadline)

FairSpec == Spec /\ Fairness

-----------------------------------------------------------------------------
(***************************************************************************)
(* What the code is for. A failed delete is the user's to finish (the code *)
(* says so on stderr), hence botched = {} in what follows.                 *)
(***************************************************************************)
Cleaned(t) == clean[t] = "done" /\ ~keep
Leftover   == Bindings \union {"policy"}
NamespaceDoomed == "namespace" \in objs => terminating

\* A finished Cleanup.Run is final: whatever the other goroutine, the API server
\* and late requests do, the bindings it knew of are gone and stay gone, and the
\* namespace is on its way out (cleanup.go:42-70).
CleanupIsFinal ==
    \A t \in Threads :
        Cleaned(t) /\ botched = {} => names[t] \intersect objs = {} /\ NamespaceDoomed

\* A run that reports success leaves nothing behind outside the namespace it
\* deletes: both bindings and the network policy of the analyzer are gone, even
\* when the signal goroutine was cleaning up at the same time (run.go:149-152).
SuccessLeavesNothing ==
    proc = "exit0" /\ ~keep /\ botched = {} =>
        Leftover \intersect objs = {} /\ NamespaceDoomed

\* The Job appears only when everything its pod relies on is there and its rights
\* can be revoked: the bindings are recorded for the cleanup, and until a cleanup
\* begins all prerequisites exist (run.go:75-115).
JobHasItsRights ==
    "job" \in objs =>
        /\ crbNames = Bindings
        /\ (\A t \in Threads : clean[t] = "idle") => Prerequisites \subseteq objs

\* The exit status tells the truth about the report: exit 0 means a complete
\* file, and an uninterrupted failure leaves no file that looks like a report
\* (run.go:143-152, copy.go:33-47).
HonestExit ==
    /\ proc = "exit0" => output = "complete"
    /\ proc = "exit1" /\ ~cancelled => output = "none"

\* When a run has ended, by whatever mixture of errors, interrupts and lost replies
\* short of the panic of TornRead, what is left has one of four causes: a binding
\* whose name nobody had recorded, or that was recorded after the signal goroutine
\* had read the names; a namespace whose creation was never confirmed, or whose
\* handler was not installed yet (run.go:68-95, cleanup.go:30-58).
LeftoversHaveACause ==
    ~Running /\ proc # "panic" /\ ~keep /\ botched = {} =>
        /\ Bindings \intersect objs # {} =>
              crbNames = {} \/ (cancelled /\ names["sig"] = {})
        /\ ~NamespaceDoomed => pc \in {"namespace", "register"}

\* Once the namespace has gone nothing of the run comes back: no object in it, no
\* pod, and so no network policy either. Only the cluster-wide requests that main
\* gave up may still be executed, and of those no binding that was recorded
\* (run.go:75-115, cleanup.go:54-61).
NothingComesBack ==
    [][ terminating /\ "namespace" \notin objs =>
          /\ objs' \ objs \subseteq {"clusterRole"} \union (Bindings \ crbNames)
          /\ pod' \in {"none", "deleted"} ]_vars

\* The command always ends. Following the log has no timeout of its own: only
\* the Job's deadline ends it when the analyzer hangs (run.go:187-227, job.go:57).
Terminates == <>~Running

\* Once the bindings are recorded and no signal came before that, they are
\* revoked however the run ends (run.go:95, cleanup.go:54-59).
RecordedBindingsRevoked ==
    (crbNames = Bindings /\ sig = "waiting") ~>
        (Bindings \intersect objs = {} \/ keep \/ botched # {})

\* After a cleanup everything in the namespace disappears for good, the objects
\* of requests that were still on their way included (cleanup.go:61).
NamespaceEmptied ==
    (\E t \in Threads : Cleaned(t) /\ botched = {}) ~> [](Namespaced \intersect objs = {})

-----------------------------------------------------------------------------
(***************************************************************************)
(* What the design document promises and the code does not keep.           *)
(***************************************************************************)
\* docs/superpowers/specs/2026-05-07-rrrt-design.md: "On interrupt or any error
\* after namespace creation, cleanup runs: delete ClusterRoleBindings, delete
\* namespace." Here for an error (rbac.go:136-138 returns no names).
ErrorCleansUp ==
    proc = "exit1" /\ Cleaned("main") /\ botched = {} => Bindings \intersect objs = {}

\* The same promise for an interrupt that arrives once the namespace exists: it
\* is deleted (run.go:68-73 registers the handler only after the creation).
InterruptCleansUp ==
    proc = "killed" /\ pc = "register" /\ ~keep => NamespaceDoomed

\* The same document: "If cleanup itself fails, CLI prints the namespace name and
\* manual cleanup commands." The commands are printed exactly when the namespace's
\* deletion fails (cleanup.go:61-69), so a network policy that could not be
\* deleted must come with that.
FailedCleanupReported ==
    proc = "exit0" /\ "policy" \in botched \intersect objs => "namespace" \in botched

\* docs/superpowers/specs/2026-05-08-ovro-discovery-design.md: the network policy
\* "is cleaned up when the rrrt namespace is deleted" (cleanup.go:50-61 deletes it
\* first, while the analyzer can still create it).
PolicyCleanedUp ==
    (\E t \in Threads : Cleaned(t)) /\ "namespace" \notin objs => "policy" \notin objs
=============================================================================
