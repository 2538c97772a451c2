----------------------------- MODULE OvroAccess -----------------------------
(***************************************************************************)
(* Several runs at once and the one network policy they share. An analyzer *)
(* that finds OVRO in the cluster opens VictoriaMetrics to its namespace   *)
(* with a policy whose name is the same for all runs, probes it, collects  *)
(* from it or from Thanos (cmd/analyzer/main.go, internal/collector/       *)
(* discovery.go), and the command that started it deletes the policy in    *)
(* its cleanup (internal/cli/cleanup.go). Orchestrator has one run in      *)
(* full; here a run is its analyzer and the one delete of its cleanup that *)
(* matters to the others.                                                  *)
(***************************************************************************)
EXTENDS Naturals

CONSTANTS
    Runs,      \* the invocations, each with a namespace of its own
    Unlucky,   \* bound: the runs that may lose the reply to a request
    Attempts,  \* how often the endpoint is probed
    Queries,   \* bound: the queries of a collection
    None       \* no run

ASSUME RunsAssumption == None \notin Runs
ASSUME CountsAssumption == Attempts \in Nat \ {0} /\ Queries \in Nat

VARIABLES
    phase,    \* where each run's analyzer is
    found,    \* has it found OVRO in the cluster?
    probes,   \* the probes each run may still make
    source,   \* where each run collects from
    left,     \* the queries each run still has to make
    lost,     \* why queries of each run failed: "error", "silence"
    expired,  \* is the analyzer's 25-minute context over?
    late,     \* a request to open the policy that the run gave up on: none, one that may
              \* still be executed, or one that was executed after the cleanup
    cleaned,  \* has the cleanup of the run deleted the policy: no, failed, early, late
    policy,   \* the run whose namespace the policy admits
    store     \* VictoriaMetrics: "up", "down", or "restored" after a failure

runVars == <<phase, found, probes, source, left, lost, expired, late, cleaned>>
vars == <<runVars, policy, store>>

\* Before the analyzer has opened the policy, if it does.
Opening == {"boot", "create", "update"}
Phases  == Opening \union {"probe", "collect", "serve", "gone"}


TypeOK ==
    /\ phase \in [Runs -> Phases] /\ found \in [Runs -> BOOLEAN]
    /\ probes \in [Runs -> 0..Attempts]
    /\ source \in [Runs -> {"thanos", "ovro", "custom"}]
    /\ left \in [Runs -> 0..Queries]
    /\ lost \in [Runs -> SUBSET {"error", "silence"}]
    /\ expired \in [Runs -> BOOLEAN]
    /\ late \in [Runs -> {"no", "create", "update", "belated"}]
    /\ cleaned \in [Runs -> {"no", "failed", "early", "late"}]
    /\ policy \in Runs \union {None}
    /\ store \in {"up", "down", "restored"}

Init ==
    /\ phase = [r \in Runs |-> "boot"] /\ found = [r \in Runs |-> FALSE]
    /\ probes = [r \in Runs |-> Attempts]
    /\ source = [r \in Runs |-> "thanos"]
    /\ left = [r \in Runs |-> Queries] /\ lost = [r \in Runs |-> {}]
    /\ expired = [r \in Runs |-> FALSE] /\ late = [r \in Runs |-> "no"]
    /\ cleaned = [r \in Runs |-> "no"]
    /\ policy = None /\ store \in {"up", "down"}

-----------------------------------------------------------------------------
Moves(r, next) == phase' = [phase EXCEPT ![r] = next]

\* VictoriaMetrics answers a run that found it in the cluster.
Reachable(r) == policy = r /\ store # "down" /\ ~expired[r]

\* --ovro-endpoint is taken as it is: no discovery, no policy, no probe.
UsesEndpoint(r) ==
    /\ phase[r] = "boot"
    /\ source' = [source EXCEPT ![r] = "custom"]
    /\ Moves(r, "collect")
    /\ UNCHANGED <<found, probes, left, lost, expired, late, cleaned, policy, store>>

\* --no-ovro, or OVRO was not detected.
KeepsThanos(r) ==
    /\ phase[r] = "boot"
    /\ Moves(r, "collect")
    /\ UNCHANGED <<found, probes, source, left, lost, expired, late, cleaned, policy, store>>

\* Neither flag, and the resource, the namespace and a running pod are there.
Detects(r) ==
    /\ phase[r] = "boot" /\ ~expired[r]
    /\ found' = [found EXCEPT ![r] = TRUE]
    /\ Moves(r, "create")
    /\ UNCHANGED <<probes, source, left, lost, expired, late, cleaned, policy, store>>

\* Create: the policy is ours, or there is one already and it will be updated.
Creates(r) ==
    /\ phase[r] = "create" /\ ~expired[r]
    /\ IF policy = None THEN policy' = r /\ Moves(r, "probe")
                        ELSE policy' = policy /\ Moves(r, "update")
    /\ UNCHANGED <<found, probes, source, left, lost, expired, late, cleaned, store>>

\* Fault variant: an update that finds no policy starts over with the creation.
UpdatesOrStartsOver(r) ==
    /\ phase[r] = "update" /\ ~expired[r]
    /\ IF policy = None THEN policy' = None /\ Moves(r, "create")
                        ELSE policy' = r /\ Moves(r, "probe")
    /\ UNCHANGED <<found, probes, source, left, lost, expired, late, cleaned, store>>

\* Update: the policy admits this run instead of the other, unless it has been
\* deleted since it was found.
Updates(r) ==
    /\ phase[r] = "update" /\ ~expired[r]
    /\ policy' = IF policy = None THEN None ELSE r
    /\ Moves(r, "probe")
    /\ UNCHANGED <<found, probes, source, left, lost, expired, late, cleaned, store>>

\* Fault variant: the endpoint that was detected is used without a probe.
OpeningFailsUnprobed(r) ==
    /\ phase[r] \in {"create", "update"}
    /\ source' = [source EXCEPT ![r] = "ovro"]
    /\ Moves(r, "collect")
    /\ UNCHANGED <<found, probes, left, lost, expired, late, cleaned, policy, store>>

\* An error of the API server, no time left, or no reply to a request that is still on
\* its way: a warning, and the probes.
OpeningFails(r) ==
    /\ phase[r] \in {"create", "update"}
    /\ \/ late' = late
       \/ r \in Unlucky /\ late' = [late EXCEPT ![r] = phase[r]]
    /\ Moves(r, "probe")
    /\ UNCHANGED <<found, probes, source, left, lost, expired, cleaned, policy, store>>

\* The loop is left with the first probe that succeeds.
ProbeSucceeds(r) ==
    /\ phase[r] = "probe" /\ probes[r] > 0 /\ Reachable(r)
    /\ probes' = [probes EXCEPT ![r] = 0]
    /\ source' = [source EXCEPT ![r] = "ovro"]
    /\ Moves(r, "collect")
    /\ UNCHANGED <<found, left, lost, expired, late, cleaned, policy, store>>

\* Fault variant: there is one probe more than attempts.
ProbeFailsOnceMore(r) ==
    /\ phase[r] = "probe" /\ probes[r] >= 0
    /\ probes' = [probes EXCEPT ![r] = @ - 1]
    /\ UNCHANGED <<phase, found, source, left, lost, expired, late, cleaned, policy, store>>

\* Fault variant: a probe that could not be sent does not count.
ProbeFailsUncounted(r) ==
    /\ phase[r] = "probe" /\ probes[r] > 0
    /\ probes' = [probes EXCEPT ![r] = IF expired[r] THEN @ ELSE @ - 1]
    /\ UNCHANGED <<phase, found, source, left, lost, expired, late, cleaned, policy, store>>

\* Fault variant: the policy is created again after a probe that failed.
ProbeFailsReopens(r) ==
    /\ phase[r] = "probe" /\ probes[r] > 0
    /\ probes' = [probes EXCEPT ![r] = @ - 1]
    /\ policy' = r
    /\ UNCHANGED <<phase, found, source, left, lost, expired, late, cleaned, store>>

\* Also a run that was admitted may be refused: the policy takes time to spread.
ProbeFails(r) ==
    /\ phase[r] = "probe" /\ probes[r] > 0
    /\ probes' = [probes EXCEPT ![r] = @ - 1]
    /\ UNCHANGED <<phase, found, source, left, lost, expired, late, cleaned, policy, store>>

FallsBack(r) ==
    /\ phase[r] = "probe" /\ probes[r] = 0
    /\ Moves(r, "collect")
    /\ UNCHANGED <<found, probes, source, left, lost, expired, late, cleaned, policy, store>>

\* One query less to make, and if it failed, why.
Asked(r, reasons) ==
    /\ phase[r] = "collect" /\ left[r] > 0
    /\ left' = [left EXCEPT ![r] = @ - 1]
    /\ lost' = [lost EXCEPT ![r] = @ \union reasons]
    /\ UNCHANGED <<phase, found, probes, source, expired, late, cleaned, policy, store>>

\* Fault variant: the fallback renames the source and leaves the client.
QueryKeepsClient(r) == Asked(r, IF Reachable(r) THEN {} ELSE {"silence"})

\* A query of the collection. Nobody answers it when the run is out of time, or has
\* chosen OVRO and is not let in any more; of a custom endpoint nothing is known.
Query(r) ==
    LET answered == IF source[r] = "ovro" THEN Reachable(r) ELSE ~expired[r]
    IN  \/ answered /\ Asked(r, {})
        \/ (~answered \/ source[r] = "custom") /\ Asked(r, {"silence"})

\* A query fails by itself, whatever the source: a timeout, a status, a body that
\* does not decode. It is skipped, and the collection goes on with the same source.
QueryErrs(r) == Asked(r, {"error"})

\* The report is written whatever was lost, and waits to be fetched.
Reports(r) ==
    /\ phase[r] = "collect" /\ left[r] = 0
    /\ Moves(r, "serve")
    /\ UNCHANGED <<found, probes, source, left, lost, expired, late, cleaned, policy, store>>

-----------------------------------------------------------------------------
\* The server executes what a run gave up on: it creates a policy if there is none and
\* updates one if there is.
OpensLate(r) ==
    /\ late[r] \in {"create", "update"}
    /\ LET executed == (late[r] = "create") = (policy = None)
       IN  /\ policy' = IF executed THEN r ELSE policy
           /\ late' = [late EXCEPT ![r] =
                         IF executed /\ cleaned[r] = "late" THEN "belated" ELSE "no"]
    /\ UNCHANGED <<phase, found, probes, source, left, lost, expired, cleaned, store>>

\* The command deletes the policy, whomever it admits: after the report, after a
\* failure, or after an interrupt, which may be early. The pod goes on for now.
Cleanup(r) ==
    /\ cleaned[r] = "no"
    /\ cleaned' = [cleaned EXCEPT ![r] = IF phase[r] \in Opening THEN "early" ELSE "late"]
    /\ policy' = None
    /\ UNCHANGED <<phase, found, probes, source, left, lost, expired, late, store>>

\* The delete fails; its error is dropped.
CleanupFails(r) ==
    /\ cleaned[r] = "no"
    /\ cleaned' = [cleaned EXCEPT ![r] = "failed"]
    /\ UNCHANGED <<phase, found, probes, source, left, lost, expired, late, policy, store>>

\* An exit of the analyzer, the Job's deadline, or the end of the namespace.
PodEnds(r) ==
    /\ phase[r] # "gone"
    /\ Moves(r, "gone")
    /\ UNCHANGED <<found, probes, source, left, lost, expired, late, cleaned, policy, store>>

Expires(r) ==
    /\ ~expired[r] /\ phase[r] \notin {"serve", "gone"}
    /\ expired' = [expired EXCEPT ![r] = TRUE]
    /\ UNCHANGED <<phase, found, probes, source, left, lost, late, cleaned, policy, store>>

\* VictoriaMetrics goes down or comes back.
Outage ==
    /\ store' = IF store = "down" THEN "restored" ELSE "down"
    /\ UNCHANGED <<runVars, policy>>

Analyzer(r) ==
    \/ UsesEndpoint(r) \/ KeepsThanos(r) \/ Detects(r)
    \/ Creates(r) \/ Updates(r) \/ OpeningFails(r)
    \/ ProbeSucceeds(r) \/ ProbeFails(r) \/ FallsBack(r)
    \/ Query(r) \/ QueryErrs(r) \/ Reports(r)

Next ==
    \/ \E r \in Runs :
          \/ Analyzer(r) \/ OpensLate(r)
          \/ Cleanup(r) \/ CleanupFails(r) \/ PodEnds(r) \/ Expires(r)
    \/ Outage

Spec == Init /\ [][Next]_vars

\* An analyzer is scheduled, and every request of it ends by its timeout. One that
\* waits for its end or has ended takes no step (which TLC is told to save time).
FairSpec ==
    Spec /\ \A r \in Runs : WF_vars(phase[r] \notin {"serve", "gone"} /\ Analyzer(r))

-----------------------------------------------------------------------------
\* The run's own cleanup has deleted the policy.
Deleted(r) == cleaned[r] \in {"early", "late"}

\* A policy that admits a run is not left behind by a cleanup of that run that
\* deleted it, unless the cleanup came before the analyzer opened it or the opening
\* was a request the analyzer had given up on: no other run, and nothing the run itself
\* still does, brings it back (main.go:71-91, 269-276, cleanup.go:51). Nothing is said
\* of a cleanup whose delete failed.
PolicyHasOwner == \A r \in Runs : policy = r => cleaned[r] # "late" \/ late[r] = "belated"

\* Another run that found OVRO, or whose cleanup deleted the policy.
Intruder(r) ==
    \E q \in Runs \ {r} : found[q] \/ Deleted(q)

\* A run that chose OVRO after a probe was admitted, and as long as its own cleanup
\* has not deleted the policy it is admitted still, unless another run has taken
\* the policy over or away (main.go:71-91, cleanup.go:51).
LosesAccessOnlyToOthers ==
    \A r \in Runs :
        source[r] = "ovro" /\ ~Deleted(r) /\ policy # r => Intruder(r)

\* A query that nobody answered has a cause outside the run: the run was out of
\* time, its endpoint was named by the user, or it had chosen OVRO after a probe
\* and then VictoriaMetrics failed or another run took its access (main.go:62-94,
\* vm.go:54-63). A run that falls back to Thanos is not touched by any but the
\* first. Queries that fail by themselves are apart.
HolesHaveACause ==
    \A r \in Runs :
        "silence" \in lost[r] /\ ~Deleted(r) /\ ~expired[r] =>
            \/ source[r] = "custom"
            \/ source[r] = "ovro" /\ (store # "up" \/ Intruder(r))

\* The work an analyzer has before it: phases, probes and queries.
Work(r) ==
    LET ahead == [boot |-> 5, create |-> 4, update |-> 3, probe |-> 2, collect |-> 1,
                  serve |-> 0, gone |-> 0]
    IN  ahead[phase[r]] + probes[r] + left[r]

\* Whatever the other runs, the store and the clock do, each step of an analyzer
\* leaves it less to do and no step of anybody leaves it more: neither a policy
\* that was taken away nor a source that fails makes it try again, so one run
\* cannot keep another one busy (main.go:71-94, 238-281, vm.go:54-63).
WorkShrinks ==
    [][\A r \in Runs : Work(r)' <= Work(r) /\ (Analyzer(r) => Work(r)' < Work(r))]_vars

\* Every analyzer comes to an end of its work: probes are bounded and a query
\* that fails is skipped (main.go:75-88, vm.go:54-63).
EveryRunEnds == \A r \in Runs : <>(phase[r] \in {"serve", "gone"})

\* docs/superpowers/specs/2026-05-08-ovro-discovery-design.md: the policy "allows
\* ingress from the rrrt analyzer namespace" and "is cleaned up when the rrrt
\* namespace is deleted": a run that was admitted stays so until its own cleanup
\* (main.go:242 and cleanup.go:52 use one name for all runs).
KeepsAccess ==
    [][\A r \in Runs : policy = r /\ policy' # r => cleaned'[r] # "no"]_vars
=============================================================================
