----------------------- MODULE OrchestratorRefinement -----------------------
(***************************************************************************)
(* Orchestrator seen from above: as the command of Contract, and its pod   *)
(* as the one of module Pod, which Analyzer implements too.                *)
(***************************************************************************)
EXTENDS Orchestrator

\* Whoever has read the bindings' names has read them after both were created.
Known == \E t \in Threads : names[t] # {}

Right(b) == IF b \in objs THEN "held" ELSE IF Known THEN "revoked" ELSE "none"

Result ==
    CASE proc = "exit0" -> "success"
      [] proc \in {"exit1", "killed", "panic"} -> "failure"
      [] proc = "running" -> IF output = "complete" THEN "delivered" ELSE "none"

Command == INSTANCE Contract WITH
    Rights   <- Bindings,
    rights   <- [b \in Bindings |-> Right(b)],
    launched <- "job" \in objs \/ pod # "none",
    result   <- Result,
    excused  <- keep \/ Bindings \intersect botched # {}

\* The command keeps its contract through every failure, interrupt and late
\* request: in particular no request that was given up on brings a revoked binding
\* back, and nothing is granted once the report is there (run.go:67-153,
\* cleanup.go:42-70).
CommandKeepsContract == Command!Spec

AnalyzerPod == INSTANCE Pod WITH
    state  <- pod,
    report <- IF marker THEN "complete" ELSE "none"

\* The pod this module assumes is the pod the analyzer is (Analyzer's
\* PodAsPromised): the command relies on nothing else.
AssumesNoMore == AnalyzerPod!Spec
=============================================================================
