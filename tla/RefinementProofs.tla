-------------------------- MODULE RefinementProofs --------------------------
(***************************************************************************)
(* The command keeps its contract, and relies on no more than the pod that *)
(* the analyzer implements (AnalyzerProofs), for every set of faults and   *)
(* with or without interrupts.                                             *)
(***************************************************************************)
EXTENDS OrchestratorProofs, OrchestratorRefinement

\* Until somebody has read the bindings' names, nobody has taken a binding away.
GrantedOK ==
    ~Known =>
        /\ pc \in {"monitoringCRB", "recordCRBs"} \union Late => "analyzerCRB" \in objs
        /\ pc \in {"recordCRBs"} \union Late => "monitoringCRB" \in objs
        /\ pc \in Bindings /\ call = "ok" => pc \in objs
        /\ crbNames # {} => Bindings \subseteq objs

\* A goroutine takes bindings away only when it has read their names.
NamedOK == \A t \in Threads : clean[t] \in Bindings => names[t] # {}

\* What a goroutine with the names has taken away, or failed to.
RevokedOK ==
    \A t \in Threads : names[t] # {} =>
        /\ clean[t] \in {"monitoringCRB", "namespace", "done"}
               => "analyzerCRB" \notin objs \/ "analyzerCRB" \in botched
        /\ clean[t] \in {"namespace", "done"}
               => "monitoringCRB" \notin objs \/ "monitoringCRB" \in botched

\* A complete report is there only when main is about to return.
DeliveredOK == output = "complete" => pc = "finishing"

\* The inductive invariant behind the refinement.
RInv == IInv /\ GrantedOK /\ NamedOK /\ RevokedOK /\ DeliveredOK

\* It holds at the start.
LEMMA RInvInit == Init => RInv
  BY IInvInit DEF Init, RInv, GrantedOK, NamedOK, RevokedOK, DeliveredOK, Known, Bindings, Threads,
         Late

\* Every step of every party preserves it.
LEMMA RInvStep == RInv /\ [Next]_vars => RInv'
<1> SUFFICES ASSUME RInv, [Next]_vars PROVE GrantedOK' /\ NamedOK' /\ RevokedOK' /\ DeliveredOK'
    BY IInvStep DEF RInv
<1> USE DEF RInv, IInv, TypeOK, ControlOK, InflightOK, BoundOK, FinishingOK, GrantedOK, NamedOK,
            RevokedOK, DeliveredOK, Known, Locations, CleanupStages, Created, Namespaced,
            InNamespace, Bindings, Threads, Early, Late, mainVars, sigVars, cleanVars, clusterVars,
            podVars, faultVars, othersIdle, processIdle
\* Main, up to the Job.
<1>1. CASE PreflightPasses \/ PreflightFails \/ Send \/ Register \/ RecordBindings
  BY <1>1 DEF PreflightPasses, PreflightFails, Send, Register, RecordBindings, Goto, Exit
<1>2. CASE Receive
  BY <1>2 DEF Receive, AfterCreate
<1>3. CASE CreateFails
  BY <1>3 DEF CreateFails, GiveUp, Exit, CleanUpAndFail, StartCleanup
<1>4. CASE ReplyLost
  BY <1>4 DEF ReplyLost, GiveUp, Exit, CleanUpAndFail, StartCleanup, Happens
\* Main, from the pod to the report.
<1>5. CASE PodFound \/ LogsReady \/ ReadClusterName \/ OpenOutput
  BY <1>5 DEF PodFound, LogsReady, ReadClusterName, OpenOutput, Goto
<1>6. CASE WaitFails \/ LogsEnd \/ LogsBreak
  BY <1>6 DEF WaitFails, LogsEnd, LogsBreak, CleanUpAndFail, StartCleanup, Happens
<1>7. CASE CopyDone
  BY <1>7 DEF CopyDone, StartCleanup
<1>8. CASE CopyFails \/ CopyBreaks
  BY <1>8 DEF CopyFails, CopyBreaks, CleanUpAndFail, StartCleanup, Happens, DiscardOutput
<1>9. CASE MainReturns
  BY <1>9 DEF MainReturns, Exit
\* Cleanup.Run in either goroutine.
<1>10. ASSUME NEW t \in Threads, Delete(t)
       PROVE  GrantedOK' /\ NamedOK' /\ RevokedOK' /\ DeliveredOK'
  BY <1>10 DEF Delete, NextStage, AfterDelete
<1>11. ASSUME NEW t \in Threads, DeleteFails(t)
       PROVE  GrantedOK' /\ NamedOK' /\ RevokedOK' /\ DeliveredOK'
  BY <1>11 DEF DeleteFails, NextStage, AfterDelete, Happens
<1>12. ASSUME NEW t \in Threads, ReadNames(t)
       PROVE  GrantedOK' /\ NamedOK' /\ RevokedOK' /\ DeliveredOK'
  BY <1>12 DEF ReadNames, Racing
<1>13. ASSUME NEW t \in Threads, TornRead(t)
       PROVE  GrantedOK' /\ NamedOK' /\ RevokedOK' /\ DeliveredOK'
  BY <1>13 DEF TornRead, Exit
\* The signal goroutine.
<1>14. CASE UserStep
  BY <1>14 DEF UserStep, KilledByInterrupt, Interrupt, Exit
<1>15. CASE SigCancels
  BY <1>15 DEF SigCancels, StartCleanup
<1>16. CASE SigExits
  BY <1>16 DEF SigExits, Exit
\* The cluster and the pod.
<1>17. ASSUME NEW o \in Created, Execute(o)
       PROVE  GrantedOK' /\ NamedOK' /\ RevokedOK' /\ DeliveredOK'
  BY <1>17 DEF Execute, Answer, Awaited
<1>18. ASSUME NEW o \in Created, Turn(o) \/ Refuse(o)
       PROVE  GrantedOK' /\ NamedOK' /\ RevokedOK' /\ DeliveredOK'
  BY <1>18 DEF Turn, Refuse, Answer, Awaited, Happens
<1>19. CASE NamespaceGone
  BY <1>19 DEF NamespaceGone
<1>20. CASE JobDeadline \/ PodStep
  BY <1>20 DEF JobDeadline, PodStep, PodStarts, OpensPolicy, SkipsPolicy, ReportReady, PodEnds,
     PodBecomes
\* Nothing happens.
<1>21. CASE Ended \/ UNCHANGED vars
  BY <1>21 DEF Ended, vars
<1> QED
  BY <1>1, <1>2, <1>3, <1>4, <1>5, <1>6, <1>7, <1>8, <1>9, <1>10, <1>11, <1>12, <1>13, <1>14,
     <1>15, <1>16, <1>17, <1>18, <1>19, <1>20, <1>21
     DEF Next, MainStep, SigStep, FaultStep, ServerStep, Cleaning

-----------------------------------------------------------------------------
\* The initial states are those of the contract.
LEMMA CommandInit == Init => Command!Init
  BY DEF Init, Command!Init, Right, Known, Result, Bindings, Threads

\* When one right changes, the map of all of them changes in one place.
LEMMA OneRight ==
    ASSUME NEW r \in Bindings, NEW v, Right(r)' = v,
           \A b \in Bindings : b # r => Right(b)' = Right(b)
    PROVE  [b \in Bindings |-> Right(b)]' = [[b \in Bindings |-> Right(b)] EXCEPT ![r] = v]
  BY DEF Bindings

\* Every step of the command is a step of the contract.
LEMMA CommandStep == RInv /\ [Next]_vars => [Command!Next]_Command!vars
<1> SUFFICES ASSUME RInv, [Next]_vars PROVE [Command!Next]_Command!vars
    OBVIOUS
<1> USE DEF RInv, IInv, TypeOK, ControlOK, InflightOK, BoundOK, FinishingOK, BuiltOK, GrantedOK,
            NamedOK, RevokedOK, DeliveredOK, Known, Locations, CleanupStages, Created, Namespaced,
            InNamespace, Bindings, Threads, Early, Late, mainVars, sigVars, cleanVars, clusterVars,
            podVars, faultVars, othersIdle, processIdle, Running,
            Command!vars, Command!Next, Right, Result
\* Main, up to the Job.
<1>1. CASE PreflightPasses \/ Send \/ Register \/ RecordBindings \/ Receive
  BY <1>1 DEF PreflightPasses, Send, Register, RecordBindings, Goto, Receive, AfterCreate
<1>2. CASE PreflightFails
  BY <1>2 DEF PreflightFails, Exit, Command!Fail
<1>3. CASE CreateFails
  BY <1>3 DEF CreateFails, GiveUp, Exit, CleanUpAndFail, StartCleanup, Command!Fail
<1>4. CASE ReplyLost
  BY <1>4 DEF ReplyLost, GiveUp, Exit, CleanUpAndFail, StartCleanup, Happens, Command!Fail
\* Main, from the pod to the report.
<1>5. CASE PodFound \/ LogsReady \/ ReadClusterName \/ OpenOutput
  BY <1>5 DEF PodFound, LogsReady, ReadClusterName, OpenOutput, Goto
<1>6. CASE WaitFails \/ LogsEnd \/ LogsBreak
  BY <1>6 DEF WaitFails, LogsEnd, LogsBreak, CleanUpAndFail, StartCleanup, Happens
<1>7. CASE CopyDone
  BY <1>7 DEF CopyDone, StartCleanup, Command!Deliver
<1>8. CASE CopyFails \/ CopyBreaks
  BY <1>8 DEF CopyFails, CopyBreaks, CleanUpAndFail, StartCleanup, Happens, DiscardOutput
<1>9. CASE MainReturns
  BY <1>9 DEF MainReturns, Exit, Command!Fail, Command!Succeed
\* Cleanup.Run in either goroutine.
<1>10. ASSUME NEW t \in Threads, Delete(t) PROVE [Command!Next]_Command!vars
  <2>1. /\ UNCHANGED <<mainVars, names, proc, podVars, faultVars, keep>>
        /\ clean[t] \in {"policy", "namespace"} \union Bindings
        /\ objs' = IF clean[t] = "namespace" THEN objs ELSE objs \ {clean[t]}
    BY <1>10 DEF Delete, NextStage, AfterDelete
  <2>2. Known' = Known /\ Result' = Result /\ (clean[t] \in Bindings => Known)
    BY <1>10, <2>1
  <2>3. CASE clean[t] \in Bindings /\ clean[t] \in objs
    <3>1. PICK r \in Bindings : r = clean[t]
      BY <2>3
    <3>2. /\ "job" \in objs' <=> "job" \in objs
          /\ Right(r) = "held" /\ Right(r)' = "revoked"
          /\ \A b \in Bindings : b # r => Right(b)' = Right(b)
      BY <2>1, <2>2, <2>3, <3>1
    <3>3. [b \in Bindings |-> Right(b)]'
              = [[b \in Bindings |-> Right(b)] EXCEPT ![r] = "revoked"]
      BY <3>2, OneRight
    <3>4. Command!Revoke(r)
      <4> HIDE DEF RInv, IInv, TypeOK, Known, Right, Result, Bindings
      <4> QED
        BY <2>1, <2>2, <3>2, <3>3 DEF Command!Revoke
    <3> QED
      BY <3>4
  <2>4. CASE ~(clean[t] \in Bindings /\ clean[t] \in objs)
    <3>1. \A b \in Bindings : Right(b)' = Right(b)
      BY <2>1, <2>2, <2>4
    <3> QED
      BY <2>1, <2>2, <3>1
  <2> QED
    BY <2>3, <2>4
<1>11. ASSUME NEW t \in Threads, DeleteFails(t) PROVE [Command!Next]_Command!vars
  BY <1>11 DEF DeleteFails, NextStage, AfterDelete, Happens, Command!Excuse
<1>12. ASSUME NEW t \in Threads, ReadNames(t) PROVE [Command!Next]_Command!vars
  BY <1>12 DEF ReadNames, Racing
<1>13. ASSUME NEW t \in Threads, TornRead(t) PROVE [Command!Next]_Command!vars
  BY <1>13 DEF TornRead, Exit, Command!Fail
\* The signal goroutine.
<1>14. CASE UserStep
  BY <1>14 DEF UserStep, KilledByInterrupt, Interrupt, Exit, Command!Fail
<1>15. CASE SigCancels
  BY <1>15 DEF SigCancels, StartCleanup
<1>16. CASE SigExits
  BY <1>16 DEF SigExits, Exit, Command!Fail
\* The cluster and the pod.
<1>17. ASSUME NEW o \in Created, Execute(o) PROVE [Command!Next]_Command!vars
  <2>1. /\ o \in inflight /\ objs' = objs \union {o}
        /\ UNCHANGED <<pc, crbNames, output, names, proc, podVars, botched, keep>>
    BY <1>17 DEF Execute, Answer
  <2>2. Known' = Known /\ Result' = Result /\ Result \in {"none", "failure"}
    BY <2>1
  <2>3. CASE o \in Bindings /\ o \notin objs
    <3>1. /\ Right(o) = "none" /\ Right(o)' = "held"
          /\ \A b \in Bindings : b # o => Right(b)' = Right(b)
      BY <2>1, <2>3
    <3>2. [b \in Bindings |-> Right(b)]'
              = [[b \in Bindings |-> Right(b)] EXCEPT ![o] = "held"]
      BY <2>3, <3>1, OneRight
    <3>3. "job" \in objs' <=> "job" \in objs
      BY <2>1, <2>3
    <3>4. Command!Grant(o)
      <4> HIDE DEF RInv, IInv, TypeOK, Known, Right, Result, Bindings
      <4> QED
        BY <2>1, <2>2, <2>3, <3>1, <3>2, <3>3 DEF Command!Grant
    <3> QED
      BY <2>3, <3>4
  <2>4. CASE o = "job"
    <3>1. \A b \in Bindings : Right(b)' = Right(b) /\ Right(b) # "none"
      BY <2>1, <2>4
    <3> QED
      BY <2>1, <2>2, <2>4, <3>1 DEF Command!Launch
  <2>5. CASE o # "job" /\ ~(o \in Bindings /\ o \notin objs)
    BY <2>1, <2>5
  <2> QED
    BY <2>3, <2>4, <2>5
<1>18. ASSUME NEW o \in Created, Turn(o) \/ Refuse(o) PROVE [Command!Next]_Command!vars
  BY <1>18 DEF Turn, Refuse, Answer, Awaited, Happens
<1>19. CASE NamespaceGone
  BY <1>19 DEF NamespaceGone
<1>20. CASE JobDeadline \/ PodStep
  BY <1>20 DEF JobDeadline, PodStep, PodStarts, OpensPolicy, SkipsPolicy, ReportReady, PodEnds,
     PodBecomes
\* Nothing happens.
<1>21. CASE Ended \/ UNCHANGED vars
  BY <1>21 DEF Ended, vars
<1> QED
  BY <1>1, <1>2, <1>3, <1>4, <1>5, <1>6, <1>7, <1>8, <1>9, <1>10, <1>11, <1>12, <1>13, <1>14,
     <1>15, <1>16, <1>17, <1>18, <1>19, <1>20, <1>21
     DEF Next, MainStep, SigStep, FaultStep, ServerStep, Cleaning

\* Through every failure, interrupt and late request the command keeps its contract
\* (run.go, cleanup.go).
THEOREM KeepsContract == Spec => CommandKeepsContract
  BY RInvInit, RInvStep, CommandInit, CommandStep, PTL
     DEF Spec, CommandKeepsContract, Command!Spec

\* The pod that the command sees is the abstract one (job.go:54-60).
THEOREM ReliesOnPodOnly == Spec => AssumesNoMore
<1>1. Init => AnalyzerPod!Init
  BY DEF Init, AnalyzerPod!Init
<1>2. ASSUME TypeOK, [Next]_vars PROVE [AnalyzerPod!Next]_AnalyzerPod!vars
  <2> USE DEF AnalyzerPod!Next, AnalyzerPod!vars, AnalyzerPod!Start, AnalyzerPod!Collect,
          AnalyzerPod!Announce, AnalyzerPod!End, AnalyzerPod!Delete, PodBecomes
  <2>1. CASE PodStep
    BY <2>1 DEF PodStep, PodStarts, OpensPolicy, SkipsPolicy, ReportReady, PodEnds
  <2>2. CASE NamespaceGone \/ JobDeadline
    BY <2>2 DEF NamespaceGone, JobDeadline
  <2>3. CASE UNCHANGED podVars
    BY <2>3 DEF podVars
  <2>4. UNCHANGED podVars \/ PodStep \/ NamespaceGone \/ JobDeadline
    BY <1>2 DEF Next, vars, podVars, othersIdle, MainStep, PreflightPasses, PreflightFails, Send,
       Receive, CreateFails, Register, RecordBindings, PodFound, WaitFails, LogsReady, LogsEnd,
       ReadClusterName, OpenOutput, CopyDone, CopyFails, Cleaning, MainReturns, Goto, Exit, GiveUp,
       CleanUpAndFail, Delete, NextStage, ReadNames, TornRead, SigStep, SigCancels, SigExits,
       FaultStep, ReplyLost, LogsBreak, CopyBreaks, DeleteFails, Refuse, Answer, UserStep,
       KilledByInterrupt, Interrupt, ServerStep, Execute, Turn, Ended
  <2> QED
    BY <2>1, <2>2, <2>3, <2>4
<1> QED
  BY <1>1, <1>2, TypeCorrect, PTL DEF Spec, AssumesNoMore, AnalyzerPod!Spec
=============================================================================
