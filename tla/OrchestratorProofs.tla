------------------------- MODULE OrchestratorProofs -------------------------
(***************************************************************************)
(* Theorems about Orchestrator, for every set of faults and with or        *)
(* without interrupts, and the inductive invariant they rest on.           *)
(***************************************************************************)
EXTENDS Orchestrator, TLAPS

\* Before the signal handler exists; after the bindings have been recorded.
Early == {"preflight", "namespace", "register"}
Late  == {"job", "waitForPod", "streamLogs", "clusterName", "copy", "finishing"}

AllIdle == \A t \in Threads : clean[t] = "idle"

\* Each goroutine is in Cleanup.Run exactly when its control says so.
ControlOK ==
    /\ sig = "off" <=> pc \in Early
    /\ cancelled <=> sig = "cleaning"
    /\ clean["sig"] = "idle" <=> sig # "cleaning"
    /\ clean["main"] = "idle" <=> pc \notin {"failing", "finishing"}
    /\ \A t \in Threads :
          names[t] # {} => clean[t] \in Bindings \union {"namespace", "done"}

\* A request is on its way only while main waits for it or has given up; the
\* one for the namespace is never given up by a process that goes on.
InflightOK ==
    \A o \in inflight :
        (pc = o /\ call = "sent") \/ (pc = "failing" /\ o # "namespace")

\* Whoever knows the bindings' names knows them after both requests ended.
BoundOK ==
    /\ pc \in Late => crbNames = Bindings
    /\ crbNames # {} => pc \in Late \union {"failing"}
    /\ \A t \in Threads :
          names[t] # {} => pc \in Late \union {"recordCRBs", "failing"}
    /\ (crbNames # {} \/ \E t \in Threads : names[t] # {}) =>
          Bindings \intersect inflight = {}

\* What the objects of a cleanup that is under way have become.
DeletedOK ==
    botched = {} =>
        \A t \in Threads :
            /\ names[t] # {} /\ clean[t] \in {"monitoringCRB", "namespace", "done"}
                  => "analyzerCRB" \notin objs
            /\ names[t] # {} /\ clean[t] \in {"namespace", "done"}
                  => "monitoringCRB" \notin objs
            /\ clean[t] = "done" /\ ~keep => NamespaceDoomed

\* A run whose report is complete has a pod that is past creating the network
\* policy, and its own cleanup knows the bindings.
FinishingOK ==
    /\ pc = "finishing" =>
          /\ output = "complete"
          /\ pod \in {"serving", "ended", "deleted"}
          /\ ~keep /\ clean["main"] \notin {"policy", "read"} =>
                 names["main"] = Bindings
          /\ ~keep /\ clean["main"] # "policy" /\ botched = {} =>
                 "policy" \notin objs
    /\ output # "none" => pc \in {"copy", "finishing"}
    /\ proc = "exit0" => pc = "finishing" /\ clean["main"] = "done"
    /\ proc = "exit1" /\ ~cancelled => pc \in {"preflight", "namespace", "failing"}

\* What main has created before it reaches each location.
Built ==
    [l \in Locations |->
        CASE l = "clusterRole"   -> {"serviceAccount", "caBundle"}
          [] l = "caBundle"      -> {"serviceAccount"}
          [] l = "analyzerCRB"   -> {"serviceAccount", "caBundle", "clusterRole"}
          [] l = "monitoringCRB" -> Prerequisites \ {"monitoringCRB"}
          [] l \in Late \union {"recordCRBs"} -> Prerequisites
          [] OTHER -> {}]

\* Until a cleanup begins, everything created so far is there.
BuiltOK ==
    /\ "job" \in objs \union inflight => crbNames = Bindings
    /\ terminating => ~AllIdle
    /\ AllIdle => Built[pc] \subseteq objs /\ (call = "ok" => pc \in objs)

IInv == TypeOK /\ ControlOK /\ InflightOK /\ BoundOK /\ DeletedOK /\ FinishingOK /\ BuiltOK

\* IInv holds at the start.
LEMMA IInvInit == Init => IInv
  BY DEF Init, IInv, TypeOK, ControlOK, InflightOK, BoundOK, DeletedOK, FinishingOK, BuiltOK,
         Locations, CleanupStages, Created, Namespaced, InNamespace, Bindings,
         Threads, Early, Late, AllIdle, Built, Prerequisites, NamespaceDoomed

\* Every step of every party preserves it. Only Delete needs care: the stage it
\* moves to, and what it has taken away for the goroutine that makes it.
LEMMA IInvStep == IInv /\ [Next]_vars => IInv'
<1> SUFFICES ASSUME IInv, [Next]_vars PROVE IInv'
    OBVIOUS
<1> USE DEF IInv, TypeOK, ControlOK, InflightOK, BoundOK, DeletedOK, FinishingOK, BuiltOK,
            Locations, CleanupStages, Created, Namespaced, InNamespace, Bindings,
            Threads, Early, Late, AllIdle, Built, Prerequisites, NamespaceDoomed,
            Running, mainVars, sigVars, cleanVars, clusterVars, podVars, faultVars,
            othersIdle, processIdle
\* Main, up to the Job.
<1>1. CASE PreflightPasses
  BY <1>1 DEF PreflightPasses, Goto
<1>2. CASE PreflightFails
  BY <1>2 DEF PreflightFails, Exit
<1>3. CASE Send
  BY <1>3 DEF Send
<1>4. CASE Receive
  BY <1>4 DEF Receive, AfterCreate
<1>5. CASE CreateFails
  BY <1>5 DEF CreateFails, GiveUp, Exit, CleanUpAndFail, StartCleanup
<1>6. CASE ReplyLost
  BY <1>6 DEF ReplyLost, GiveUp, Exit, CleanUpAndFail, StartCleanup, Happens
<1>7. CASE Register
  BY <1>7 DEF Register
<1>8. CASE RecordBindings
  BY <1>8 DEF RecordBindings
\* Main, from the pod to the report.
<1>9. CASE PodFound
  BY <1>9 DEF PodFound, Goto
<1>10. CASE WaitFails
  BY <1>10 DEF WaitFails, CleanUpAndFail, StartCleanup
<1>11. CASE LogsReady
  BY <1>11 DEF LogsReady, Goto
<1>12. CASE LogsEnd
  BY <1>12 DEF LogsEnd, CleanUpAndFail, StartCleanup
<1>13. CASE LogsBreak
  BY <1>13 DEF LogsBreak, CleanUpAndFail, StartCleanup, Happens
<1>14. CASE ReadClusterName
  BY <1>14 DEF ReadClusterName, Goto
<1>15. CASE OpenOutput
  BY <1>15 DEF OpenOutput
<1>16. CASE CopyDone
  BY <1>16 DEF CopyDone, StartCleanup
<1>17. CASE CopyFails
  BY <1>17 DEF CopyFails, CleanUpAndFail, StartCleanup, DiscardOutput
<1>18. CASE CopyBreaks
  BY <1>18 DEF CopyBreaks, CleanUpAndFail, StartCleanup, Happens, DiscardOutput
<1>19. CASE MainReturns
  BY <1>19 DEF MainReturns, Exit
\* Cleanup.Run in either goroutine.
<1>20. ASSUME NEW t \in Threads, Delete(t) PROVE IInv'
  <2>0. AfterDelete[clean[t]] \in CleanupStages
    BY <1>20 DEF Delete, NextStage, AfterDelete
  <2>1. TypeOK'
    <3>1. clean' \in [Threads -> CleanupStages]
      BY <1>20, <2>0 DEF Delete, NextStage
    <3>2. objs' \subseteq objs /\ terminating' \in BOOLEAN
      BY <1>20 DEF Delete, NextStage, AfterDelete
    <3> QED
      BY <1>20, <3>1, <3>2 DEF Delete, NextStage
  <2>2. ControlOK'
    BY <1>20 DEF Delete, NextStage, AfterDelete
  <2>3. InflightOK'
    BY <1>20 DEF Delete, NextStage, AfterDelete
  <2>4. BoundOK'
    BY <1>20 DEF Delete, NextStage, AfterDelete
  <2>5. DeletedOK'
    <3> SUFFICES ASSUME botched = {}, NEW u \in Threads
                 PROVE  /\ names[u] # {} /\ clean'[u] \in {"monitoringCRB", "namespace", "done"}
                              => "analyzerCRB" \notin objs'
                        /\ names[u] # {} /\ clean'[u] \in {"namespace", "done"}
                              => "monitoringCRB" \notin objs'
                        /\ clean'[u] = "done" /\ ~keep => NamespaceDoomed'
      BY <1>20 DEF Delete, NextStage, AfterDelete
    <3>1. objs' \subseteq objs
      BY <1>20 DEF Delete, NextStage, AfterDelete
    <3>2. CASE u # t
      BY <1>20, <3>1, <3>2 DEF Delete, NextStage
    <3>3. CASE u = t
      <4>1. clean[t] = "analyzerCRB" => "analyzerCRB" \notin objs'
        BY <1>20 DEF Delete, NextStage, AfterDelete
      <4>2. clean[t] = "monitoringCRB" => "monitoringCRB" \notin objs'
        BY <1>20 DEF Delete, NextStage, AfterDelete
      <4>3. clean[t] = "namespace" => terminating'
        BY <1>20 DEF Delete, NextStage, AfterDelete
      <4>4. clean'[t] = AfterDelete[clean[t]] /\ clean[t] \in DOMAIN AfterDelete
        BY <1>20 DEF Delete, NextStage, AfterDelete
      <4> QED
        BY <3>1, <3>3, <4>1, <4>2, <4>3, <4>4 DEF AfterDelete
    <3> QED
      BY <3>2, <3>3
  <2>6. FinishingOK'
    BY <1>20 DEF Delete, NextStage, AfterDelete
  <2>7. BuiltOK'
    BY <1>20 DEF Delete, NextStage, AfterDelete
  <2>. QED
    BY <2>1, <2>2, <2>3, <2>4, <2>5, <2>6, <2>7
<1>21. ASSUME NEW t \in Threads, DeleteFails(t) PROVE IInv'
  BY <1>21 DEF DeleteFails, NextStage, AfterDelete, Happens
<1>22. ASSUME NEW t \in Threads, ReadNames(t) PROVE IInv'
  BY <1>22 DEF ReadNames, Racing
<1>23. ASSUME NEW t \in Threads, TornRead(t) PROVE IInv'
  BY <1>23 DEF TornRead, Exit, Racing
\* The signal goroutine.
<1>24. CASE UserStep
  BY <1>24 DEF UserStep, KilledByInterrupt, Interrupt, Exit
<1>25. CASE SigCancels
  BY <1>25 DEF SigCancels, StartCleanup
<1>26. CASE SigExits
  BY <1>26 DEF SigExits, Exit
\* The cluster and the pod.
<1>27. ASSUME NEW o \in Created, Execute(o) PROVE IInv'
  BY <1>27 DEF Execute, Answer, Awaited, NamespaceActive
<1>28. ASSUME NEW o \in Created, Turn(o) PROVE IInv'
  BY <1>28 DEF Turn, Answer, Awaited, NamespaceActive
<1>29. ASSUME NEW o \in Created, Refuse(o) PROVE IInv'
  BY <1>29 DEF Refuse, Answer, Awaited, Happens
<1>30. CASE NamespaceGone
  BY <1>30 DEF NamespaceGone
<1>31. CASE JobDeadline
  BY <1>31 DEF JobDeadline, PodBecomes
<1>32. CASE PodStarts
  BY <1>32 DEF PodStarts, PodBecomes
<1>33. CASE OpensPolicy
  BY <1>33 DEF OpensPolicy, PodBecomes
<1>34. CASE SkipsPolicy
  BY <1>34 DEF SkipsPolicy, PodBecomes
<1>35. CASE ReportReady
  BY <1>35 DEF ReportReady, PodBecomes
<1>36. CASE PodEnds
  BY <1>36 DEF PodEnds, PodBecomes
\* Nothing happens.
<1>37. CASE Ended
  BY <1>37 DEF Ended, vars
<1>38. CASE UNCHANGED vars
  BY <1>38 DEF vars
<1> QED
  BY <1>1, <1>2, <1>3, <1>4, <1>5, <1>6, <1>7, <1>8, <1>9, <1>10, <1>11, <1>12, <1>13,
     <1>14, <1>15, <1>16, <1>17, <1>18, <1>19, <1>20, <1>21, <1>22, <1>23, <1>24, <1>25, <1>26,
     <1>27, <1>28, <1>29, <1>30, <1>31, <1>32, <1>33, <1>34, <1>35, <1>36, <1>37, <1>38
  DEF Next, MainStep, SigStep, FaultStep, ServerStep, PodStep, Cleaning

\* The invariant of every behaviour.
THEOREM Invariance == Spec => []IInv
<1>1. IInv /\ [Next]_vars => IInv'
  BY IInvStep
<1> QED
  BY IInvInit, <1>1, PTL DEF Spec

-----------------------------------------------------------------------------
\* Every variable keeps its type, whatever faults and interrupts there are.
THEOREM TypeCorrect == Spec => []TypeOK
<1>1. IInv => TypeOK
  BY DEF IInv
<1> QED
  BY Invariance, <1>1, PTL

\* A finished Cleanup.Run is final (cleanup.go:42-70): DeletedOK says it for the
\* last stage, given that the names a goroutine read are none or both.
THEOREM CleanupFinal == Spec => []CleanupIsFinal
<1>1. IInv => CleanupIsFinal
  BY DEF IInv, TypeOK, DeletedOK, CleanupIsFinal, Cleaned, Bindings, Threads
<1> QED
  BY Invariance, <1>1, PTL

\* A successful run leaves no binding, no network policy and no active namespace
\* (run.go:149-152).
THEOREM SuccessIsClean == Spec => []SuccessLeavesNothing
<1>1. IInv => SuccessLeavesNothing
  BY DEF IInv, TypeOK, DeletedOK, FinishingOK, SuccessLeavesNothing, Leftover, Bindings, Threads
<1> QED
  BY Invariance, <1>1, PTL

\* A Job has everything its pod relies on, and rights that can be revoked
\* (run.go:75-115).
THEOREM JobRights == Spec => []JobHasItsRights
<1>1. IInv => JobHasItsRights
  <2> SUFFICES ASSUME IInv, "job" \in objs PROVE JobHasItsRights
    BY DEF JobHasItsRights
  <2>1. crbNames = Bindings
    BY DEF IInv, BuiltOK
  <2>2. ASSUME AllIdle PROVE Prerequisites \subseteq objs
    <3>1. pc \in Late /\ pc \in Locations
      BY <2>1, <2>2 DEF IInv, TypeOK, BoundOK, ControlOK, AllIdle, Threads, Bindings
    <3> QED
      BY <2>2, <3>1 DEF IInv, BuiltOK, Built, Late
  <2> QED
    BY <2>1, <2>2 DEF JobHasItsRights, AllIdle
<1> QED
  BY Invariance, <1>1, PTL

\* The exit status tells the truth about the report file (run.go:143-152).
THEOREM Honesty == Spec => []HonestExit
<1>1. IInv => HonestExit
  BY DEF IInv, FinishingOK, HonestExit
<1> QED
  BY Invariance, <1>1, PTL

-----------------------------------------------------------------------------
(***************************************************************************)
(* How a run ends, and what the cluster does after that.                   *)
(***************************************************************************)
\* A process that ended by itself had no namespace or finished a cleanup, a killed
\* one had no handler, and main's cleanup read what main had recorded.
EndOK ==
    /\ proc \in {"exit0", "exit1"} =>
          pc \in {"preflight", "namespace"} \/ \E t \in Threads : clean[t] = "done"
    /\ proc = "killed" => sig = "off"
    /\ pc = "preflight" => "namespace" \notin objs
    /\ ~keep /\ clean["main"] \notin {"idle", "policy", "read"} =>
          names["main"] = crbNames

\* What is in the namespace goes with it, the Job's pod included.
GoneOK ==
    /\ pod \in {"booting", "collecting", "serving", "ended"} => "job" \in objs
    /\ "namespace" \notin objs => Namespaced \intersect objs = {}

\* Every step preserves EndOK, given the invariant.
LEMMA EndStep == IInv /\ EndOK /\ [Next]_vars => EndOK'
<1> SUFFICES ASSUME IInv, EndOK, [Next]_vars PROVE EndOK'
    OBVIOUS
<1> USE DEF EndOK, Threads, Running, mainVars, sigVars, cleanVars, clusterVars, podVars,
            faultVars, othersIdle, processIdle
<1>1. TypeOK /\ ControlOK /\ InflightOK
    BY DEF IInv
<1>2. CASE PreflightPasses \/ PreflightFails \/ Send \/ Receive \/ Register \/ RecordBindings
    BY <1>1, <1>2 DEF PreflightPasses, PreflightFails, Send, Receive, Register, RecordBindings,
           AfterCreate, Goto, Exit, ControlOK, TypeOK, Created, Namespaced, InNamespace,
           Bindings, Locations
<1>3. CASE CreateFails \/ ReplyLost
    BY <1>1, <1>3 DEF CreateFails, ReplyLost, GiveUp, Exit, CleanUpAndFail, StartCleanup, Happens,
           ControlOK, TypeOK, Early, Created, Namespaced, InNamespace, Bindings
<1>4. CASE WaitFails \/ LogsEnd \/ LogsBreak \/ CopyFails \/ CopyBreaks
    BY <1>1, <1>4 DEF WaitFails, LogsEnd, LogsBreak, CopyFails, CopyBreaks, CleanUpAndFail,
           StartCleanup, DiscardOutput, ControlOK, TypeOK
<1>5. CASE PodFound \/ LogsReady \/ ReadClusterName \/ OpenOutput \/ CopyDone
    BY <1>1, <1>5 DEF PodFound, LogsReady, ReadClusterName, OpenOutput, CopyDone, Goto,
           StartCleanup, ControlOK, TypeOK
<1>6. CASE MainReturns \/ SigExits
    BY <1>6 DEF MainReturns, SigExits, Exit
<1>7. ASSUME NEW t \in Threads, Delete(t) \/ DeleteFails(t) PROVE EndOK'
  <2>1. /\ Running /\ UNCHANGED <<pc, crbNames, sig, names, proc, keep>>
        /\ clean[t] \in DOMAIN AfterDelete
        /\ clean' = [clean EXCEPT ![t] = AfterDelete[clean[t]]]
      BY <1>7 DEF Delete, DeleteFails, NextStage
  <2>2. objs' \subseteq objs
      BY <1>7 DEF Delete, DeleteFails
  <2>3. pc # "preflight"
      BY <1>1, <2>1 DEF ControlOK, TypeOK, AfterDelete, Early
  <2>4. clean["main"] = "policy" => clean'["main"] \in {"policy", "read"}
      BY <1>1, <2>1 DEF TypeOK, AfterDelete
  <2>5. clean["main"] \in {"idle", "read"} => clean'["main"] = clean["main"]
      BY <1>1, <2>1 DEF TypeOK, AfterDelete
  <2> QED BY <2>1, <2>2, <2>3, <2>4, <2>5
<1>8. ASSUME NEW t \in Threads, ReadNames(t) PROVE EndOK'
    BY <1>1, <1>8 DEF ReadNames, Racing, ControlOK, TypeOK, Bindings
<1>9. ASSUME NEW t \in Threads, TornRead(t) PROVE EndOK'
    BY <1>9 DEF TornRead, Exit
<1>10. CASE UserStep \/ SigCancels
    BY <1>1, <1>10 DEF UserStep, KilledByInterrupt, Interrupt, SigCancels, StartCleanup, Exit,
           ControlOK, TypeOK
<1>11. ASSUME NEW o \in Created, Execute(o) \/ Turn(o) \/ Refuse(o) PROVE EndOK'
  <2>1. UNCHANGED <<pc, crbNames, sig, clean, names, proc, keep>> /\ o \in inflight
      BY <1>11 DEF Execute, Turn, Refuse, Answer
  <2>2. pc # "preflight"
      BY <1>1, <2>1, <1>11 DEF InflightOK, Created, Namespaced, InNamespace, Bindings
  <2> QED BY <2>1, <2>2
<1>12. CASE NamespaceGone \/ JobDeadline \/ PodStep
    BY <1>12 DEF NamespaceGone, JobDeadline, PodStep, PodStarts, OpensPolicy, SkipsPolicy,
           ReportReady, PodEnds, PodBecomes
<1>13. CASE Ended \/ UNCHANGED vars
    BY <1>13 DEF Ended, vars
<1> QED
    BY <1>2, <1>3, <1>4, <1>5, <1>6, <1>7, <1>8, <1>9, <1>10, <1>11, <1>12, <1>13
    DEF Next, MainStep, SigStep, FaultStep, ServerStep, Cleaning

\* The objects and the pod are changed by deletions, by executed requests and by
\* the controllers; what main, the signal goroutine and the failures do is elsewhere.
LEMMA WhoTouchesTheCluster ==
    [Next]_vars =>
        \/ UNCHANGED <<objs, pod>>
        \/ \E t \in Threads : Delete(t)
        \/ \E o \in Created : Execute(o)
        \/ NamespaceGone \/ JobDeadline \/ PodStep
<1> USE DEF othersIdle, clusterVars, podVars, Exit, Goto, CleanUpAndFail
<1>1. MainStep => UNCHANGED <<objs, pod>> \/ \E t \in Threads : Delete(t)
  <2>1. CreateFails => UNCHANGED <<objs, pod>>
      BY DEF CreateFails, GiveUp
  <2> QED
      BY <2>1 DEF MainStep, PreflightPasses, PreflightFails, Send, Receive, Register,
         RecordBindings, PodFound, WaitFails, LogsReady, LogsEnd, ReadClusterName, OpenOutput,
         CopyDone, CopyFails, Cleaning, ReadNames, TornRead, MainReturns, Threads
<1>2. SigStep => UNCHANGED <<objs, pod>> \/ \E t \in Threads : Delete(t)
    BY DEF SigStep, SigCancels, SigExits, Cleaning, ReadNames, TornRead, Threads
<1>3. FaultStep => UNCHANGED <<objs, pod>>
    BY DEF FaultStep, ReplyLost, GiveUp, LogsBreak, CopyBreaks, DeleteFails, NextStage,
       Refuse, Answer
<1>4. UserStep => UNCHANGED <<objs, pod>>
    BY DEF UserStep, KilledByInterrupt, Interrupt
<1>5. ServerStep => UNCHANGED <<objs, pod>> \/ \E o \in Created : Execute(o)
    BY DEF ServerStep, Turn, Answer
<1>6. Ended \/ UNCHANGED vars => UNCHANGED <<objs, pod>>
    BY DEF Ended, vars
<1> QED
    BY <1>1, <1>2, <1>3, <1>4, <1>5, <1>6 DEF Next

\* Every step preserves GoneOK: an object enters an active namespace and leaves
\* with it, and a pod is there only while its Job is.
LEMMA GoneStep == GoneOK /\ [Next]_vars => GoneOK'
<1> SUFFICES ASSUME GoneOK, [Next]_vars PROVE GoneOK'
    OBVIOUS
<1> USE DEF GoneOK
<1>1. CASE UNCHANGED <<objs, pod>>
    BY <1>1
<1>2. ASSUME NEW t \in Threads, Delete(t) PROVE GoneOK'
  <2>1. pod' = pod /\ objs' \subseteq objs
      BY <1>2 DEF Delete, NextStage, podVars
  <2>2. objs \intersect Namespaced \subseteq objs'
      BY <1>2 DEF Delete, NextStage, AfterDelete, Namespaced, InNamespace
  <2> QED BY <2>1, <2>2 DEF Namespaced, InNamespace
<1>3. ASSUME NEW o \in Created, Execute(o) PROVE GoneOK'
  <2>1. objs' = objs \union {o} /\ pod' = pod
      BY <1>3 DEF Execute, Answer, podVars
  <2>2. o \in InNamespace => "namespace" \in objs
      BY <1>3 DEF Execute, NamespaceActive
  <2> QED BY <2>1, <2>2 DEF Namespaced, InNamespace
<1>4. CASE NamespaceGone
    BY <1>4 DEF NamespaceGone, Namespaced, InNamespace
<1>5. CASE JobDeadline \/ PodStarts \/ OpensPolicy \/ SkipsPolicy \/ ReportReady \/ PodEnds
    BY <1>5 DEF JobDeadline, PodStarts, OpensPolicy, SkipsPolicy, ReportReady, PodEnds,
           PodBecomes, Namespaced, InNamespace
<1> QED
    BY <1>1, <1>2, <1>3, <1>4, <1>5, WhoTouchesTheCluster DEF PodStep

\* Both hold at the start.
LEMMA EndInit == Init => EndOK /\ GoneOK
    BY DEF Init, EndOK, GoneOK, Threads, Namespaced, InNamespace

\* The invariant about the end of a run.
THEOREM EndInvariance == Spec => [](IInv /\ EndOK /\ GoneOK)
<1> DEFINE I == IInv /\ EndOK /\ GoneOK
<1>1. Init => I
    BY IInvInit, EndInit
<1>2. I /\ [Next]_vars => I'
    BY IInvStep, EndStep, GoneStep
<1> QED BY <1>1, <1>2, PTL DEF Spec

\* Every object that survives a run without a failed delete has one of the four
\* causes (run.go:68-95, cleanup.go:30-58): whoever finished a cleanup knew the
\* recorded bindings, and DeletedOK says what a finished cleanup has deleted.
THEOREM Leftovers == Spec => []LeftoversHaveACause
<1>1. ASSUME IInv, EndOK PROVE LeftoversHaveACause
  <2> SUFFICES ASSUME ~Running, proc # "panic", ~keep, botched = {}
               PROVE  /\ Bindings \intersect objs # {} =>
                            crbNames = {} \/ (cancelled /\ names["sig"] = {})
                      /\ ~NamespaceDoomed => pc \in {"namespace", "register"}
      BY DEF LeftoversHaveACause
  <2> USE <1>1 DEF IInv
  <2>1. CASE pc \in {"preflight", "namespace", "register"}
    <3>1. crbNames = {}
        BY <2>1 DEF BoundOK, Late
    <3>2. pc = "preflight" => NamespaceDoomed
        BY DEF EndOK, NamespaceDoomed
    <3> QED BY <2>1, <3>1, <3>2
  <2>2. CASE pc \notin {"preflight", "namespace", "register"}
    <3>1. proc \in {"exit0", "exit1"}
        BY <2>2 DEF TypeOK, ControlOK, EndOK, Early, Running
    <3>2. PICK t \in Threads : clean[t] = "done"
        BY <2>2, <3>1 DEF EndOK
    <3>3. NamespaceDoomed
        BY <3>2 DEF DeletedOK
    <3>4. names[t] # {} => Bindings \intersect objs = {}
        BY <3>2 DEF DeletedOK, Bindings
    <3>5. t = "main" => names[t] = crbNames
        BY <3>2 DEF EndOK
    <3>6. t = "sig" => cancelled
        BY <3>2 DEF ControlOK
    <3>7. t \in {"main", "sig"}
        BY DEF Threads
    <3> QED BY <3>3, <3>4, <3>5, <3>6, <3>7
  <2> QED BY <2>1, <2>2
<1> QED BY <1>1, EndInvariance, PTL

\* After the namespace nothing of the run comes back (cleanup.go:54-61): it was
\* marked for deletion after its creation had been confirmed, so no request for it
\* is on its way, and recorded bindings have none either.
THEOREM NoReturn == Spec => NothingComesBack
<1> DEFINE Gone == terminating /\ "namespace" \notin objs
           Left == /\ objs' \ objs \subseteq {"clusterRole"} \union (Bindings \ crbNames)
                   /\ pod' \in {"none", "deleted"}
<1>1. ASSUME IInv, GoneOK, GoneOK', [Next]_vars, Gone PROVE Left
  <2>1. Namespaced \intersect objs = {} /\ pod \in {"none", "deleted"}
      BY <1>1 DEF IInv, TypeOK, GoneOK, Namespaced, InNamespace
  <2>2. CASE objs' \subseteq objs /\ pod' = pod
      BY <2>1, <2>2
  <2>3. ASSUME NEW o \in Created, Execute(o) PROVE Left
    <3>1. objs' = objs \union {o} /\ pod' = pod /\ o \in inflight
        BY <2>3 DEF Execute, Answer, podVars
    <3>2. o \notin InNamespace
        BY <1>1, <2>3 DEF Execute, NamespaceActive
    <3>3. o # "namespace"
        BY <1>1, <3>1 DEF IInv, InflightOK, BuiltOK, ControlOK, AllIdle, Early, Threads
    <3>4. o \in Bindings => crbNames = {}
        BY <1>1, <3>1 DEF IInv, BoundOK
    <3> QED BY <2>1, <3>1, <3>2, <3>3, <3>4 DEF Created, Namespaced
  <2>4. CASE NamespaceGone
      BY <1>1, <2>4 DEF NamespaceGone
  <2>5. CASE PodStep \/ JobDeadline
      BY <2>1, <2>5 DEF PodStep, PodStarts, OpensPolicy, SkipsPolicy, ReportReady, PodEnds,
             JobDeadline, PodBecomes, Namespaced, InNamespace
  <2>6. ASSUME NEW t \in Threads, Delete(t) PROVE Left
    <3>1. objs' \subseteq objs /\ pod' = pod
        BY <2>6 DEF Delete, NextStage, podVars
    <3> QED BY <2>2, <3>1
  <2> QED
      BY <1>1, <2>2, <2>3, <2>4, <2>5, <2>6, WhoTouchesTheCluster
<1>2. (IInv /\ EndOK /\ GoneOK) /\ (IInv /\ EndOK /\ GoneOK)' /\ [Next]_vars =>
         [Gone => Left]_vars
    BY <1>1
<1> QED BY <1>2, EndInvariance, PTL DEF Spec, NothingComesBack
=============================================================================
