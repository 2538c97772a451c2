-------------------------- MODULE OvroAccessProofs --------------------------
(***************************************************************************)
(* Theorems about OvroAccess, for every number of runs, probes and         *)
(* queries. Holes in a report are explained by the loss of access, and     *)
(* that by the order of an analyzer's phases: it opens the policy before   *)
(* it probes, and uses OVRO only after a probe.                            *)
(***************************************************************************)
EXTENDS OvroAccess, TLAPS

\* An analyzer past its opening does not come back to it, so a cleanup that was
\* late stays late; only a run that found OVRO opens, also belatedly, probes or uses it; a
\* source other than Thanos is chosen for good, at the end of the discovery.
PhasesOK ==
    \A r \in Runs :
        /\ cleaned[r] = "late" => phase[r] \notin Opening
        /\ phase[r] \in {"create", "update", "probe"} => found[r]
        /\ late[r] # "no" => found[r]
        /\ source[r] = "ovro" => found[r]
        /\ source[r] # "thanos" => phase[r] \in {"collect", "serve", "gone"}

IInv == TypeOK /\ PhasesOK /\ PolicyHasOwner /\ LosesAccessOnlyToOthers /\ HolesHaveACause

\* The invariant holds at the start.
LEMMA InitInv == Init => IInv
BY RunsAssumption, CountsAssumption
   DEF Init, IInv, TypeOK, PhasesOK, PolicyHasOwner, LosesAccessOnlyToOthers,
       HolesHaveACause, Deleted, Phases, Opening

\* Types are kept by every step.
LEMMA TypeStep == TypeOK /\ [Next]_vars => TypeOK'
<1> SUFFICES ASSUME TypeOK, [Next]_vars PROVE TypeOK'
    OBVIOUS
<1> USE RunsAssumption, CountsAssumption DEF TypeOK, Phases, Opening, Moves
<1>1. ASSUME NEW r \in Runs, Analyzer(r) PROVE TypeOK'
  <2>0. CASE UsesEndpoint(r)  BY <2>0 DEF UsesEndpoint
  <2>1. CASE KeepsThanos(r)   BY <2>1 DEF KeepsThanos
  <2>2. CASE Detects(r)       BY <2>2 DEF Detects
  <2>3. CASE Creates(r)       BY <2>3 DEF Creates
  <2>4. CASE Updates(r)       BY <2>4 DEF Updates
  <2>5. CASE OpeningFails(r)  BY <2>5 DEF OpeningFails
  <2>6. CASE ProbeSucceeds(r) BY <2>6 DEF ProbeSucceeds
  <2>7. CASE ProbeFails(r)    BY <2>7 DEF ProbeFails
  <2>8. CASE FallsBack(r)     BY <2>8 DEF FallsBack
  <2>9. CASE Query(r)         BY <2>9 DEF Query, Asked
  <2>10. CASE Reports(r)      BY <2>10 DEF Reports
  <2>11. CASE QueryErrs(r)    BY <2>11 DEF QueryErrs, Asked
  <2> QED BY <1>1, <2>0, <2>1, <2>2, <2>3, <2>4, <2>5, <2>6, <2>7, <2>8, <2>9, <2>10, <2>11
          DEF Analyzer
<1>2. ASSUME NEW r \in Runs, Cleanup(r) \/ CleanupFails(r) \/ OpensLate(r) PROVE TypeOK'
    BY <1>2 DEF Cleanup, CleanupFails, OpensLate
<1>3. ASSUME NEW r \in Runs, PodEnds(r) PROVE TypeOK'
    BY <1>3 DEF PodEnds
<1>4. ASSUME NEW r \in Runs, Expires(r) PROVE TypeOK'
    BY <1>4 DEF Expires
<1>5. CASE Outage
    BY <1>5 DEF Outage, runVars
<1>6. CASE UNCHANGED vars
    BY <1>6 DEF vars, runVars
<1> QED BY <1>1, <1>2, <1>3, <1>4, <1>5, <1>6 DEF Next

\* The phases only go forward.
LEMMA PhasesStep == TypeOK /\ PhasesOK /\ [Next]_vars => PhasesOK'
<1> SUFFICES ASSUME TypeOK, PhasesOK, [Next]_vars PROVE PhasesOK'
    OBVIOUS
<1> USE DEF TypeOK, PhasesOK, Phases, Opening, Moves
<1>1. ASSUME NEW r \in Runs, Analyzer(r) PROVE PhasesOK'
    BY <1>1 DEF Analyzer, UsesEndpoint, KeepsThanos, Detects, Creates, Updates, OpeningFails,
                ProbeSucceeds, ProbeFails, FallsBack, Query, QueryErrs, Asked, Reports
<1>2. ASSUME NEW r \in Runs, Cleanup(r) \/ CleanupFails(r) \/ OpensLate(r) PROVE PhasesOK'
    BY <1>2 DEF Cleanup, CleanupFails, OpensLate
<1>3. ASSUME NEW r \in Runs, PodEnds(r) PROVE PhasesOK'
    BY <1>3 DEF PodEnds
<1>4. ASSUME NEW r \in Runs, Expires(r) PROVE PhasesOK'
    BY <1>4 DEF Expires
<1>5. CASE Outage
    BY <1>5 DEF Outage, runVars
<1>6. CASE UNCHANGED vars
    BY <1>6 DEF vars, runVars
<1> QED BY <1>1, <1>2, <1>3, <1>4, <1>5, <1>6 DEF Next

\* Only a run that is opening, or was when it gave up, puts itself into the policy.
LEMMA OwnerStep ==
    TypeOK /\ PhasesOK /\ PolicyHasOwner /\ [Next]_vars => PolicyHasOwner'
<1> SUFFICES ASSUME TypeOK, PhasesOK, PolicyHasOwner, [Next]_vars PROVE PolicyHasOwner'
    OBVIOUS
<1> USE RunsAssumption DEF TypeOK, PhasesOK, PolicyHasOwner, Opening, Moves
<1>1. ASSUME NEW r \in Runs, Analyzer(r) PROVE PolicyHasOwner'
    BY <1>1 DEF Analyzer, UsesEndpoint, KeepsThanos, Detects, Creates, Updates, OpeningFails,
                ProbeSucceeds, ProbeFails, FallsBack, Query, QueryErrs, Asked, Reports
<1>2. ASSUME NEW r \in Runs,
             Cleanup(r) \/ CleanupFails(r) \/ OpensLate(r) \/ PodEnds(r) \/ Expires(r)
      PROVE  PolicyHasOwner'
    BY <1>2 DEF Cleanup, CleanupFails, OpensLate, PodEnds, Expires
<1>3. CASE Outage \/ UNCHANGED vars
    BY <1>3 DEF Outage, vars, runVars
<1> QED BY <1>1, <1>2, <1>3 DEF Next

\* Whoever interferes with a run has done so for good.
LEMMA IntruderStays ==
    ASSUME TypeOK, [Next]_vars, NEW r \in Runs, Intruder(r)
    PROVE  Intruder(r)'
<1>1. PICK q \in Runs \ {r} : found[q] \/ Deleted(q)
    BY DEF Intruder
<1> SUFFICES found'[q] \/ Deleted(q)'
    BY DEF Intruder
<1> USE <1>1 DEF TypeOK, Moves, Deleted
<1>2. ASSUME NEW s \in Runs, Analyzer(s)
      PROVE  found'[q] \/ Deleted(q)'
    BY <1>2 DEF Analyzer, UsesEndpoint, KeepsThanos, Detects, Creates, Updates, OpeningFails,
                ProbeSucceeds, ProbeFails, FallsBack, Query, QueryErrs, Asked, Reports
<1>3. ASSUME NEW s \in Runs,
             Cleanup(s) \/ CleanupFails(s) \/ OpensLate(s) \/ PodEnds(s) \/ Expires(s)
      PROVE  found'[q] \/ Deleted(q)'
    BY <1>3 DEF Cleanup, CleanupFails, OpensLate, PodEnds, Expires
<1>4. CASE Outage \/ UNCHANGED vars
    BY <1>4 DEF Outage, vars, runVars
<1> QED BY <1>2, <1>3, <1>4 DEF Next

\* The policy is taken from a run by another run, or by its own cleanup.
LEMMA TakenByOther ==
    ASSUME TypeOK, PhasesOK, [Next]_vars, NEW r \in Runs, policy = r,
           source'[r] = "ovro", ~Deleted(r)', policy' # r
    PROVE  Intruder(r)'
<1> USE DEF TypeOK, PhasesOK, Phases, Opening, Moves, Deleted
<1>1. ASSUME NEW q \in Runs, Creates(q) PROVE Intruder(r)'
  <2>1. q # r
      BY <1>1 DEF Creates
  <2>2. found'[q]
      BY <1>1 DEF Creates
  <2> QED BY <2>1, <2>2 DEF Intruder
<1>2. ASSUME NEW q \in Runs, Updates(q) \/ OpensLate(q) PROVE Intruder(r)'
  <2>1. q # r
      BY <1>2, RunsAssumption DEF Updates, OpensLate
  <2>2. found'[q]
      BY <1>2 DEF Updates, OpensLate
  <2> QED BY <2>1, <2>2 DEF Intruder
<1>3. ASSUME NEW q \in Runs, Cleanup(q) PROVE Intruder(r)'
  <2>1. q # r /\ Deleted(q)'
      BY <1>3 DEF Cleanup
  <2> QED BY <2>1 DEF Intruder
<1>4. ASSUME NEW q \in Runs,
             \/ UsesEndpoint(q) \/ KeepsThanos(q) \/ Detects(q) \/ OpeningFails(q)
             \/ ProbeSucceeds(q) \/ ProbeFails(q) \/ FallsBack(q)
             \/ Query(q) \/ QueryErrs(q) \/ Reports(q)
             \/ CleanupFails(q) \/ PodEnds(q) \/ Expires(q)
      PROVE  FALSE
    BY <1>4 DEF UsesEndpoint, KeepsThanos, Detects, OpeningFails, ProbeSucceeds,
                ProbeFails, FallsBack, Query, QueryErrs, Asked, Reports, CleanupFails,
                PodEnds, Expires
<1>5. CASE Outage \/ UNCHANGED vars
    BY <1>5 DEF Outage, vars, runVars
<1> QED BY <1>1, <1>2, <1>3, <1>4, <1>5 DEF Next, Analyzer

\* A run starts to use OVRO only when it is admitted, and does not change its source
\* after that; a deletion stays deleted.
LEMMA SourceStep ==
    ASSUME TypeOK, PhasesOK, [Next]_vars, NEW r \in Runs
    PROVE  /\ source'[r] = "ovro" => source[r] = "ovro" \/ policy' = r
           /\ Deleted(r) => Deleted(r)'
           /\ expired[r] => expired'[r]
           /\ store # "up" => store' # "up"
           /\ source[r] = "ovro" => source'[r] = "ovro"
           /\ source[r] = "custom" => source'[r] = "custom"
<1> USE DEF TypeOK, PhasesOK, Moves, Deleted
<1> DEFINE Goal ==
        /\ source'[r] = "ovro" => source[r] = "ovro" \/ policy' = r
        /\ Deleted(r) => Deleted(r)'
        /\ expired[r] => expired'[r]
        /\ store # "up" => store' # "up"
        /\ source[r] = "ovro" => source'[r] = "ovro"
        /\ source[r] = "custom" => source'[r] = "custom"
<1>1. ASSUME NEW q \in Runs, Analyzer(q) PROVE Goal
    BY <1>1 DEF Analyzer, UsesEndpoint, KeepsThanos, Detects, Creates, Updates, OpeningFails,
                ProbeSucceeds, ProbeFails, FallsBack, Query, QueryErrs, Asked, Reports,
                Reachable, Phases, Opening
<1>2. ASSUME NEW q \in Runs,
             Cleanup(q) \/ CleanupFails(q) \/ OpensLate(q) \/ PodEnds(q) \/ Expires(q)
      PROVE  Goal
    BY <1>2 DEF Cleanup, CleanupFails, OpensLate, PodEnds, Expires
<1>3. CASE Outage \/ UNCHANGED vars
    BY <1>3 DEF Outage, vars, runVars
<1> QED BY <1>1, <1>2, <1>3 DEF Next

\* Every step keeps the reason for which a run may have lost its access.
LEMMA AccessStep ==
    TypeOK /\ PhasesOK /\ LosesAccessOnlyToOthers /\ [Next]_vars
        => LosesAccessOnlyToOthers'
<1> SUFFICES ASSUME TypeOK, PhasesOK, LosesAccessOnlyToOthers, [Next]_vars, NEW r \in Runs,
                    source'[r] = "ovro", ~Deleted(r)', policy' # r
             PROVE  Intruder(r)'
    BY DEF LosesAccessOnlyToOthers
<1>1. (source[r] = "ovro" \/ policy' = r) /\ ~Deleted(r)
    BY SourceStep
<1>2. CASE policy = r
    BY <1>2, TakenByOther
<1>3. CASE policy # r
    BY <1>1, <1>3, IntruderStays DEF LosesAccessOnlyToOthers
<1> QED BY <1>2, <1>3

\* A query goes unanswered only if the run is out of time, has named its endpoint, or
\* uses OVRO and has no answer from there.
LEMMA QueryLost ==
    ASSUME TypeOK, [Next]_vars, NEW r \in Runs, "silence" \in lost'[r], "silence" \notin lost[r]
    PROVE  /\ source[r] = "ovro" => ~Reachable(r)
           /\ source[r] = "thanos" => expired[r]
           /\ UNCHANGED <<source, expired, cleaned, found, policy, store>>
<1> USE DEF TypeOK, Moves
<1>1. ASSUME NEW q \in Runs, Query(q)
      PROVE  /\ source[r] = "ovro" => ~Reachable(r)
             /\ source[r] = "thanos" => expired[r]
             /\ UNCHANGED <<source, expired, cleaned, found, policy, store>>
  <2>1. q = r
      BY <1>1 DEF Query, Asked
  <2>2. UNCHANGED <<source, expired, cleaned, found, policy, store>>
      BY <1>1 DEF Query, Asked
  <2>3. \/ ~(IF source[r] = "ovro" THEN Reachable(r) ELSE ~expired[r])
        \/ source[r] = "custom"
      BY <1>1, <2>1 DEF Query, Asked
  <2> QED BY <2>2, <2>3
<1>2. ASSUME NEW q \in Runs,
             \/ UsesEndpoint(q) \/ KeepsThanos(q) \/ Detects(q) \/ Creates(q) \/ Updates(q)
             \/ OpeningFails(q) \/ ProbeSucceeds(q) \/ ProbeFails(q) \/ FallsBack(q)
             \/ QueryErrs(q) \/ Reports(q) \/ Cleanup(q) \/ CleanupFails(q)
             \/ OpensLate(q) \/ PodEnds(q) \/ Expires(q)
      PROVE  FALSE
    BY <1>2 DEF UsesEndpoint, KeepsThanos, Detects, Creates, Updates, OpeningFails,
                ProbeSucceeds, ProbeFails, FallsBack, QueryErrs, Asked, Reports, Cleanup,
                CleanupFails, OpensLate, PodEnds, Expires
<1>3. CASE Outage \/ UNCHANGED vars
    BY <1>3 DEF Outage, vars, runVars
<1> QED BY <1>1, <1>2, <1>3 DEF Next, Analyzer

\* Every step keeps the reason for which a query may have gone unanswered.
LEMMA HolesStep ==
    TypeOK /\ PhasesOK /\ LosesAccessOnlyToOthers /\ HolesHaveACause /\ [Next]_vars
        => HolesHaveACause'
<1> SUFFICES ASSUME TypeOK, PhasesOK, LosesAccessOnlyToOthers, HolesHaveACause,
                    [Next]_vars, NEW r \in Runs,
                    "silence" \in lost'[r], ~Deleted(r)', ~expired'[r]
             PROVE  \/ source'[r] = "custom"
                    \/ source'[r] = "ovro" /\ (store' # "up" \/ Intruder(r)')
    BY DEF HolesHaveACause
<1>1. ~Deleted(r) /\ ~expired[r]
    BY SourceStep
<1>2. CASE "silence" \in lost[r]
  <2>1. \/ source[r] = "custom"
        \/ source[r] = "ovro" /\ (store # "up" \/ Intruder(r))
      BY <1>1, <1>2 DEF HolesHaveACause
  <2> QED BY <2>1, SourceStep, IntruderStays
<1>3. CASE "silence" \notin lost[r]
  <2>1. /\ UNCHANGED <<source, store>>
        /\ source[r] = "ovro" => ~Reachable(r)
        /\ source[r] # "thanos"
      BY <1>1, <1>3, QueryLost DEF TypeOK
  <2>2. CASE source[r] = "custom"
      BY <2>1, <2>2
  <2>3. CASE source[r] = "ovro"
    <3>1. store # "up" \/ policy # r
        BY <1>1, <2>1, <2>3 DEF Reachable
    <3>2. policy # r => Intruder(r)
        BY <1>1, <2>3 DEF LosesAccessOnlyToOthers
    <3> QED BY <2>1, <2>3, <3>1, <3>2, IntruderStays
  <2> QED BY <2>1, <2>2, <2>3 DEF TypeOK
<1> QED BY <1>2, <1>3

\* Every step keeps the inductive invariant.
LEMMA StepInv == IInv /\ [Next]_vars => IInv'
BY TypeStep, PhasesStep, OwnerStep, AccessStep, HolesStep DEF IInv

\* The inductive invariant holds in every behaviour.
LEMMA Invariance == Spec => []IInv
BY InitInv, StepInv, PTL DEF Spec

\* Type correctness, for all constants.
THEOREM TypeCorrect == Spec => []TypeOK
<1>1. IInv => TypeOK
    BY DEF IInv
<1> QED BY <1>1, Invariance, PTL

\* Nobody brings back the policy of a run whose cleanup has deleted it after the run
\* had opened it (main.go:71-91, 269-276, cleanup.go:51).
THEOREM PolicyOwned == Spec => []PolicyHasOwner
<1>1. IInv => PolicyHasOwner
    BY DEF IInv
<1> QED BY <1>1, Invariance, PTL

\* Access to OVRO is lost only to other runs, however many there are
\* (main.go:71-91, cleanup.go:51).
THEOREM AccessLostToOthers == Spec => []LosesAccessOnlyToOthers
<1>1. IInv => LosesAccessOnlyToOthers
    BY DEF IInv
<1> QED BY <1>1, Invariance, PTL

\* A query that nobody answered has a cause: no time, an endpoint the user named, an
\* outage of the chosen source, or another run (main.go:62-94, vm.go:54-63).
THEOREM HolesExplained == Spec => []HolesHaveACause
<1>1. IInv => HolesHaveACause
    BY DEF IInv
<1> QED BY <1>1, Invariance, PTL

\* A run alone in the cluster that was not cut off, that looked for its source itself
\* and whose source did not fail has no unanswered query, whichever source it chose:
\* its report lacks nothing but what queries that failed by themselves have cost it.
THEOREM AloneIsComplete ==
    ASSUME NEW r \in Runs, Runs = {r}
    PROVE  Spec => [](~Deleted(r) /\ ~expired[r] /\ store = "up" /\ source[r] # "custom"
                        => lost[r] \subseteq {"error"})
<1>1. IInv => (~Deleted(r) /\ ~expired[r] /\ store = "up" /\ source[r] # "custom"
                 => lost[r] \subseteq {"error"})
  <2>1. ~Intruder(r)
      BY DEF Intruder
  <2> QED BY <2>1 DEF IInv, TypeOK, HolesHaveACause
<1> QED BY <1>1, Invariance, PTL

-----------------------------------------------------------------------------
\* The work left is a natural number.
LEMMA WorkType ==
    ASSUME TypeOK, NEW r \in Runs
    PROVE  Work(r) \in Nat
<1> DEFINE ahead == [boot |-> 5, create |-> 4, update |-> 3, probe |-> 2, collect |-> 1,
                     serve |-> 0, gone |-> 0]
<1>1. ahead[phase[r]] \in Nat
    BY DEF TypeOK, Phases, Opening
<1>2. probes[r] \in Nat /\ left[r] \in Nat
    BY CountsAssumption DEF TypeOK
<1> QED BY <1>1, <1>2 DEF Work

\* A step of an analyzer leaves it less work, and changes nothing for the others.
LEMMA WorkStep ==
    ASSUME TypeOK, TypeOK', NEW q \in Runs, Analyzer(q), NEW r \in Runs
    PROVE  Work(r)' <= Work(r) /\ (r = q => Work(r)' < Work(r))
<1> USE CountsAssumption DEF TypeOK, Phases, Opening, Moves
<1>1. CASE r # q
  <2>1. UNCHANGED <<phase[r], probes[r], left[r]>>
      BY <1>1 DEF Analyzer, UsesEndpoint, KeepsThanos, Detects, Creates, Updates, OpeningFails,
                  ProbeSucceeds, ProbeFails, FallsBack, Query, QueryErrs, Asked, Reports
  <2>2. Work(r) \in Nat
      BY WorkType
  <2> QED BY <1>1, <2>1, <2>2 DEF Work
<1>2. CASE r = q
  <2>0. CASE UsesEndpoint(q)  BY <1>2, <2>0 DEF UsesEndpoint, Work
  <2>1. CASE KeepsThanos(q)   BY <1>2, <2>1 DEF KeepsThanos, Work
  <2>2. CASE Detects(q)       BY <1>2, <2>2 DEF Detects, Work
  <2>3. CASE Creates(q)       BY <1>2, <2>3 DEF Creates, Work
  <2>4. CASE Updates(q)       BY <1>2, <2>4 DEF Updates, Work
  <2>5. CASE OpeningFails(q)  BY <1>2, <2>5 DEF OpeningFails, Work
  <2>6. CASE ProbeSucceeds(q) BY <1>2, <2>6 DEF ProbeSucceeds, Work
  <2>7. CASE ProbeFails(q)    BY <1>2, <2>7 DEF ProbeFails, Work
  <2>8. CASE FallsBack(q)     BY <1>2, <2>8 DEF FallsBack, Work
  <2>9. CASE Query(q)         BY <1>2, <2>9 DEF Query, Asked, Work
  <2>10. CASE Reports(q)      BY <1>2, <2>10 DEF Reports, Work
  <2>11. CASE QueryErrs(q)    BY <1>2, <2>11 DEF QueryErrs, Asked, Work
  <2> QED BY <2>0, <2>1, <2>2, <2>3, <2>4, <2>5, <2>6, <2>7, <2>8, <2>9, <2>10, <2>11
          DEF Analyzer
<1> QED BY <1>1, <1>2

\* An analyzer takes a bounded number of steps, whatever the other runs do
\* (main.go:71-94, 238-281): the safety half of EveryRunEnds.
THEOREM WorkBounded == Spec => WorkShrinks
<1>1. ASSUME TypeOK, TypeOK', [Next]_vars, NEW r \in Runs
      PROVE  [Work(r)' <= Work(r) /\ (Analyzer(r) => Work(r)' < Work(r))]_vars
  <2> SUFFICES Work(r)' <= Work(r) \/ UNCHANGED vars
      BY <1>1, WorkStep
  <2>1. ASSUME NEW q \in Runs, Analyzer(q) PROVE Work(r)' <= Work(r)
      BY <1>1, <2>1, WorkStep
  <2>2. Work(r) \in Nat
      BY <1>1, WorkType
  <2>3. ASSUME NEW q \in Runs, Cleanup(q) \/ CleanupFails(q) \/ OpensLate(q) \/ Expires(q)
        PROVE  Work(r)' <= Work(r)
      BY <2>2, <2>3 DEF Cleanup, CleanupFails, OpensLate, Expires, Work
  <2>4. ASSUME NEW q \in Runs, PodEnds(q) PROVE Work(r)' <= Work(r)
      BY <1>1, <2>4, CountsAssumption DEF PodEnds, Moves, Work, TypeOK, Phases, Opening
  <2>5. CASE Outage
      BY <2>2, <2>5 DEF Outage, runVars, Work
  <2> QED BY <1>1, <2>1, <2>3, <2>4, <2>5 DEF Next
<1>2. TypeOK /\ TypeOK' /\ [Next]_vars =>
         [\A r \in Runs : Work(r)' <= Work(r) /\ (Analyzer(r) => Work(r)' < Work(r))]_vars
    BY <1>1
<1> QED BY <1>2, TypeCorrect, PTL DEF Spec, WorkShrinks

\* What the design document promises of the policy holds of a run that is alone in
\* the cluster (main.go:238-281, cleanup.go:51): only its own cleanup revokes it.
THEOREM AloneKeepsAccess ==
    ASSUME NEW one \in Runs, Runs = {one}
    PROVE  Spec => KeepsAccess
<1>1. ASSUME TypeOK, [Next]_vars
      PROVE  [\A r \in Runs : policy = r /\ policy' # r => cleaned'[r] # "no"]_vars
  <2> SUFFICES ASSUME policy = one, policy' # one PROVE cleaned'[one] # "no"
      OBVIOUS
  <2>1. /\ ~Analyzer(one) /\ ~CleanupFails(one) /\ ~OpensLate(one)
        /\ ~PodEnds(one) /\ ~Expires(one) /\ ~Outage /\ ~UNCHANGED vars
      BY RunsAssumption
         DEF Analyzer, UsesEndpoint, KeepsThanos, Detects, Creates, Updates, OpeningFails,
             ProbeSucceeds, ProbeFails, FallsBack, Query, QueryErrs, Asked, Reports,
             CleanupFails, OpensLate, PodEnds, Expires, Outage, vars
  <2>2. Cleanup(one)
      BY <1>1, <2>1 DEF Next
  <2> QED BY <1>1, <2>2 DEF Cleanup, TypeOK
<1>2. TypeOK /\ [Next]_vars =>
         [\A r \in Runs : policy = r /\ policy' # r => cleaned'[r] # "no"]_vars
    BY <1>1
<1> QED BY <1>2, TypeCorrect, PTL DEF Spec, KeepsAccess
=============================================================================
