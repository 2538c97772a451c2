------------------------- MODULE RightsizingProofs --------------------------
(***************************************************************************)
(* Type correctness and honest advice, for every workload, every policy    *)
(* and every length of the window. TypeOK is inductive, and AdviceIsHonest *)
(* is inductive relative to it: the calculator establishes it for the      *)
(* request it was given, and nothing but Apply, which withdraws the        *)
(* advice, changes the request.                                            *)
(***************************************************************************)
EXTENDS Rightsizing, CalculatorProofs

\* The variables have their types at the start.
LEMMA InitType == Init => TypeOK
BY WorkloadAssumption DEF Init, TypeOK, NoAdvice

\* What the collector hands to the calculator: of either resource, a family of the
\* samples that are read.
LEMMA SamplesAreFamilies ==
    ASSUME TypeOK, NEW r \in Resources
    PROVE  /\ IsFiniteSet(Returned(r)) /\ Read(r) \subseteq Returned(r)
           /\ IsFiniteSet(Read(r)) /\ Cardinality(Read(r)) \in Nat
           /\ DOMAIN Vals(r) = Read(r) /\ IsFamily(Vals(r))
<1>1. IsFiniteSet(Returned(r))
  <2>1. DOMAIN history = 1..Len(history) /\ Len(history) \in Nat
      BY DEF TypeOK
  <2>2. IsFiniteSet(DOMAIN history)
      BY <2>1, FS_Interval
  <2>3. IsFiniteSet(Series)
      BY WorkloadAssumption, FS_Product DEF Series
  <2>4. IsFiniteSet((DOMAIN history) \X Series)
      BY <2>2, <2>3, FS_Product
  <2> QED BY <2>4, FS_Subset DEF Returned
<1>2. Read(r) \subseteq Returned(r)
    BY DEF Read
<1>3. IsFiniteSet(Read(r)) /\ Cardinality(Read(r)) \in Nat
    BY <1>1, <1>2, FS_Subset, FS_CardinalityType
<1>4. \A p \in Returned(r) : history[p[1]][r][p[2]] \in Nat
  <2> SUFFICES ASSUME NEW p \in Returned(r)
               PROVE  history[p[1]][r][p[2]] \in Nat
      OBVIOUS
  <2>1. p[1] \in DOMAIN history /\ p[2] \in DOMAIN history[p[1]][r]
      BY DEF Returned
  <2>2. kind \in Kinds /\ history[p[1]] \in Moments[kind]
      BY <2>1 DEF TypeOK
  <2> QED BY <2>1, <2>2, WorkloadAssumption
<1>5. DOMAIN Vals(r) = Read(r)
    BY DEF Vals
<1>6. \A p \in Read(r) : Vals(r)[p] \in Nat
    BY <1>2, <1>4 DEF Vals
<1> QED BY <1>1, <1>2, <1>3, <1>5, <1>6 DEF IsFamily

\* The maximum of a family of samples is a natural.
LEMMA MaxValType ==
    ASSUME NEW vals, IsFamily(vals)
    PROVE  MaxVal(vals) \in Nat
<1>1. CASE DOMAIN vals = {}
    BY <1>1 DEF MaxVal
<1>2. CASE DOMAIN vals # {}
  <2>1. PICK m \in DOMAIN vals : \A i \in DOMAIN vals : vals[i] <= vals[m]
      BY <1>2, LargestSample DEF IsFamily
  <2>2. MaxVal(vals) \in {vals[i] : i \in DOMAIN vals}
      BY <1>2, <2>1 DEF MaxVal
  <2> QED BY <2>2 DEF IsFamily
<1> QED BY <1>1, <1>2

\* A percentile is a natural, in hundredths.
LEMMA PercentileType ==
    ASSUME NEW vals, IsFamily(vals)
    PROVE  ComputePercentile(vals, 95) \in Nat
<1>1. CASE DOMAIN vals = {}
    BY <1>1, FS_EmptySet DEF ComputePercentile
<1>2. CASE DOMAIN vals # {}
  <2>1. Cardinality(DOMAIN vals) \in Nat /\ Cardinality(DOMAIN vals) > 0
      BY <1>2, FS_EmptySet, FS_CardinalityType DEF IsFamily
  <2>2. 95 \in 0..100
      OBVIOUS
  <2> QED BY <2>1, <2>2, PercentileLeavesFew
<1> QED BY <1>1, <1>2

\* A report is advice about the request it was made for.
LEMMA ReportHonest ==
    ASSUME TypeOK
    PROVE  LET r == Recommendation
           IN  /\ r \in Advice
               /\ r.direction = "downsize" =>
                    /\ r.cpu <= request.cpu /\ r.mem <= request.mem
                    /\ r.cpu < request.cpu => r.cpu >= MinCPU
                    /\ r.mem < request.mem => r.mem >= MinMem
                    /\ \/ request.cpu - r.cpu >= MinCPUSavings[kind]
                       \/ request.mem - r.mem >= MinMemSavings[kind]
               /\ r.direction = "upsize" =>
                    /\ r.cpu >= request.cpu /\ r.mem >= request.mem
                    /\ \/ r.cpu - request.cpu >= MinCPUSavings[kind]
                       \/ r.mem - request.mem >= MinMemSavings[kind]
<1> DEFINE input == [cpu    |-> request.cpu,
                     mem    |-> request.mem,
                     cpuP95 |-> CPUPercent(P95("cpu")),
                     memP95 |-> MemPercent(P95("mem")),
                     cpuMax |-> CPUPercent(100 * Peak("cpu")),
                     memMax |-> MemPercent(100 * Peak("mem")),
                     minCPUSavings |-> MinCPUSavings[kind],
                     minMemSavings |-> MinMemSavings[kind]]
<1>1. CASE Recommendation = NoAdvice
    BY <1>1 DEF NoAdvice, Advice
<1>2. CASE Recommendation = Analyze(input) /\ ~ Skipped
  <2>1. \A h \in Nat : IsPercent(CPUPercent(h)) /\ IsPercent(MemPercent(h))
    <3> SUFFICES ASSUME NEW h \in Nat
                 PROVE  IsPercent(CPUPercent(h)) /\ IsPercent(MemPercent(h))
        OBVIOUS
    <3>1. request.cpu \in Nat /\ request.mem \in Nat /\ kind \in {"vm", "container"}
        BY WorkloadAssumption DEF TypeOK
    <3>2. IsPercent(CPUPercent(h))
        BY <1>2, <3>1, WorkloadAssumption DEF CPUPercent, PercentOf, IsPercent, Skipped
    <3>3. h * MemUnit \in Nat
        BY WorkloadAssumption, ProductType
    <3>4. IsPercent(MemPercent(h))
        BY <3>1, <3>3 DEF MemPercent, PercentOf, IsPercent
    <3> QED BY <3>2, <3>4
  <2>2. \A r \in Resources : P95(r) \in Nat /\ 100 * Peak(r) \in Nat
    <3> SUFFICES ASSUME NEW r \in Resources PROVE P95(r) \in Nat /\ 100 * Peak(r) \in Nat
        OBVIOUS
    <3>1. IsFamily(Vals(r))
        BY SamplesAreFamilies
    <3>2. P95(r) \in Nat
        BY <3>1, PercentileType DEF P95
    <3>3. Peak(r) \in Nat
        BY <3>1, MaxValType DEF Peak
    <3> QED BY <3>2, <3>3
  <2>3. /\ request.cpu \in Nat /\ request.mem \in Nat
        /\ MinCPUSavings[kind] \in Nat \ {0} /\ MinMemSavings[kind] \in Nat \ {0}
      BY WorkloadAssumption DEF TypeOK
  <2>4. IsInput(input)
      BY <2>1, <2>2, <2>3 DEF IsInput, Resources
  <2>5. /\ input.cpu = request.cpu /\ input.mem = request.mem
        /\ input.minCPUSavings = MinCPUSavings[kind]
        /\ input.minMemSavings = MinMemSavings[kind]
      OBVIOUS
  <2> HIDE DEF input
  <2> QED BY <1>2, <2>4, <2>5, AnalyzeHonest DEF HonestDownsize, HonestUpsize
<1> QED BY <1>1, <1>2 DEF Recommendation

\* Every step keeps the types.
LEMMA NextType == TypeOK /\ [Next]_vars => TypeOK'
<1> SUFFICES ASSUME TypeOK, [Next]_vars PROVE TypeOK'
    OBVIOUS
<1>1. CASE Report
    BY <1>1, ReportHonest DEF Report, TypeOK, Advice
<1>2. CASE Apply
  <2>1. advice.cpu \in Nat /\ advice.mem \in Nat /\ Core \in Nat \ {0}
      BY WorkloadAssumption DEF TypeOK
  <2>2. CeilDiv(advice.cpu, Core) \in Nat
      BY <2>1, CeilDivBounds
  <2>3. CeilDiv(advice.cpu, Core) * Core \in Nat
      BY <2>1, <2>2, ProductType
  <2>4. Granted(advice.cpu) \in Nat
      BY <2>1, <2>3 DEF Granted
  <2> QED BY <1>2, <2>1, <2>4 DEF Apply, TypeOK, NoAdvice
<1>3. CASE Tick
  <2> DEFINE P == Moments[kind]
  <2>1. PICK moment \in P :
          history' = IF Len(history) < Window THEN Append(history, moment)
                                              ELSE Append(Tail(history), moment)
      BY <1>3 DEF Tick
  <2>2. history \in Seq(P) /\ Len(history) <= Window /\ Window \in Nat \ {0}
      BY WorkloadAssumption DEF TypeOK
  <2> HIDE DEF P
  <2>3. history' \in Seq(P) /\ Len(history') <= Window
      BY <2>1, <2>2
  <2> QED BY <1>3, <2>3 DEF Tick, TypeOK, P
<1>4. CASE QueryFails
    BY <1>4 DEF QueryFails, TypeOK, NoAdvice
<1>5. CASE UNCHANGED vars
    BY <1>5 DEF vars, TypeOK
<1> QED BY <1>1, <1>2, <1>3, <1>4, <1>5 DEF Next

\* Type correctness of the workload and of what is reported about it
\* (container.go:77-144, vm.go:54-118).
THEOREM TypeCorrect == Spec => []TypeOK
BY InitType, NextType, PTL DEF Spec

\* Every step keeps advice honest: only Apply changes the request, and it withdraws
\* the advice.
LEMMA NextHonest == TypeOK /\ AdviceIsHonest /\ [Next]_vars => AdviceIsHonest'
<1> SUFFICES ASSUME TypeOK, AdviceIsHonest, [Next]_vars PROVE AdviceIsHonest'
    OBVIOUS
<1>1. CASE Report
    BY <1>1, ReportHonest DEF Report, AdviceIsHonest
<1>2. CASE Apply
    BY <1>2 DEF Apply, AdviceIsHonest, NoAdvice
<1>3. CASE Tick
    BY <1>3 DEF Tick, AdviceIsHonest
<1>4. CASE QueryFails
    BY <1>4 DEF QueryFails, AdviceIsHonest, NoAdvice
<1>5. CASE UNCHANGED vars
    BY <1>5 DEF vars, AdviceIsHonest
<1> QED BY <1>1, <1>2, <1>3, <1>4, <1>5 DEF Next

\* Advice fits the request when it is applied, however late
\* (calculator.go:74-93, 118-130).
THEOREM HonestAdvice == Spec => []AdviceIsHonest
<1>1. Init => AdviceIsHonest
    BY DEF Init, AdviceIsHonest, NoAdvice
<1> QED BY <1>1, InitType, NextType, NextHonest, PTL DEF Spec
=============================================================================
