---------------------------- MODULE UsageProofs -----------------------------
(***************************************************************************)
(* What a report promises about the samples it has read: a downsize covers *)
(* them, an upsize puts the largest at 70%, and advice on the same samples *)
(* is contradicted by the next only over a burst. The queries mix the      *)
(* samples of all pods and containers that match, so this is about the     *)
(* usage of a pod where the samples are its own: when the answer holds one *)
(* series.                                                                 *)
(***************************************************************************)
EXTENDS RightsizingProofs

(***************************************************************************)
(* The sum over one container is its value. The sum is the value of a      *)
(* function that is chosen by its recursive equation, so there has to be   *)
(* one; on the subsets of a singleton it can be written down.              *)
(***************************************************************************)
LEMMA SumOfOne ==
    ASSUME NEW use, NEW c, use[c] \in Nat
    PROVE  SumFunctionOnSet(use, {c}) = use[c]
<1> DEFINE Some(s) == CHOOSE x \in s : TRUE
           Equation(sum) == [s \in SUBSET {c} |->
                               IF s = {} THEN 0 ELSE use[Some(s)] + sum[s \ {Some(s)}]]
           total == CHOOSE sum : sum = Equation(sum)
           known == [s \in SUBSET {c} |-> IF s = {} THEN 0 ELSE use[c]]
<1>1. SumFunctionOnSet(use, {c}) = total[{c}]
    BY DEF SumFunctionOnSet, FoldFunctionOnSet, MapThenFoldSet
<1>2. \A s \in SUBSET {c} : s # {} => s = {c} /\ Some(s) = c
    OBVIOUS
<1>3. known = Equation(known)
    BY <1>2
<1>4. total = Equation(total)
  <2> HIDE DEF Equation
  <2> QED BY <1>3
<1>5. Equation(total)[{}] = 0 /\ Equation(total)[{c}] = use[c] + total[{}]
  <2> HIDE DEF total
  <2> QED BY <1>2
<1> HIDE DEF Equation, total
<1> QED BY <1>1, <1>4, <1>5

\* The percentages of a resource are percentages of what is requested of it:
\* always those of a pod that is looked at, and those of a machine's memory if it
\* requests any, but those of a machine's CPU only if it has one core.
OwnPercent(r) ==
    request[r] > 0 /\ (r = "cpu" => kind = "container" \/ request.cpu = Core)

-----------------------------------------------------------------------------
\* The maximum of a family is one of its samples and none is larger.
LEMMA MaxValIsPeak ==
    ASSUME NEW vals, IsFamily(vals), DOMAIN vals # {}
    PROVE  /\ MaxVal(vals) \in Nat
           /\ \E m \in DOMAIN vals : vals[m] = MaxVal(vals)
           /\ \A i \in DOMAIN vals : vals[i] <= MaxVal(vals)
<1>1. PICK m \in DOMAIN vals : \A i \in DOMAIN vals : vals[i] <= vals[m]
    BY LargestSample DEF IsFamily
<1>2. /\ MaxVal(vals) \in {vals[i] : i \in DOMAIN vals}
      /\ \A i \in DOMAIN vals : vals[i] <= MaxVal(vals)
    BY <1>1 DEF MaxVal
<1> QED BY <1>2 DEF IsFamily

\* Interpolation does not go beyond the maximum (calculator.go:34-54).
LEMMA PercentileBelowPeak ==
    ASSUME NEW vals, IsFamily(vals), DOMAIN vals # {}, NEW percentile \in 0..100
    PROVE  ComputePercentile(vals, percentile) <= 100 * MaxVal(vals)
<1> DEFINE n == Cardinality(DOMAIN vals)
           lower == (percentile * (n - 1)) \div 100
           fraction == (percentile * (n - 1)) % 100
           a == Sorted(vals, lower)
           b == Sorted(vals, lower + 1)
           top == MaxVal(vals)
<1>1. n \in Nat \ {0}
    BY FS_EmptySet, FS_CardinalityType DEF IsFamily
<1>2. /\ lower \in Nat /\ lower < n /\ fraction \in 0..99
      /\ fraction # 0 => lower + 1 < n
    BY <1>1, RanksInRange
<1>3. ComputePercentile(vals, percentile)
        = 100 * a + (IF fraction = 0 THEN 0 ELSE fraction * (b - a))
    BY <1>1 DEF ComputePercentile
<1> HIDE DEF lower, fraction, n
<1>4. \A k \in Nat : k < n => Sorted(vals, k) \in Nat /\ Sorted(vals, k) <= MaxVal(vals)
  <2> SUFFICES ASSUME NEW k \in Nat, k < n
               PROVE  Sorted(vals, k) \in Nat /\ Sorted(vals, k) <= MaxVal(vals)
      OBVIOUS
  <2>1. Sorted(vals, k) \in {vals[i] : i \in DOMAIN vals}
      BY OrderStatistic DEF n
  <2> QED BY <2>1, MaxValIsPeak DEF IsFamily
<1>5. a \in Nat /\ a <= top /\ top \in Nat
    BY <1>2, <1>4, MaxValIsPeak
<1>6. fraction # 0 => b \in Nat /\ b <= top
    BY <1>2, <1>4
<1> HIDE DEF a, b, top
<1>7. CASE fraction = 0
    BY <1>3, <1>5, <1>7 DEF top
<1>8. CASE fraction # 0
  <2>1. (100 - fraction) * (top - a) >= 0 /\ fraction * (top - b) >= 0
      BY <1>2, <1>5, <1>6, <1>8
  <2>2. /\ (100 - fraction) * (top - a)
             = 100 * top - fraction * top - 100 * a + fraction * a
        /\ fraction * (top - b) = fraction * top - fraction * b
        /\ fraction * (b - a) = fraction * b - fraction * a
      BY <1>2, <1>5, <1>6, <1>8
  <2>3. /\ fraction * top \in Int /\ fraction * a \in Int /\ fraction * b \in Int
      BY <1>2, <1>5, <1>6, <1>8
  <2> QED BY <1>3, <1>5, <1>8, <2>1, <2>2, <2>3 DEF top
<1> QED BY <1>7, <1>8

-----------------------------------------------------------------------------
\* What the calculator is given.
Input ==
    [cpu    |-> request.cpu,
     mem    |-> request.mem,
     cpuP95 |-> CPUPercent(P95("cpu")),
     memP95 |-> MemPercent(P95("mem")),
     cpuMax |-> CPUPercent(100 * Peak("cpu")),
     memMax |-> MemPercent(100 * Peak("mem")),
     minCPUSavings |-> MinCPUSavings[kind],
     minMemSavings |-> MinMemSavings[kind]]

\* Utilisation of a resource, as the calculator gets it.
Utilisation(r, hundredths) == PercentOf(hundredths, request[r])

\* A resource whose percentages are of its request.
LEMMA OwnUtilisation ==
    ASSUME TypeOK
    PROVE  /\ OwnPercent("cpu") =>
                /\ Input.cpuP95 = Utilisation("cpu", P95("cpu"))
                /\ Input.cpuMax = Utilisation("cpu", 100 * Peak("cpu"))
           /\ OwnPercent("mem") =>
                /\ Input.memP95 = Utilisation("mem", P95("mem"))
                /\ Input.memMax = Utilisation("mem", 100 * Peak("mem"))
<1>1. \A h : OwnPercent("cpu") => CPUPercent(h) = Utilisation("cpu", h)
    BY DEF OwnPercent, CPUPercent, Utilisation
<1>2. \A h : OwnPercent("mem") => MemPercent(h) = Utilisation("mem", h)
    BY DEF OwnPercent, MemPercent, Utilisation, TypeOK
<1> QED BY <1>1, <1>2 DEF Input

\* The percentile of the samples that are read is a natural and not above their peak.
LEMMA ProfileType ==
    ASSUME TypeOK, NEW r \in Resources
    PROVE  /\ P95(r) \in Nat /\ Peak(r) \in Nat /\ P95(r) <= 100 * Peak(r)
           /\ Read(r) = {} => Peak(r) = 0
           /\ Read(r) # {} => \E p \in Read(r) : Vals(r)[p] = Peak(r)
           /\ \A p \in Read(r) : Vals(r)[p] \in Nat /\ Vals(r)[p] <= Peak(r)
<1>1. IsFamily(Vals(r)) /\ DOMAIN Vals(r) = Read(r)
    BY SamplesAreFamilies
<1>2. P95(r) \in Nat /\ Peak(r) \in Nat
    BY <1>1, PercentileType, MaxValType DEF P95, Peak
<1>3. CASE Read(r) = {}
  <2>1. P95(r) = 0
      BY <1>1, <1>3, FS_EmptySet DEF P95, ComputePercentile
  <2>2. Peak(r) = 0
      BY <1>1, <1>3 DEF Peak, MaxVal
  <2> QED BY <1>3, <2>1, <2>2
<1>4. CASE Read(r) # {}
  <2>1. 95 \in 0..100
      OBVIOUS
  <2>2. P95(r) <= 100 * Peak(r)
      BY <1>1, <1>4, <2>1, PercentileBelowPeak DEF P95, Peak
  <2>3. /\ \E p \in Read(r) : Vals(r)[p] = Peak(r)
        /\ \A p \in Read(r) : Vals(r)[p] <= Peak(r)
      BY <1>1, <1>4, MaxValIsPeak DEF Peak
  <2> QED BY <1>1, <1>2, <1>4, <2>2, <2>3 DEF IsFamily
<1> QED BY <1>3, <1>4

\* A report that recommends something has looked at a pod that requests both resources,
\* and its direction says which half of the calculator it comes from.
LEMMA Reported ==
    ASSUME TypeOK, Recommendation.direction # "none"
    PROVE  /\ ~Skipped
           /\ Recommendation = Analyze(Input)
           /\ Recommendation.direction = "downsize" => Recommendation = AnalyzeDownsize(Input)
           /\ Recommendation.direction = "upsize" => Recommendation = AnalyzeUpsize(Input)
<1>1. Recommendation # NoAdvice
    BY DEF NoAdvice
<1>2. ~Skipped /\ Recommendation = Analyze(Input)
    BY <1>1 DEF Recommendation, Input
<1>3. AnalyzeUpsize(Input).direction \in {"none", "upsize"}
    BY DEF AnalyzeUpsize, NoAdvice
<1>4. AnalyzeDownsize(Input).direction \in {"none", "downsize"}
    BY DEF AnalyzeDownsize, NoAdvice
<1>5. Analyze(Input) \in {AnalyzeUpsize(Input), AnalyzeDownsize(Input)}
    BY DEF Analyze
<1> HIDE DEF Input, Recommendation
<1> QED BY <1>2, <1>3, <1>4, <1>5

\* What a resource is cut down to is at least its percentile with the headroom.
LEMMA DownsizeAmount ==
    ASSUME TypeOK, NEW r \in Resources, OwnPercent(r),
           Recommendation.direction = "downsize", Recommendation[r] < request[r]
    PROVE  LET p95 == Utilisation(r, P95(r))
           IN  /\ Recommendation[r] \in Nat
               /\ WithHeadroom(request[r], p95) \in Nat
               /\ Recommendation[r] >= WithHeadroom(request[r], p95)
<1> DEFINE p95 == Utilisation(r, P95(r))
           amount == WithHeadroom(request[r], p95)
           least == IF r = "cpu" THEN MinCPU ELSE MinMem
           rec == AtMost(AtLeast(amount, least), request[r])
<1>1. request[r] \in Nat \ {0}
    BY DEF TypeOK, OwnPercent, Resources
<1>2. amount \in Nat
  <2>1. P95(r) \in Nat
      BY ProfileType
  <2>2. IsPercent(p95)
      BY <1>1, <2>1 DEF Utilisation, PercentOf, IsPercent
  <2> QED BY <1>1, <2>2, AmountType
<1>3. Recommendation = AnalyzeDownsize(Input) /\ Recommendation # NoAdvice
    BY Reported DEF NoAdvice
<1>4. AnalyzeDownsize(Input)[r] = rec
  <2>1. CASE r = "cpu"
    <3>1. Input.cpu = request.cpu /\ Input.cpuP95 = p95
        BY <2>1, OwnUtilisation DEF Input
    <3> HIDE DEF Input, p95
    <3> QED BY <1>3, <2>1, <3>1 DEF AnalyzeDownsize
  <2>2. CASE r = "mem"
    <3>1. Input.mem = request.mem /\ Input.memP95 = p95
        BY <2>2, OwnUtilisation DEF Input
    <3> HIDE DEF Input, p95
    <3> QED BY <1>3, <2>2, <3>1 DEF AnalyzeDownsize
  <2> QED BY <2>1, <2>2 DEF Resources
<1>5. Recommendation[r] = rec
    BY <1>3, <1>4
<1> HIDE DEF amount, Recommendation
<1>6. least \in Nat
    BY PolicyAssumption
<1> HIDE DEF least
<1>7. rec < request[r] => rec \in Nat /\ rec >= amount
    BY <1>1, <1>2, <1>6 DEF AtMost, AtLeast
<1> QED BY <1>2, <1>5, <1>7 DEF amount

\* What a resource is raised to is 70% of its peak utilisation.
LEMMA UpsizeAmount ==
    ASSUME TypeOK, NEW r \in Resources, OwnPercent(r),
           Recommendation.direction = "upsize", Recommendation[r] > request[r]
    PROVE  LET p95  == Utilisation(r, P95(r))
               peak == Utilisation(r, 100 * Peak(r))
           IN  Recommendation[r] = AtSeventy(request[r], Larger(p95, peak))
<1> DEFINE p95 == Utilisation(r, P95(r))
           peak == Utilisation(r, 100 * Peak(r))
           amount == AtSeventy(request[r], Larger(p95, peak))
<1>1. Recommendation = AnalyzeUpsize(Input) /\ Recommendation # NoAdvice
    BY Reported DEF NoAdvice
<1>2. AnalyzeUpsize(Input)[r] = AtLeast(amount, request[r])
  <2>1. CASE r = "cpu"
    <3>1. Input.cpu = request.cpu /\ Input.cpuP95 = p95 /\ Input.cpuMax = peak
        BY <2>1, OwnUtilisation DEF Input
    <3> HIDE DEF Input, p95, peak
    <3> QED BY <1>1, <2>1, <3>1 DEF AnalyzeUpsize
  <2>2. CASE r = "mem"
    <3>1. Input.mem = request.mem /\ Input.memP95 = p95 /\ Input.memMax = peak
        BY <2>2, OwnUtilisation DEF Input
    <3> HIDE DEF Input, p95, peak
    <3> QED BY <1>1, <2>2, <3>1 DEF AnalyzeUpsize
  <2> QED BY <2>1, <2>2 DEF Resources
<1> HIDE DEF amount, Recommendation
<1>3. request[r] \in Nat
    BY DEF TypeOK, Resources
<1>4. Recommendation[r] = amount
    BY <1>1, <1>2, <1>3 DEF AtLeast
<1> QED BY <1>4 DEF amount

-----------------------------------------------------------------------------
\* The peak is the larger of the two percentages.
LEMMA LargerIsPeak ==
    ASSUME NEW current \in Nat \ {0}, NEW p \in Nat, NEW m \in Nat, p <= 100 * m
    PROVE  Larger(PercentOf(p, current), PercentOf(100 * m, current)) = PercentOf(100 * m, current)
<1>1. CASE p * current >= (100 * m) * current
  <2>1. (p - 100 * m) * current >= 0
      BY <1>1
  <2>2. p - 100 * m >= 0
      BY <2>1
  <2> QED BY <2>2 DEF Larger
<1>2. CASE ~(p * current >= (100 * m) * current)
    BY <1>2 DEF Larger, PercentOf
<1> QED BY <1>1, <1>2

\* The amount at 70% is the least of which the usage is at most 70%.
LEMMA LeastAtSeventy ==
    ASSUME NEW current \in Nat \ {0}, NEW u \in Nat
    PROVE  LET s == AtSeventy(current, PercentOf(100 * u, current))
           IN  s \in Nat /\ 100 * u <= 70 * s /\ 100 * u > 70 * (s - 1)
<1> DEFINE s == AtSeventy(current, PercentOf(100 * u, current))
           t == 100 * u
<1>1. s = CeilDiv(current * t, current * 70)
    BY DEF AtSeventy, PercentOf
<1>2. t \in Nat
    OBVIOUS
<1> HIDE DEF s, t
<1>3. current * t \in Nat /\ current * 70 \in Nat \ {0}
    BY <1>2, ProductType
<1>4. /\ s \in Nat
      /\ (current * 70) * s >= current * t
      /\ (current * 70) * (s - 1) < current * t
    BY <1>1, <1>3, CeilDivBounds
<1>5. current * (70 * s - t) >= 0 /\ current * (t - 70 * (s - 1)) > 0
    BY <1>2, <1>4
<1> DEFINE d == 70 * s - t
           e == t - 70 * (s - 1)
<1>6. d \in Int /\ e \in Int
    BY <1>2, <1>4
<1> HIDE DEF d, e
<1>7. d >= 0 /\ e > 0
    BY <1>5, <1>6 DEF d, e
<1> QED BY <1>2, <1>4, <1>7 DEF d, e, s, t

\* A downsize leaves at most 5% of the samples uncovered, as the interpolation rounds,
\* for any pod and any machine whose percentages are of its request, as long as all
\* that the query returned is read (calculator.go:34-71, container.go:86-113).
THEOREM DownsizeCoversSamples ==
    ASSUME TypeOK, NEW r \in Resources, OwnPercent(r), Read(r) = Returned(r),
           Recommendation.direction = "downsize", Recommendation[r] < request[r]
    PROVE  FewUncovered(r, Recommendation[r])
<1> DEFINE vals == Vals(r)
           p95 == Utilisation(r, P95(r))
           amount == WithHeadroom(request[r], p95)
           rec == Recommendation[r]
           some == SamplesUncovered(r, rec)
           all == {i \in DOMAIN vals : vals[i] * (100 + HeadroomPercent) > 100 * amount}
           n == Cardinality(Returned(r))
<1>1. request[r] \in Nat \ {0}
    BY DEF TypeOK, OwnPercent, Resources
<1>2. /\ IsFamily(vals) /\ DOMAIN vals = Returned(r) /\ IsFiniteSet(Returned(r)) /\ n \in Nat
      /\ \A i \in Returned(r) : vals[i] \in Nat /\ Sample(r, i) = vals[i]
  <2>1. IsFamily(vals) /\ DOMAIN vals = Returned(r) /\ IsFiniteSet(Returned(r)) /\ n \in Nat
      BY SamplesAreFamilies
  <2>2. \A i \in Returned(r) : Sample(r, i) = vals[i]
      BY DEF Vals, Sample
  <2> QED BY <2>1, <2>2 DEF IsFamily
<1>3. rec \in Nat /\ amount \in Nat /\ rec >= amount
    BY DownsizeAmount
<1>4. some \subseteq all /\ all \subseteq Returned(r)
  <2> DEFINE h == 100 + HeadroomPercent
  <2>1. h \in Nat
      BY PolicyAssumption
  <2>2. \A i \in Returned(r) : vals[i] * h \in Nat
      BY <1>2, <2>1, ProductType
  <2>3. \A i \in some : i \in Returned(r) /\ vals[i] * h > 100 * rec
      BY <1>2 DEF SamplesUncovered
  <2> HIDE DEF vals, h, rec, amount, some
  <2>4. \A i \in Returned(r) : vals[i] * h > 100 * rec => vals[i] * h > 100 * amount
      BY <1>3, <2>2
  <2> QED BY <1>2, <2>3, <2>4 DEF h
<1>5. /\ Cardinality(some) \in Nat /\ Cardinality(all) \in Nat
      /\ Cardinality(some) <= Cardinality(all)
  <2>1. IsFiniteSet(all)
      BY <1>2, <1>4, FS_Subset
  <2>2. IsFiniteSet(some) /\ Cardinality(some) <= Cardinality(all)
      BY <1>4, <2>1, FS_Subset
  <2> QED BY <2>1, <2>2, FS_CardinalityType
<1>6. CASE Returned(r) = {}
  <2>1. Cardinality(some) = 0 /\ n = 0
      BY <1>4, <1>6, FS_EmptySet
  <2> QED BY <2>1 DEF FewUncovered
<1>7. CASE Returned(r) # {}
  <2>1. 100 * (Cardinality(all) - 1) < 5 * (n - 1) + 1
    <3>1. p95.num = ComputePercentile(vals, 95) /\ p95.den = request[r]
        BY DEF Utilisation, PercentOf, P95
    <3> HIDE DEF vals, p95
    <3> QED BY <1>1, <1>2, <1>7, <3>1, HeadroomCovers DEF p95
  <2> HIDE DEF some, all, n
  <2>2. 100 * (Cardinality(some) - 1) <= 5 * (n - 1)
      BY <1>2, <1>5, <2>1
  <2> QED BY <2>2 DEF FewUncovered, some, n
<1> QED BY <1>6, <1>7

\* The recommended amount is the least of which no sample is more than 70%, for any
\* pod and any machine whose percentages are of its request, as long as all that the
\* query returned is read (calculator.go:108-123).
THEOREM UpsizeTargetsPeak ==
    ASSUME TypeOK, NEW r \in Resources, OwnPercent(r), Read(r) = Returned(r),
           Recommendation.direction = "upsize", Recommendation[r] > request[r]
    PROVE  TargetsSeventy(r, Recommendation[r])
<1> DEFINE current == request[r]
           rec == Recommendation[r]
           top == Peak(r)
<1>1. current \in Nat \ {0}
    BY DEF TypeOK, OwnPercent, Resources
<1>2. /\ P95(r) \in Nat /\ top \in Nat /\ P95(r) <= 100 * top
      /\ Returned(r) = {} => top = 0
      /\ Returned(r) # {} => \E p \in Returned(r) : Sample(r, p) = top
      /\ \A p \in Returned(r) : Sample(r, p) \in Nat /\ Sample(r, p) <= top
  <2>1. \A p \in Returned(r) : Vals(r)[p] = Sample(r, p)
      BY DEF Vals, Sample
  <2> QED BY <2>1, ProfileType
<1>3. rec = AtSeventy(current, Larger(Utilisation(r, P95(r)), Utilisation(r, 100 * top)))
    BY UpsizeAmount
<1> HIDE DEF top, rec, current
<1>4. rec = AtSeventy(current, PercentOf(100 * top, current))
  <2>1. Utilisation(r, P95(r)) = PercentOf(P95(r), current)
        /\ Utilisation(r, 100 * top) = PercentOf(100 * top, current)
      BY DEF Utilisation, current
  <2> QED BY <1>1, <1>2, <1>3, <2>1, LargerIsPeak
<1>5. rec \in Nat /\ 100 * top <= 70 * rec /\ 100 * top > 70 * (rec - 1)
    BY <1>1, <1>2, <1>4, LeastAtSeventy
<1>6. Returned(r) # {}
  <2>1. rec > current
      BY DEF rec, current
  <2> QED BY <1>1, <1>2, <1>5, <2>1
<1> QED BY <1>2, <1>5, <1>6 DEF TargetsSeventy, rec

-----------------------------------------------------------------------------
\* A step that changes the advice to another direction than none is a report.
LEMMA NewAdvice ==
    ASSUME TypeOK, [Next]_vars, advice' # advice, advice'.direction # "none"
    PROVE  advice' = Recommendation
<1>1. ~Apply /\ ~QueryFails
    BY DEF Apply, QueryFails, NoAdvice
<1>2. ~Tick /\ ~UNCHANGED vars
    BY DEF Tick, vars
<1>3. Report
    BY <1>1, <1>2 DEF Next
<1> QED BY <1>3 DEF Report

\* The percentages of a pod that is looked at are of its request, and all its samples
\* are read.
LEMMA PodPercent ==
    ASSUME TypeOK, kind = "container", Recommendation.direction # "none", NEW r \in Resources
    PROVE  OwnPercent(r) /\ Read(r) = Returned(r)
<1>1. request.cpu \in Nat /\ request.mem \in Nat
    BY DEF TypeOK
<1>2. request.cpu # 0 /\ request.mem # 0
    BY Reported DEF Skipped
<1> QED BY <1>1, <1>2 DEF OwnPercent, Resources, Read

\* Whatever the pods, the containers, the window and the policy, a downsize covers the
\* samples the queries returned (calculator.go:34-71, container.go:86-113).
THEOREM SamplesAreCovered == Spec => CoversSamples
<1>1. ASSUME TypeOK, [Next]_vars, kind = "container", advice' # advice,
             advice'.direction = "downsize", NEW r \in Resources, advice'[r] < request[r]
      PROVE  FewUncovered(r, advice'[r])
  <2>1. advice' = Recommendation
      BY <1>1, NewAdvice
  <2>2. OwnPercent(r) /\ Read(r) = Returned(r)
      BY <1>1, <2>1, PodPercent
  <2>3. FewUncovered(r, Recommendation[r])
      BY <1>1, <2>1, <2>2, DownsizeCoversSamples
  <2> QED BY <2>1, <2>3
<1>2. TypeOK /\ [Next]_vars =>
         [ kind = "container" /\ advice' # advice /\ advice'.direction = "downsize" =>
             \A r \in Resources : advice'[r] < request[r] => FewUncovered(r, advice'[r]) ]_vars
    BY <1>1
<1> QED BY <1>2, TypeCorrect, PTL DEF Spec, CoversSamples

\* Whatever the pods, the containers, the window and the policy, an upsize is the least
\* request of which no sample the queries returned is more than 70%
\* (container.go:105-113, calculator.go:108-123).
THEOREM PeakIsAtSeventy == Spec => PeakAtSeventy
<1>1. ASSUME TypeOK, [Next]_vars, kind = "container", advice' # advice,
             advice'.direction = "upsize", NEW r \in Resources, advice'[r] > request[r]
      PROVE  TargetsSeventy(r, advice'[r])
  <2>1. advice' = Recommendation
      BY <1>1, NewAdvice
  <2>2. OwnPercent(r) /\ Read(r) = Returned(r)
      BY <1>1, <2>1, PodPercent
  <2>3. TargetsSeventy(r, Recommendation[r])
      BY <1>1, <2>1, <2>2, UpsizeTargetsPeak
  <2> QED BY <2>1, <2>3
<1>2. TypeOK /\ [Next]_vars =>
         [ kind = "container" /\ advice' # advice /\ advice'.direction = "upsize" =>
             \A r \in Resources : advice'[r] > request[r] => TargetsSeventy(r, advice'[r]) ]_vars
    BY <1>1
<1> QED BY <1>2, TypeCorrect, PTL DEF Spec, PeakAtSeventy

\* What holds of a machine's advice: its memory is treated like a pod's if it requests
\* any, and so is its CPU as long as it has one core, if the answer to the query holds
\* no other series than the first (vm.go:65-106).
THEOREM OwnPercentIsRight ==
    Spec => [][ advice' # advice =>
                  \A r \in Resources : OwnPercent(r) /\ Read(r) = Returned(r) =>
                    /\ advice'.direction = "downsize" /\ advice'[r] < request[r] =>
                          FewUncovered(r, advice'[r])
                    /\ advice'.direction = "upsize" /\ advice'[r] > request[r] =>
                          TargetsSeventy(r, advice'[r]) ]_vars
<1> DEFINE Right(r) ==
             /\ advice'.direction = "downsize" /\ advice'[r] < request[r] =>
                   FewUncovered(r, advice'[r])
             /\ advice'.direction = "upsize" /\ advice'[r] > request[r] =>
                   TargetsSeventy(r, advice'[r])
<1>1. ASSUME TypeOK, [Next]_vars, advice' # advice, NEW r \in Resources, OwnPercent(r),
             Read(r) = Returned(r)
      PROVE  Right(r)
  <2>1. CASE advice'.direction # "none"
    <3>1. advice' = Recommendation
        BY <1>1, <2>1, NewAdvice
    <3>2. Recommendation.direction = "downsize" /\ Recommendation[r] < request[r] =>
             FewUncovered(r, Recommendation[r])
        BY <1>1, DownsizeCoversSamples
    <3>3. Recommendation.direction = "upsize" /\ Recommendation[r] > request[r] =>
             TargetsSeventy(r, Recommendation[r])
        BY <1>1, UpsizeTargetsPeak
    <3> QED BY <3>1, <3>2, <3>3
  <2>2. CASE advice'.direction = "none"
      BY <2>2
  <2> QED BY <2>1, <2>2
<1>2. TypeOK /\ [Next]_vars =>
         [ advice' # advice =>
             \A r \in Resources : OwnPercent(r) /\ Read(r) = Returned(r) => Right(r) ]_vars
    BY <1>1
<1> QED BY <1>2, TypeCorrect, PTL DEF Spec

-----------------------------------------------------------------------------
\* If all samples of a resource are of one series, they are the moments its pod was
\* scraped, and what the pod uses is what the container uses.
LEMMA OneSeries ==
    ASSUME TypeOK, NEW r \in Resources, NEW s, {p[2] : p \in Returned(r)} = {s}
    PROVE  /\ Returned(r) = Scraped(s[1], r) \X {s} /\ IsFiniteSet(Scraped(s[1], r))
           /\ \A k \in Scraped(s[1], r) : PodUse(s[1], r, k) = Sample(r, <<k, s>>)
<1>1. \A k \in DOMAIN history : \A t \in DOMAIN history[k][r] : t \in Series /\ t = s
  <2> SUFFICES ASSUME NEW k \in DOMAIN history, NEW t \in DOMAIN history[k][r]
               PROVE  t \in Series /\ t = s
      OBVIOUS
  <2>1. kind \in Kinds /\ history[k] \in Moments[kind]
      BY DEF TypeOK
  <2>2. t \in Series
      BY <2>1, WorkloadAssumption
  <2>3. <<k, t>> \in Returned(r)
      BY <2>2 DEF Returned
  <2>4. t \in {p[2] : p \in Returned(r)}
      BY <2>3
  <2> QED BY <2>2, <2>4
<1>2. s \in Series
  <2>1. PICK p \in Returned(r) : p[2] = s
      OBVIOUS
  <2> QED BY <2>1 DEF Returned
<1>3. \A k \in DOMAIN history :
         Containing(s[1], r, k) = IF s \in DOMAIN history[k][r] THEN {s} ELSE {}
    BY <1>1 DEF Containing
<1>4. Scraped(s[1], r) = {k \in DOMAIN history : s \in DOMAIN history[k][r]}
    BY <1>3 DEF Scraped
<1>5. Returned(r) = Scraped(s[1], r) \X {s}
    BY <1>1, <1>2, <1>4 DEF Returned
<1>6. IsFiniteSet(Scraped(s[1], r))
  <2>1. DOMAIN history = 1..Len(history) /\ Len(history) \in Nat
      BY DEF TypeOK
  <2>2. IsFiniteSet(DOMAIN history)
      BY <2>1, FS_Interval
  <2> QED BY <2>2, FS_Subset DEF Scraped
<1>7. ASSUME NEW k \in Scraped(s[1], r)
      PROVE  PodUse(s[1], r, k) = Sample(r, <<k, s>>)
  <2>1. k \in DOMAIN history /\ s \in DOMAIN history[k][r]
      BY <1>4
  <2>2. Containing(s[1], r, k) = {s}
      BY <1>3, <2>1
  <2>3. history[k][r][s] \in Nat
      BY <2>1, WorkloadAssumption DEF TypeOK
  <2> DEFINE use == [t \in {s} |-> history[k][r][t]]
  <2>4. use[s] = history[k][r][s]
      OBVIOUS
  <2>5. PodUse(s[1], r, k) = SumFunctionOnSet(use, {s})
      BY <2>2 DEF PodUse
  <2> HIDE DEF use
  <2>6. SumFunctionOnSet(use, {s}) = use[s]
      BY <2>3, <2>4, SumOfOne
  <2> QED BY <2>4, <2>5, <2>6 DEF Sample
<1> QED BY <1>5, <1>6, <1>7

\* If all samples of a resource are of one series, what is uncovered of the samples is
\* uncovered of the moments.
LEMMA CoveredOfOne ==
    ASSUME TypeOK, NEW r \in Resources, NEW s, {p[2] : p \in Returned(r)} = {s},
           NEW amount, FewUncovered(r, amount)
    PROVE  PodCovered(s[1], r, amount)
<1> DEFINE moments == Scraped(s[1], r)
           some == Uncovered(s[1], r, amount)
<1>1. /\ Returned(r) = moments \X {s} /\ IsFiniteSet(moments)
      /\ \A k \in moments : PodUse(s[1], r, k) = Sample(r, <<k, s>>)
    BY OneSeries
<1>2. SamplesUncovered(r, amount) = some \X {s}
    BY <1>1 DEF SamplesUncovered, Uncovered
<1>3. \A S : IsFiniteSet(S) => Cardinality(S \X {s}) = Cardinality(S)
  <2> SUFFICES ASSUME NEW S, IsFiniteSet(S) PROVE Cardinality(S \X {s}) = Cardinality(S)
      OBVIOUS
  <2>1. IsFiniteSet({s}) /\ Cardinality({s}) = 1
      BY FS_Singleton
  <2>2. Cardinality(S \X {s}) = Cardinality(S) * Cardinality({s})
      BY <2>1, FS_Product
  <2>3. Cardinality(S) \in Nat
      BY FS_CardinalityType
  <2> QED BY <2>1, <2>2, <2>3
<1>4. IsFiniteSet(some)
    BY <1>1, FS_Subset DEF Uncovered
<1>5. /\ Cardinality(SamplesUncovered(r, amount)) = Cardinality(some)
      /\ Cardinality(Returned(r)) = Cardinality(moments)
    BY <1>1, <1>2, <1>3, <1>4
<1> QED BY <1>5 DEF FewUncovered, PodCovered

\* A downsize covers what a pod uses when the query returns that pod's one container
\* and nothing else, whatever the window, the policy and the usage; with a second
\* container, replica or workload in the answer it need not (container.go:86-113,
\* queries.go:51-63).
THEOREM OneSeriesIsCovered ==
    Spec => [][ kind = "container" /\ advice' # advice /\ advice'.direction = "downsize" =>
                  \A r \in Resources, s \in Series :
                      advice'[r] < request[r] /\ {p[2] : p \in Returned(r)} = {s} =>
                          PodCovered(s[1], r, advice'[r]) ]_vars
<1>1. ASSUME TypeOK, [Next]_vars, kind = "container", advice' # advice,
             advice'.direction = "downsize", NEW r \in Resources, NEW s \in Series,
             advice'[r] < request[r], {p[2] : p \in Returned(r)} = {s}
      PROVE  PodCovered(s[1], r, advice'[r])
  <2>1. advice' = Recommendation
      BY <1>1, NewAdvice
  <2>2. OwnPercent(r) /\ Read(r) = Returned(r)
      BY <1>1, <2>1, PodPercent
  <2>3. FewUncovered(r, Recommendation[r])
      BY <1>1, <2>1, <2>2, DownsizeCoversSamples
  <2> QED BY <1>1, <2>1, <2>3, CoveredOfOne
<1>2. TypeOK /\ [Next]_vars =>
         [ kind = "container" /\ advice' # advice /\ advice'.direction = "downsize" =>
             \A r \in Resources, s \in Series :
                 advice'[r] < request[r] /\ {p[2] : p \in Returned(r)} = {s} =>
                     PodCovered(s[1], r, advice'[r]) ]_vars
    BY <1>1
<1> QED BY <1>2, TypeCorrect, PTL DEF Spec

-----------------------------------------------------------------------------
(***************************************************************************)
(* Advice on the same samples. The new amounts depend on the samples       *)
(* alone, no longer on the request they were computed from, so the         *)
(* calculator finds the same ones again; what an upsize leaves is below    *)
(* the threshold, and so is what a downsize leaves unless the peak is far  *)
(* above the percentile.                                                   *)
(***************************************************************************)
\* The peak m is far above the percentile p.
Burst(p, m) ==
    m > 0 /\ 10000 * (100 * m) >= UpsizeThreshold * (100 + HeadroomPercent) * p

\* The amount with the headroom is the percentile and the headroom, rounded up.
LEMMA HeadroomAmount ==
    ASSUME NEW current \in Nat \ {0}, NEW p \in Nat
    PROVE  LET w == WithHeadroom(current, PercentOf(p, current))
               x == p * (100 + HeadroomPercent)
           IN  w \in Nat /\ x \in Nat /\ x <= 10000 * w /\ 10000 * (w - 1) < x
<1> DEFINE h == 100 + HeadroomPercent
           x == p * h
           w == WithHeadroom(current, PercentOf(p, current))
<1>1. h \in Nat
    BY PolicyAssumption
<1>2. w = CeilDiv(current * p * h, current * 10000)
    BY DEF WithHeadroom, PercentOf
<1> HIDE DEF h, w
<1>3. x \in Nat
    BY <1>1, ProductType
<1>4. current * p * h = current * x
    BY <1>1
<1> HIDE DEF x
<1>5. current * x \in Nat /\ current * 10000 \in Nat \ {0}
    BY <1>3, ProductType
<1>6. /\ w \in Nat
      /\ (current * 10000) * w >= current * x
      /\ (current * 10000) * (w - 1) < current * x
    BY <1>2, <1>4, <1>5, CeilDivBounds
<1>7. current * (10000 * w - x) >= 0 /\ current * (x - 10000 * (w - 1)) > 0
    BY <1>3, <1>6
<1> DEFINE d == 10000 * w - x
           e == x - 10000 * (w - 1)
<1>8. d \in Int /\ e \in Int
    BY <1>3, <1>6
<1> HIDE DEF d, e
<1>9. d >= 0 /\ e > 0
    BY <1>7, <1>8 DEF d, e
<1> QED BY <1>3, <1>6, <1>9 DEF d, e, w, x, h

\* What is left of a request after a downsize is what the calculator would find again,
\* and is below the threshold if the peak is not a burst.
LEMMA DownsizeIsStable ==
    ASSUME UpsizeThreshold > 0,
           NEW current \in Nat \ {0}, NEW p \in Nat, NEW m \in Nat, NEW least \in Nat,
           ~Reaches(PercentOf(100 * m, current), UpsizeThreshold),
           NEW next, next # 0,
           next = AtMost(AtLeast(WithHeadroom(current, PercentOf(p, current)), least), current)
    PROVE  /\ next \in Nat \ {0}
           /\ AtMost(AtLeast(WithHeadroom(next, PercentOf(p, next)), least), next) = next
           /\ ~Burst(p, m) => ~Reaches(PercentOf(100 * m, next), UpsizeThreshold)
<1> DEFINE h == 100 + HeadroomPercent
           x == p * h
           w == WithHeadroom(current, PercentOf(p, current))
           v == WithHeadroom(next, PercentOf(p, next))
           U == UpsizeThreshold
<1>1. w \in Nat /\ x \in Nat /\ x <= 10000 * w /\ 10000 * (w - 1) < x
    BY HeadroomAmount
<1>2. next \in Nat \ {0} /\ (next = current \/ next >= w)
  <2> HIDE DEF w
  <2> QED BY <1>1 DEF AtMost, AtLeast, w
<1>3. v \in Nat /\ x <= 10000 * v /\ 10000 * (v - 1) < x
  <2> HIDE DEF w
  <2>1. next \in Nat \ {0}
      BY <1>2
  <2> QED BY ONLY <2>1, p \in Nat, HeadroomAmount
<1>4. next = AtMost(AtLeast(w, least), current)
    OBVIOUS
<1> HIDE DEF w, v, x
<1>5. AtMost(AtLeast(v, least), next) = next
  <2>1. v = w
      BY <1>1, <1>3
  <2> QED BY <1>1, <1>2, <1>4, <2>1 DEF AtMost, AtLeast
<1>6. U \in Nat /\ h \in Nat /\ U > 0
    BY PolicyAssumption
<1>7. ASSUME ~Burst(p, m) PROVE 100 * m < U * next
  <2>1. U * next \in Nat /\ U * next > 0
    <3> HIDE DEF U
    <3> QED BY <1>2, <1>6, ProductType
  <2>2. CASE next = current
    <3>1. ~(100 * m >= U * current)
        BY DEF Reaches, PercentOf
    <3> QED BY <2>1, <2>2, <3>1
  <2>3. CASE m = 0
      BY <2>1, <2>3
  <2>4. CASE next >= w /\ m # 0
    <3>1. ~(10000 * (100 * m) >= U * h * p)
        BY <1>7, <2>4 DEF Burst
    <3> HIDE DEF h, U
    <3>2. U * (10000 * next - x) >= 0
      <4>1. 10000 * next - x >= 0 /\ 10000 * next - x \in Int
          BY <1>1, <1>2, <2>4
      <4> QED BY <1>6, <4>1
    <3>3. U * (10000 * next - x) = 10000 * (U * next) - U * x /\ U * x \in Nat
        BY <1>1, <1>2, <1>6, ProductType
    <3>4. U * h * p = U * x
        BY <1>6 DEF x
    <3> QED BY <2>1, <3>1, <3>2, <3>3, <3>4
  <2> QED BY <1>2, <2>2, <2>3, <2>4
<1>8. ~Burst(p, m) => ~Reaches(PercentOf(100 * m, next), UpsizeThreshold)
  <2>1. U * next \in Nat
      BY <1>2, <1>6, ProductType
  <2> QED BY <1>7, <2>1 DEF Reaches, PercentOf
<1> QED BY <1>2, <1>5, <1>8 DEF v

\* What the calculator is given for a pod with the percentiles p and q and the peaks m
\* and n.
PodInput(cpu, mem, p, m, q, n, leastCPU, leastMem) ==
    [cpu    |-> cpu,
     mem    |-> mem,
     cpuP95 |-> PercentOf(p, cpu),
     memP95 |-> PercentOf(q, mem),
     cpuMax |-> PercentOf(100 * m, cpu),
     memMax |-> PercentOf(100 * n, mem),
     minCPUSavings |-> leastCPU,
     minMemSavings |-> leastMem]

\* A percentile, in hundredths, and the peak it belongs to.
IsProfile(p, m) == p \in Nat /\ m \in Nat /\ p <= 100 * m

\* Neither resource asks for more.
Relaxed(cpu, mem, m, n) ==
    /\ ~Reaches(PercentOf(100 * m, cpu), UpsizeThreshold)
    /\ ~Reaches(PercentOf(100 * n, mem), UpsizeThreshold)

\* A percentile that reaches the threshold has a peak that does.
LEMMA PeakReaches ==
    ASSUME NEW current \in Nat, NEW p, NEW m, IsProfile(p, m),
           Reaches(PercentOf(p, current), UpsizeThreshold)
    PROVE  Reaches(PercentOf(100 * m, current), UpsizeThreshold)
<1>1. UpsizeThreshold * current \in Nat
    BY PolicyAssumption, ProductType
<1> QED BY <1>1 DEF Reaches, PercentOf, IsProfile

\* The peaks decide which half of the calculator looks at a pod.
LEMMA PodAnalysis ==
    ASSUME NEW cpu \in Nat, NEW mem \in Nat,
           NEW p, NEW m, IsProfile(p, m), NEW q, NEW n, IsProfile(q, n),
           NEW leastCPU, NEW leastMem
    PROVE  LET input == PodInput(cpu, mem, p, m, q, n, leastCPU, leastMem)
           IN  Analyze(input) = IF Relaxed(cpu, mem, m, n) THEN AnalyzeDownsize(input)
                                                           ELSE AnalyzeUpsize(input)
<1> DEFINE input == PodInput(cpu, mem, p, m, q, n, leastCPU, leastMem)
           Hot(percent) == Reaches(percent, UpsizeThreshold)
<1>1. (\E percent \in {input.cpuP95, input.memP95, input.cpuMax, input.memMax} : Hot(percent))
         <=> \/ Hot(PercentOf(p, cpu)) \/ Hot(PercentOf(q, mem))
             \/ Hot(PercentOf(100 * m, cpu)) \/ Hot(PercentOf(100 * n, mem))
  <2>1. /\ input.cpuP95 = PercentOf(p, cpu) /\ input.memP95 = PercentOf(q, mem)
        /\ input.cpuMax = PercentOf(100 * m, cpu) /\ input.memMax = PercentOf(100 * n, mem)
      BY DEF PodInput
  <2> HIDE DEF input, Hot
  <2> QED BY <2>1
<1>2. Hot(PercentOf(p, cpu)) => Hot(PercentOf(100 * m, cpu))
    BY PeakReaches
<1>3. Hot(PercentOf(q, mem)) => Hot(PercentOf(100 * n, mem))
    BY PeakReaches
<1>4. Relaxed(cpu, mem, m, n)
         <=> ~Hot(PercentOf(100 * m, cpu)) /\ ~Hot(PercentOf(100 * n, mem))
    BY DEF Relaxed
<1>5. Analyze(input) = IF \E percent \in {input.cpuP95, input.memP95, input.cpuMax,
                                          input.memMax} : Hot(percent)
                         THEN AnalyzeUpsize(input) ELSE AnalyzeDownsize(input)
    BY DEF Analyze
<1> HIDE DEF input, Hot
<1> QED BY <1>1, <1>2, <1>3, <1>4, <1>5 DEF input

\* No downsize is followed by another, and what follows one without bursts is nothing.
LEMMA NoMoreAfterDownsize ==
    ASSUME UpsizeThreshold > 0,
           NEW cpu \in Nat \ {0}, NEW mem \in Nat \ {0},
           NEW p, NEW m, IsProfile(p, m), NEW q, NEW n, IsProfile(q, n),
           NEW leastCPU \in Nat \ {0}, NEW leastMem \in Nat \ {0},
           NEW down, down = Analyze(PodInput(cpu, mem, p, m, q, n, leastCPU, leastMem)),
           down.direction = "downsize", down.cpu # 0, down.mem # 0,
           NEW next, next = Analyze(PodInput(down.cpu, down.mem, p, m, q, n, leastCPU, leastMem))
    PROVE  /\ next.direction # "downsize"
           /\ next # NoAdvice => Burst(p, m) \/ Burst(q, n)
<1> DEFINE input == PodInput(cpu, mem, p, m, q, n, leastCPU, leastMem)
           again == PodInput(down.cpu, down.mem, p, m, q, n, leastCPU, leastMem)
           NewCPU(c) == AtMost(AtLeast(WithHeadroom(c, PercentOf(p, c)), MinCPU), c)
           NewMem(c) == AtMost(AtLeast(WithHeadroom(c, PercentOf(q, c)), MinMem), c)
<1>1. AnalyzeUpsize(input).direction # "downsize" /\ NoAdvice.direction # "downsize"
    BY DEF AnalyzeUpsize, NoAdvice
<1>2. Relaxed(cpu, mem, m, n) /\ down = AnalyzeDownsize(input)
  <2>1. Analyze(input) = IF Relaxed(cpu, mem, m, n) THEN AnalyzeDownsize(input)
                                                    ELSE AnalyzeUpsize(input)
      BY PodAnalysis
  <2> HIDE DEF input
  <2> QED BY <1>1, <2>1 DEF input
<1>3. down.cpu = NewCPU(cpu) /\ down.mem = NewMem(mem)
    BY <1>1, <1>2 DEF AnalyzeDownsize, PodInput
<1>4. MinCPU \in Nat /\ MinMem \in Nat
    BY PolicyAssumption
<1>5. /\ down.cpu \in Nat \ {0} /\ NewCPU(down.cpu) = down.cpu
      /\ ~Burst(p, m) => ~Reaches(PercentOf(100 * m, down.cpu), UpsizeThreshold)
  <2>1. ~Reaches(PercentOf(100 * m, cpu), UpsizeThreshold)
      BY <1>2 DEF Relaxed
  <2> QED BY <1>3, <1>4, <2>1, DownsizeIsStable DEF IsProfile
<1>6. /\ down.mem \in Nat \ {0} /\ NewMem(down.mem) = down.mem
      /\ ~Burst(q, n) => ~Reaches(PercentOf(100 * n, down.mem), UpsizeThreshold)
  <2>1. ~Reaches(PercentOf(100 * n, mem), UpsizeThreshold)
      BY <1>2 DEF Relaxed
  <2> QED BY <1>3, <1>4, <2>1, DownsizeIsStable DEF IsProfile
<1>7. AnalyzeDownsize(again) = NoAdvice
  <2>1. AnalyzeDownsize(again)
          = IF /\ down.cpu - NewCPU(down.cpu) < leastCPU
               /\ down.mem - NewMem(down.mem) < leastMem
              THEN NoAdvice
              ELSE [direction |-> "downsize", cpu |-> NewCPU(down.cpu), mem |-> NewMem(down.mem)]
      BY DEF AnalyzeDownsize, PodInput
  <2> HIDE DEF NewCPU, NewMem, again
  <2>2. down.cpu - NewCPU(down.cpu) < leastCPU /\ down.mem - NewMem(down.mem) < leastMem
      BY <1>5, <1>6
  <2> QED BY <2>1, <2>2
<1>8. AnalyzeUpsize(again).direction # "downsize"
    BY DEF AnalyzeUpsize, NoAdvice
<1>9. next = IF Relaxed(down.cpu, down.mem, m, n) THEN AnalyzeDownsize(again)
                                                  ELSE AnalyzeUpsize(again)
    BY <1>5, <1>6, PodAnalysis
<1>10. ~Burst(p, m) /\ ~Burst(q, n) => Relaxed(down.cpu, down.mem, m, n)
    BY <1>5, <1>6 DEF Relaxed
<1> HIDE DEF again, input, NewCPU, NewMem
<1> QED BY <1>1, <1>7, <1>8, <1>9, <1>10

\* What is at most 70% of an amount does not reach the threshold of it.
LEMMA RelaxedAtSeventy ==
    ASSUME UpsizeThreshold > 70, NEW u \in Nat, NEW next \in Nat \ {0}, 100 * u <= 70 * next
    PROVE  ~Reaches(PercentOf(100 * u, next), UpsizeThreshold)
<1> DEFINE U == UpsizeThreshold
<1>1. U \in Nat /\ U - 70 > 0
    BY PolicyAssumption
<1> HIDE DEF U
<1>2. (U - 70) * next > 0
    BY <1>1
<1>3. U * next > 70 * next /\ U * next \in Nat
    BY <1>1, <1>2
<1> QED BY <1>3 DEF Reaches, PercentOf, U

\* No upsize is followed by another.
LEMMA NoMoreAfterUpsize ==
    ASSUME UpsizeThreshold > 70,
           NEW cpu \in Nat \ {0}, NEW mem \in Nat \ {0},
           NEW p, NEW m, IsProfile(p, m), NEW q, NEW n, IsProfile(q, n),
           NEW leastCPU, NEW leastMem,
           NEW up, up = Analyze(PodInput(cpu, mem, p, m, q, n, leastCPU, leastMem)),
           up.direction = "upsize"
    PROVE  Analyze(PodInput(up.cpu, up.mem, p, m, q, n, leastCPU, leastMem)).direction # "upsize"
<1> DEFINE input == PodInput(cpu, mem, p, m, q, n, leastCPU, leastMem)
           again == PodInput(up.cpu, up.mem, p, m, q, n, leastCPU, leastMem)
           s == AtSeventy(cpu, PercentOf(100 * m, cpu))
           t == AtSeventy(mem, PercentOf(100 * n, mem))
<1>1. AnalyzeDownsize(input).direction # "upsize" /\ NoAdvice.direction # "upsize"
    BY DEF AnalyzeDownsize, NoAdvice
<1>2. up = AnalyzeUpsize(input)
  <2>1. Analyze(input) = IF Relaxed(cpu, mem, m, n) THEN AnalyzeDownsize(input)
                                                    ELSE AnalyzeUpsize(input)
      BY PodAnalysis
  <2> HIDE DEF input
  <2> QED BY <1>1, <2>1 DEF input
<1>3. up.cpu = AtLeast(s, cpu) /\ up.mem = AtLeast(t, mem)
  <2>1. /\ Larger(PercentOf(p, cpu), PercentOf(100 * m, cpu)) = PercentOf(100 * m, cpu)
        /\ Larger(PercentOf(q, mem), PercentOf(100 * n, mem)) = PercentOf(100 * n, mem)
      BY LargerIsPeak DEF IsProfile
  <2> QED BY <1>1, <1>2, <2>1 DEF AnalyzeUpsize, PodInput
<1>4. s \in Nat /\ 100 * m <= 70 * s /\ t \in Nat /\ 100 * n <= 70 * t
    BY LeastAtSeventy DEF IsProfile
<1> HIDE DEF s, t
<1>5. /\ up.cpu \in Nat \ {0} /\ 100 * m <= 70 * up.cpu
      /\ up.mem \in Nat \ {0} /\ 100 * n <= 70 * up.mem
    BY <1>3, <1>4 DEF AtLeast, IsProfile
<1>6. Relaxed(up.cpu, up.mem, m, n)
    BY <1>5, RelaxedAtSeventy DEF Relaxed, IsProfile
<1>7. Analyze(again) = AnalyzeDownsize(again)
    BY <1>5, <1>6, PodAnalysis
<1> QED BY <1>7 DEF AnalyzeDownsize, NoAdvice

\* Up-to-date advice that is applied is followed by none in the same direction on the
\* same samples, and after a downsize by an upsize only if they are bursty, for all
\* samples and any policy with a threshold above 70% (calculator.go:56-160,
\* types.go:13-17).
THEOREM OnlyBurstsAreChased ==
    ASSUME UpsizeThreshold > 70
    PROVE  Spec => ChasesOnlyBursts
<1> DEFINE Settles == /\ Recommendation'.direction # advice.direction
                      /\ advice.direction = "downsize" /\ Recommendation' # NoAdvice =>
                            \E r \in Resources : Bursty(r)
<1>1. ASSUME TypeOK, [Next]_vars, request' # request, kind = "container", advice = Recommendation
      PROVE  Settles
  <2>1. Apply
      BY <1>1 DEF Next, Report, QueryFails, Tick, vars
  <2>2. /\ kind' = kind /\ history' = history
        /\ request' = [cpu |-> advice.cpu, mem |-> advice.mem]
        /\ advice.direction \in {"downsize", "upsize"}
      BY <1>1, <2>1 DEF Apply, Granted, TypeOK
  <2> DEFINE p == P95("cpu")
             m == Peak("cpu")
             q == P95("mem")
             n == Peak("mem")
             leastCPU == MinCPUSavings[kind]
             leastMem == MinMemSavings[kind]
             At(cpu, mem) == PodInput(cpu, mem, p, m, q, n, leastCPU, leastMem)
  <2>3. IsProfile(p, m) /\ IsProfile(q, n)
      BY <1>1, ProfileType DEF Resources, IsProfile
  <2>4. leastCPU \in Nat \ {0} /\ leastMem \in Nat \ {0}
      BY <1>1, WorkloadAssumption DEF TypeOK
  <2>5. request.cpu \in Nat \ {0} /\ request.mem \in Nat \ {0}
      BY <1>1, <2>2, Reported DEF TypeOK, Skipped
  <2>6. advice = Analyze(At(request.cpu, request.mem))
    <3>1. advice = Analyze(Input)
        BY <1>1, <2>2, Reported
    <3>2. Input = At(request.cpu, request.mem)
        BY <1>1, <2>5 DEF Input, PodInput, CPUPercent, MemPercent, PercentOf
    <3> QED BY <3>1, <3>2
  <2>7. \/ Recommendation' = NoAdvice
        \/ /\ Recommendation' = Analyze(At(advice.cpu, advice.mem))
           /\ advice.cpu # 0 /\ advice.mem # 0
    <3>1. /\ P95("cpu")' = p /\ Peak("cpu")' = m
          /\ P95("mem")' = q /\ Peak("mem")' = n
        BY <2>2 DEF P95, Peak, Vals, Read, Returned
    <3>2. CASE Skipped' \/ (Cardinality(Read("cpu")) < MinPoints)'
        BY <3>2 DEF Recommendation
    <3>3. CASE ~Skipped' /\ ~(Cardinality(Read("cpu")) < MinPoints)'
      <4>1. request'.cpu = advice.cpu /\ request'.mem = advice.mem
          BY <2>2
      <4>2. advice.cpu # 0 /\ advice.mem # 0
          BY <1>1, <2>2, <3>3, <4>1 DEF Skipped
      <4>3. advice.mem > 0
          BY <1>1, <4>2 DEF TypeOK
      <4>4. Recommendation' = Analyze(Input')
          BY <3>3 DEF Recommendation, Input
      <4>5. Input' = At(advice.cpu, advice.mem)
        <5> HIDE DEF p, m, q, n
        <5> QED BY <1>1, <2>2, <3>1, <4>1, <4>3
                   DEF Input, PodInput, CPUPercent, MemPercent, PercentOf
      <4> QED BY <4>2, <4>4, <4>5
    <3> QED BY <3>2, <3>3
  <2>8. \A r \in Resources : Bursty(r) <=> Burst(P95(r), Peak(r))
      BY DEF Bursty, Burst
  <2>9. (\E r \in Resources : Bursty(r)) <=> Burst(p, m) \/ Burst(q, n)
      BY <2>8 DEF Resources
  <2> HIDE DEF At, leastCPU, leastMem, p, m, q, n
  <2>10. CASE advice.direction = "downsize"
    <3>1. ASSUME advice.cpu # 0, advice.mem # 0
          PROVE  LET next == Analyze(At(advice.cpu, advice.mem))
                 IN  /\ next.direction # "downsize"
                     /\ next # NoAdvice => Burst(p, m) \/ Burst(q, n)
      <4>1. UpsizeThreshold > 0
          BY PolicyAssumption
      <4>2. \A cpu, mem, down, next :
              /\ cpu \in Nat \ {0} /\ mem \in Nat \ {0} /\ down = Analyze(At(cpu, mem))
              /\ down.direction = "downsize" /\ down.cpu # 0 /\ down.mem # 0
              /\ next = Analyze(At(down.cpu, down.mem))
              => /\ next.direction # "downsize"
                 /\ next # NoAdvice => Burst(p, m) \/ Burst(q, n)
          BY <2>3, <2>4, <4>1, NoMoreAfterDownsize DEF At
      <4> QED BY <2>5, <2>6, <2>10, <3>1, <4>2
    <3>2. NoAdvice.direction # "downsize"
        BY DEF NoAdvice
    <3> QED BY <2>7, <2>9, <2>10, <3>1, <3>2
  <2>11. CASE advice.direction = "upsize"
    <3>1. \A cpu, mem, up :
            /\ cpu \in Nat \ {0} /\ mem \in Nat \ {0} /\ up = Analyze(At(cpu, mem))
            /\ up.direction = "upsize"
            => Analyze(At(up.cpu, up.mem)).direction # "upsize"
        BY <2>3, <2>4, NoMoreAfterUpsize DEF At
    <3>2. Analyze(At(advice.cpu, advice.mem)).direction # "upsize"
        BY <2>5, <2>6, <2>11, <3>1
    <3>3. NoAdvice.direction # "upsize"
        BY DEF NoAdvice
    <3> QED BY <2>7, <2>11, <3>2, <3>3
  <2> QED BY <2>2, <2>10, <2>11
<1>2. TypeOK /\ [Next]_vars =>
         [ request' # request /\ kind = "container" /\ advice = Recommendation =>
             /\ Recommendation'.direction # advice.direction
             /\ advice.direction = "downsize" /\ Recommendation' # NoAdvice =>
                   \E r \in Resources : Bursty(r) ]_vars
    BY <1>1
<1> QED BY <1>2, TypeCorrect, PTL DEF Spec, ChasesOnlyBursts
=============================================================================
