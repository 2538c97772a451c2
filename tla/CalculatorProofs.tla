-------------------------- MODULE CalculatorProofs --------------------------
(***************************************************************************)
(* What the calculator computes, for every family of samples and every     *)
(* input: there is an order statistic for every rank, the percentile       *)
(* leaves few samples above it, and a recommendation keeps its word.       *)
(***************************************************************************)
EXTENDS Calculator, FiniteSetTheorems, TLAPS

(***************************************************************************)
(* The samples a finite, non-empty part D of the family has a largest and  *)
(* a smallest member. The sets of strictly larger samples are ordered by   *)
(* inclusion, which is well founded on finite sets.                        *)
(***************************************************************************)
LEMMA LargestSample ==
    ASSUME NEW vals, NEW D, IsFiniteSet(D), D # {}, \A i \in D : vals[i] \in Nat
    PROVE  \E m \in D : \A i \in D : vals[i] <= vals[m]
<1> DEFINE Above(i) == {j \in D : vals[j] > vals[i]}
           T == {Above(i) : i \in D}
<1>1. IsWellFoundedOn(StrictSubsetOrdering(D), SUBSET D)
    BY FS_StrictSubsetOrderingWellFounded, FS_FiniteSubsetsOfFinite
<1>2. T \subseteq SUBSET D /\ T # {}
    OBVIOUS
<1>3. PICK A \in T : \A B \in T : <<B, A>> \notin StrictSubsetOrdering(D)
  <2> HIDE DEF T
  <2> QED BY <1>1, <1>2, WFMin
<1>4. PICK m \in D : A = Above(m)
    OBVIOUS
<1>5. ASSUME NEW w \in D, vals[w] > vals[m] PROVE FALSE
  <2>1. Above(w) \in T /\ Above(w) \subseteq Above(m)
      BY <1>5
  <2>2. w \in Above(m) /\ w \notin Above(w)
      BY <1>5
  <2>3. <<Above(w), A>> \in StrictSubsetOrdering(D)
    <3>1. <<Above(w), A>> \in (SUBSET D) \X (SUBSET D)
        BY <1>4
    <3> QED BY <3>1, <2>1, <2>2, <1>4 DEF StrictSubsetOrdering
  <2> QED BY <2>1, <2>3, <1>3
<1> QED BY <1>5

\* A finite, non-empty family of naturals has a smallest member.
LEMMA SmallestSample ==
    ASSUME NEW vals, NEW D, IsFiniteSet(D), D # {}, \A i \in D : vals[i] \in Nat
    PROVE  \E m \in D : \A i \in D : vals[m] <= vals[i]
<1> DEFINE Below(i) == {j \in D : vals[j] < vals[i]}
           T == {Below(i) : i \in D}
<1>1. IsWellFoundedOn(StrictSubsetOrdering(D), SUBSET D)
    BY FS_StrictSubsetOrderingWellFounded, FS_FiniteSubsetsOfFinite
<1>2. T \subseteq SUBSET D /\ T # {}
    OBVIOUS
<1>3. PICK A \in T : \A B \in T : <<B, A>> \notin StrictSubsetOrdering(D)
  <2> HIDE DEF T
  <2> QED BY <1>1, <1>2, WFMin
<1>4. PICK m \in D : A = Below(m)
    OBVIOUS
<1>5. ASSUME NEW w \in D, vals[w] < vals[m] PROVE FALSE
  <2>1. Below(w) \in T /\ Below(w) \subseteq Below(m)
      BY <1>5
  <2>2. w \in Below(m) /\ w \notin Below(w)
      BY <1>5
  <2>3. <<Below(w), A>> \in StrictSubsetOrdering(D)
    <3>1. <<Below(w), A>> \in (SUBSET D) \X (SUBSET D)
        BY <1>4
    <3> QED BY <3>1, <2>1, <2>2, <1>4 DEF StrictSubsetOrdering
  <2> QED BY <2>1, <2>3, <1>3
<1> QED BY <1>5

-----------------------------------------------------------------------------
IsFamily(vals) == IsFiniteSet(DOMAIN vals) /\ \A i \in DOMAIN vals : vals[i] \in Nat

\* The counts of a family are counts.
LEMMA CountsType ==
    ASSUME NEW vals, IsFamily(vals), NEW v
    PROVE  /\ Cardinality(DOMAIN vals) \in Nat
           /\ SamplesUpTo(vals, v) \in Nat
           /\ SamplesBelow(vals, v) \in Nat
<1>1. /\ IsFiniteSet({i \in DOMAIN vals : vals[i] <= v})
      /\ IsFiniteSet({i \in DOMAIN vals : vals[i] < v})
    BY FS_Subset DEF IsFamily
<1> QED BY <1>1, FS_CardinalityType DEF IsFamily, SamplesUpTo, SamplesBelow

\* Every rank below the number of samples has a sample: what the code finds at
\* an index of the sorted slice (calculator.go:38-53).
THEOREM OrderStatistic ==
    ASSUME NEW vals, IsFamily(vals), NEW k \in Nat, k < Cardinality(DOMAIN vals)
    PROVE  /\ Sorted(vals, k) \in {vals[i] : i \in DOMAIN vals}
           /\ SamplesBelow(vals, Sorted(vals, k)) <= k
           /\ k < SamplesUpTo(vals, Sorted(vals, k))
<1> DEFINE D == DOMAIN vals
           Enough == {i \in D : k < SamplesUpTo(vals, vals[i])}
<1>1. D # {} /\ IsFiniteSet(D) /\ \A i \in D : vals[i] \in Nat
    BY FS_EmptySet DEF IsFamily
<1>2. Enough # {}
  <2>1. PICK m \in D : \A i \in D : vals[i] <= vals[m]
      BY <1>1, LargestSample
  <2>2. {i \in D : vals[i] <= vals[m]} = D
      BY <2>1
  <2> QED BY <2>2 DEF SamplesUpTo
<1>3. PICK m \in Enough : \A i \in Enough : vals[m] <= vals[i]
  <2>1. IsFiniteSet(Enough) /\ \A i \in Enough : vals[i] \in Nat
      BY <1>1, FS_Subset
  <2> QED BY <2>1, <1>2, SmallestSample
<1>4. SamplesBelow(vals, vals[m]) <= k
  <2> SUFFICES ASSUME ~ (SamplesBelow(vals, vals[m]) <= k) PROVE FALSE
      OBVIOUS
  <2> DEFINE B == {i \in D : vals[i] < vals[m]}
  <2>1. Cardinality(B) > k /\ IsFiniteSet(B)
    <3>1. SamplesBelow(vals, vals[m]) \in Nat
        BY CountsType
    <3> QED BY <3>1, <1>1, FS_Subset DEF SamplesBelow
  <2>2. B # {}
      BY <2>1, FS_EmptySet
  <2>3. PICK w \in B : \A i \in B : vals[i] <= vals[w]
      BY <1>1, <2>1, <2>2, LargestSample
  <2>4. {i \in D : vals[i] <= vals[w]} = B
      BY <1>1, <2>3
  <2>5. w \in Enough
      BY <2>1, <2>4 DEF SamplesUpTo
  <2> QED BY <1>1, <1>3, <2>3, <2>5
<1> QED BY <1>3, <1>4 DEF Sorted

\* How many samples, in hundredths of their unit, lie above an amount.
SamplesOver(vals, amount) == Cardinality({i \in DOMAIN vals : 100 * vals[i] > amount})

\* The ranks between which the percentile interpolates.
LEMMA RanksInRange ==
    ASSUME NEW n \in Nat \ {0}, NEW percentile \in 0..100
    PROVE  LET lower    == (percentile * (n - 1)) \div 100
               fraction == (percentile * (n - 1)) % 100
           IN  /\ lower \in Nat /\ lower < n
               /\ fraction \in 0..99
               /\ fraction # 0 => lower + 1 < n
               /\ percentile * (n - 1) = 100 * lower + fraction
<1> DEFINE p == percentile * (n - 1)
<1>1. p \in Nat /\ p <= 100 * (n - 1)
  <2>1. \A q \in Nat, m \in Nat : q * m \in Nat
      OBVIOUS
  <2>2. percentile \in Nat /\ 100 - percentile \in Nat /\ n - 1 \in Nat
      OBVIOUS
  <2>3. p \in Nat /\ (100 - percentile) * (n - 1) \in Nat
      BY <2>1, <2>2
  <2>4. (100 - percentile) * (n - 1) = 100 * (n - 1) - p
      BY <2>2
  <2> HIDE DEF p
  <2> QED BY <2>3, <2>4
<1> HIDE DEF p
<1>2. /\ p \div 100 \in Nat /\ p % 100 \in 0..99
      /\ p = 100 * (p \div 100) + (p % 100)
    BY <1>1
<1> QED BY <1>1, <1>2 DEF p

\* The percentile of a family is a natural number of hundredths, and less than
\* (100 - percentile)% of the samples, and one that the interpolation rounds
\* away, lie above it (calculator.go:34-54).
THEOREM PercentileLeavesFew ==
    ASSUME NEW vals, IsFamily(vals), NEW percentile \in 0..100,
           NEW n, n = Cardinality(DOMAIN vals), n > 0
    PROVE  /\ ComputePercentile(vals, percentile) \in Nat
           /\ LET over == SamplesOver(vals, ComputePercentile(vals, percentile))
              IN  over \in Nat /\ 100 * (over - 1) < (100 - percentile) * (n - 1) + 1
<1> DEFINE lower == (percentile * (n - 1)) \div 100
           fraction == (percentile * (n - 1)) % 100
           a == Sorted(vals, lower)
           b == Sorted(vals, lower + 1)
           p == ComputePercentile(vals, percentile)
           O == {i \in DOMAIN vals : 100 * vals[i] > p}
           U == {i \in DOMAIN vals : vals[i] <= a}
<1>1. n \in Nat \ {0} /\ IsFiniteSet(DOMAIN vals) /\ \A i \in DOMAIN vals : vals[i] \in Nat
    BY FS_CardinalityType DEF IsFamily
<1>2. /\ lower \in Nat /\ lower < n /\ fraction \in 0..99
      /\ fraction # 0 => lower + 1 < n
      /\ percentile * (n - 1) = 100 * lower + fraction
    BY <1>1, RanksInRange
<1>3. p = 100 * a + (IF fraction = 0 THEN 0 ELSE fraction * (b - a))
    BY <1>1 DEF ComputePercentile
<1> HIDE DEF lower, fraction, p
<1>4. a \in Nat /\ lower < SamplesUpTo(vals, a)
    BY <1>1, <1>2, OrderStatistic
<1>5. fraction # 0 => b \in Nat /\ a <= b
  <2> SUFFICES ASSUME fraction # 0 PROVE b \in Nat /\ a <= b
      OBVIOUS
  <2>1. b \in Nat /\ lower + 1 < SamplesUpTo(vals, b) /\ SamplesBelow(vals, a) <= lower
      BY <1>1, <1>2, OrderStatistic
  <2>2. ASSUME b < a PROVE FALSE
    <3> DEFINE Ub == {i \in DOMAIN vals : vals[i] <= b}
               Ba == {i \in DOMAIN vals : vals[i] < a}
    <3>1. Ub \subseteq Ba
        BY <2>1, <2>2, <1>1, <1>4
    <3>2. IsFiniteSet(Ba) /\ Cardinality(Ub) <= Cardinality(Ba)
        BY <3>1, <1>1, FS_Subset
    <3>3. Cardinality(Ub) = SamplesUpTo(vals, b) /\ Cardinality(Ba) = SamplesBelow(vals, a)
        BY DEF SamplesUpTo, SamplesBelow
    <3>4. SamplesUpTo(vals, b) \in Nat /\ SamplesBelow(vals, a) \in Nat
        BY CountsType
    <3> HIDE DEF a, b, Ub, Ba
    <3> QED BY <3>2, <3>3, <3>4, <2>1, <1>2
  <2> QED BY <2>1, <2>2, <1>4
<1>6. p \in Nat /\ p >= 100 * a
  <2> HIDE DEF a, b
  <2>1. CASE fraction = 0
      BY <2>1, <1>3, <1>4
  <2>2. CASE fraction # 0
    <3>1. b - a \in Nat /\ fraction \in Nat
        BY <2>2, <1>2, <1>4, <1>5
    <3>2. fraction * (b - a) \in Nat
        BY <3>1
    <3> QED BY <2>2, <3>2, <1>3, <1>4
  <2> QED BY <2>1, <2>2
<1>7. /\ IsFiniteSet(O) /\ IsFiniteSet(U) /\ O \cap U = {}
      /\ Cardinality(O) \in Nat /\ Cardinality(U) \in Nat
      /\ Cardinality(O) + Cardinality(U) <= n
  <2> HIDE DEF a
  <2>1. IsFiniteSet(O) /\ IsFiniteSet(U)
      BY <1>1, FS_Subset
  <2>2. O \cap U = {}
      BY <1>1, <1>4, <1>6
  <2>3. Cardinality(O \cup U) = Cardinality(O) + Cardinality(U)
    <3>1. Cardinality(O \cup U) = Cardinality(O) + Cardinality(U) - Cardinality(O \cap U)
        BY <2>1, FS_Union
    <3>2. Cardinality(O \cap U) = 0 /\ Cardinality(O) \in Nat /\ Cardinality(U) \in Nat
        BY <2>1, <2>2, FS_EmptySet, FS_CardinalityType
    <3> HIDE DEF O, U
    <3> QED BY <3>1, <3>2
  <2>4. Cardinality(O \cup U) <= n
      BY <1>1, FS_Subset
  <2> QED BY <2>1, <2>2, <2>3, <2>4, FS_CardinalityType
<1>8. SamplesOver(vals, p) = Cardinality(O) /\ Cardinality(U) >= lower + 1
    BY <1>2, <1>4, <1>7 DEF SamplesOver, SamplesUpTo
<1>9. 100 * (Cardinality(O) - 1) < (100 - percentile) * (n - 1) + 1
  <2>1. (100 - percentile) * (n - 1) = 100 * (n - 1) - (100 * lower + fraction)
      BY <1>1, <1>2
  <2> HIDE DEF O, U
  <2> QED BY <2>1, <1>1, <1>2, <1>7, <1>8
<1> QED BY <1>6, <1>7, <1>8, <1>9 DEF p

-----------------------------------------------------------------------------
\* math.Ceil of a quotient.
LEMMA CeilDivBounds ==
    ASSUME NEW a \in Nat, NEW b \in Nat \ {0}
    PROVE  /\ CeilDiv(a, b) \in Nat
           /\ b * CeilDiv(a, b) >= a
           /\ b * (CeilDiv(a, b) - 1) < a
<1> DEFINE x == a + b - 1
           q == x \div b
<1>1. x \in Nat /\ b \in Nat /\ b > 0
    OBVIOUS
<1> HIDE DEF x
<1>2. q \in Nat /\ b * q <= x /\ x < b * q + b
    BY <1>1
<1> HIDE DEF q
<1>3. b * (q - 1) = b * q - b /\ b * q \in Nat
    BY <1>1, <1>2
<1>4. b * q >= a /\ b * (q - 1) < a
    BY <1>1, <1>2, <1>3 DEF x
<1> QED BY <1>2, <1>4 DEF CeilDiv, q, x

\* A product of naturals is a natural.
LEMMA ProductType == \A a, b \in Nat : a * b \in Nat
    OBVIOUS

IsPercent(percent) == percent.num \in Nat /\ percent.den \in Nat \ {0}

\* The amounts with headroom and at 70% are naturals.
LEMMA AmountType ==
    ASSUME NEW current \in Nat, NEW percent, IsPercent(percent)
    PROVE  WithHeadroom(current, percent) \in Nat /\ AtSeventy(current, percent) \in Nat
<1> DEFINE x == current * percent.num
           y == x * (100 + HeadroomPercent)
           d == percent.den * 10000
           e == percent.den * 70
<1>1. x \in Nat
    BY ProductType DEF IsPercent
<1>2. y \in Nat
  <2> HIDE DEF x
  <2>1. 100 + HeadroomPercent \in Nat
      BY PolicyAssumption
  <2> QED BY <1>1, <2>1, ProductType
<1>3. d \in Nat \ {0} /\ e \in Nat \ {0}
    BY DEF IsPercent
<1>4. WithHeadroom(current, percent) = CeilDiv(y, d) /\ AtSeventy(current, percent) = CeilDiv(x, e)
    BY DEF WithHeadroom, AtSeventy
<1> HIDE DEF x, y, d, e
<1>5. CeilDiv(y, d) \in Nat /\ CeilDiv(x, e) \in Nat
    BY <1>1, <1>2, <1>3, CeilDivBounds
<1> QED BY <1>4, <1>5

IsInput(input) ==
    /\ input.cpu \in Nat /\ input.mem \in Nat
    /\ IsPercent(input.cpuP95) /\ IsPercent(input.cpuMax)
    /\ IsPercent(input.memP95) /\ IsPercent(input.memMax)
    /\ input.minCPUSavings \in Nat \ {0} /\ input.minMemSavings \in Nat \ {0}

Advice == [direction : {"none", "downsize", "upsize"}, cpu : Nat, mem : Nat]

\* A downsize raises nothing, goes below no floor the request was above, and
\* saves enough of one resource.
HonestDownsize(input, advice) ==
    /\ advice.cpu <= input.cpu /\ advice.mem <= input.mem
    /\ advice.cpu < input.cpu => advice.cpu >= MinCPU
    /\ advice.mem < input.mem => advice.mem >= MinMem
    /\ \/ input.cpu - advice.cpu >= input.minCPUSavings
       \/ input.mem - advice.mem >= input.minMemSavings

HonestUpsize(input, advice) ==
    /\ advice.cpu >= input.cpu /\ advice.mem >= input.mem
    /\ \/ advice.cpu - input.cpu >= input.minCPUSavings
       \/ advice.mem - input.mem >= input.minMemSavings

\* Whatever the utilisation, the calculator's advice keeps its word
\* (calculator.go:56-160).
THEOREM AnalyzeHonest ==
    ASSUME NEW input, IsInput(input)
    PROVE  /\ Analyze(input) \in Advice
           /\ Analyze(input).direction = "downsize" => HonestDownsize(input, Analyze(input))
           /\ Analyze(input).direction = "upsize" => HonestUpsize(input, Analyze(input))
<1> DEFINE Down == AnalyzeDownsize(input)
           Up == AnalyzeUpsize(input)
           peakCPU == Larger(input.cpuP95, input.cpuMax)
           peakMem == Larger(input.memP95, input.memMax)
<1>1. IsPercent(peakCPU) /\ IsPercent(peakMem)
    BY DEF IsInput, Larger
<1>2. /\ Down \in Advice
      /\ \/ Down = NoAdvice
         \/ Down.direction = "downsize" /\ HonestDownsize(input, Down)
  <2> DEFINE c == WithHeadroom(input.cpu, input.cpuP95)
             m == WithHeadroom(input.mem, input.memP95)
             rc == AtMost(AtLeast(c, MinCPU), input.cpu)
             rm == AtMost(AtLeast(m, MinMem), input.mem)
  <2>1. c \in Nat /\ m \in Nat
      BY AmountType DEF IsInput
  <2> HIDE DEF c, m
  <2>2. /\ rc \in Nat /\ rc <= input.cpu /\ (rc < input.cpu => rc >= MinCPU)
        /\ rm \in Nat /\ rm <= input.mem /\ (rm < input.mem => rm >= MinMem)
      BY <2>1, PolicyAssumption DEF IsInput, AtLeast, AtMost
  <2>3. Down = IF input.cpu - rc < input.minCPUSavings /\ input.mem - rm < input.minMemSavings
                 THEN NoAdvice
                 ELSE [direction |-> "downsize", cpu |-> rc, mem |-> rm]
      BY DEF AnalyzeDownsize, c, m
  <2> HIDE DEF rc, rm, Down
  <2> QED BY <2>2, <2>3 DEF IsInput, HonestDownsize, Advice, NoAdvice
<1>3. /\ Up \in Advice
      /\ \/ Up = NoAdvice
         \/ Up.direction = "upsize" /\ HonestUpsize(input, Up)
  <2> DEFINE c == AtSeventy(input.cpu, peakCPU)
             m == AtSeventy(input.mem, peakMem)
             rc == AtLeast(c, input.cpu)
             rm == AtLeast(m, input.mem)
  <2>1. c \in Nat /\ m \in Nat
      BY <1>1, AmountType DEF IsInput
  <2> HIDE DEF c, m
  <2>2. rc \in Nat /\ rc >= input.cpu /\ rm \in Nat /\ rm >= input.mem
      BY <2>1 DEF IsInput, AtLeast
  <2>3. Up = IF rc - input.cpu < input.minCPUSavings /\ rm - input.mem < input.minMemSavings
               THEN NoAdvice
               ELSE [direction |-> "upsize", cpu |-> rc, mem |-> rm]
      BY DEF AnalyzeUpsize, c, m
  <2> HIDE DEF rc, rm, Up
  <2> QED BY <2>2, <2>3 DEF IsInput, HonestUpsize, Advice, NoAdvice
<1>4. Analyze(input) = Up \/ Analyze(input) = Down
    BY DEF Analyze
<1> QED BY <1>2, <1>3, <1>4 DEF NoAdvice

\* Of a pod with one container, measured against its request, the amount with
\* the headroom leaves less than 5% of the samples, and one that the
\* interpolation rounds away, whose own headroom does not fit
\* (calculator.go:65-72, container.go:105-113).
THEOREM HeadroomCovers ==
    ASSUME NEW vals, IsFamily(vals), DOMAIN vals # {}, NEW current \in Nat \ {0},
           NEW percent, percent.num = ComputePercentile(vals, 95), percent.den = current,
           NEW amount, amount = WithHeadroom(current, percent)
    PROVE  LET uncovered == Cardinality({i \in DOMAIN vals :
                                           vals[i] * (100 + HeadroomPercent) > 100 * amount})
               n == Cardinality(DOMAIN vals)
           IN  100 * (uncovered - 1) < 5 * (n - 1) + 1
<1> DEFINE p == ComputePercentile(vals, 95)
           h == 100 + HeadroomPercent
           n == Cardinality(DOMAIN vals)
           N == {i \in DOMAIN vals : vals[i] * h > 100 * amount}
           O == {i \in DOMAIN vals : 100 * vals[i] > p}
<1>1. /\ n \in Nat /\ n > 0 /\ IsFiniteSet(DOMAIN vals)
      /\ \A i \in DOMAIN vals : vals[i] \in Nat
    BY FS_EmptySet, FS_CardinalityType DEF IsFamily
<1>2. /\ p \in Nat /\ SamplesOver(vals, p) \in Nat
      /\ 100 * (SamplesOver(vals, p) - 1) < 5 * (n - 1) + 1
  <2>1. 95 \in 0..100 /\ 100 - 95 = 5
      OBVIOUS
  <2> QED BY <1>1, <2>1, PercentileLeavesFew
<1>3. h \in Nat \ {0}
    BY PolicyAssumption
<1> HIDE DEF p, h
<1>4. amount \in Nat /\ 10000 * amount >= p * h
  <2>1. current * p * h \in Nat /\ current * 10000 \in Nat \ {0} /\ p * h \in Nat
      BY <1>2, <1>3, ProductType
  <2>2. amount = CeilDiv(current * p * h, current * 10000)
      BY DEF WithHeadroom, p, h
  <2>3. amount \in Nat /\ (current * 10000) * amount >= current * p * h
      BY <2>1, <2>2, CeilDivBounds
  <2>4. current * (10000 * amount - p * h) >= 0
      BY <2>1, <2>3, <1>2, <1>3
  <2> DEFINE d == 10000 * amount - p * h
  <2>5. d \in Int
      BY <2>1, <2>3
  <2> HIDE DEF d
  <2>6. d >= 0
      BY <2>4, <2>5 DEF d
  <2> QED BY <2>1, <2>3, <2>6 DEF d
<1>5. N \subseteq O
  <2> SUFFICES ASSUME NEW i \in DOMAIN vals, vals[i] * h > 100 * amount
               PROVE  100 * vals[i] > p
      OBVIOUS
  <2> DEFINE v == vals[i]
  <2>1. v \in Nat
      BY <1>1
  <2> HIDE DEF v
  <2>2. v * h \in Nat /\ p * h \in Nat /\ v * h > 100 * amount
      BY <2>1, <1>2, <1>3, ProductType DEF v
  <2>3. 100 * (v * h) > p * h
      BY <2>2, <1>4
  <2>4. (100 * v - p) * h > 0
      BY <2>1, <2>2, <2>3, <1>2, <1>3
  <2>5. 100 * v - p > 0
      BY <2>1, <2>4, <1>2, <1>3
  <2> QED BY <2>1, <2>5, <1>2 DEF v
<1>6. Cardinality(N) \in Nat /\ Cardinality(N) <= SamplesOver(vals, p)
  <2>1. IsFiniteSet(O) /\ IsFiniteSet(N)
      BY <1>1, FS_Subset
  <2>2. Cardinality(N) <= Cardinality(O)
      BY <2>1, <1>5, FS_Subset
  <2> QED BY <2>1, <2>2, FS_CardinalityType DEF SamplesOver
<1> HIDE DEF N, n
<1>7. 100 * (Cardinality(N) - 1) < 5 * (n - 1) + 1
    BY <1>1, <1>2, <1>6
<1> QED BY <1>7 DEF N, n, h
=============================================================================
