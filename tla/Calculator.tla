----------------------------- MODULE Calculator -----------------------------
(***************************************************************************)
(* internal/calculator/calculator.go. Resources are integers, as in the    *)
(* code, in units the constants below fix; the code's float64 percentages  *)
(* are exact fractions [num, den], so rounding happens only where the code *)
(* rounds (math.Ceil). The texts of the justification are left out.        *)
(***************************************************************************)
EXTENDS Integers, FiniteSets

CONSTANTS
    HeadroomPercent,            \* added to the percentile when downsizing
    UpsizeThreshold,            \* utilisation, in percent, that asks for more
    MinCPU, MinMem              \* no downsize goes below these

ASSUME PolicyAssumption ==
    /\ HeadroomPercent \in Nat /\ UpsizeThreshold \in Nat
    /\ MinCPU \in Nat /\ MinMem \in Nat

-----------------------------------------------------------------------------
(***************************************************************************)
(* Samples are a family of naturals over a finite index set: the code      *)
(* sorts them first, so their order does not matter.                       *)
(***************************************************************************)
SamplesUpTo(vals, v) == Cardinality({i \in DOMAIN vals : vals[i] <= v})
SamplesBelow(vals, v) == Cardinality({i \in DOMAIN vals : vals[i] < v})

\* sorted[k], counting from 0.
Sorted(vals, k) ==
    CHOOSE v \in {vals[i] : i \in DOMAIN vals} :
        SamplesBelow(vals, v) <= k /\ k < SamplesUpTo(vals, v)

\* ComputePercentile, in hundredths: linear interpolation between the two
\* samples around rank percentile / 100 * (n - 1).
ComputePercentile(vals, percentile) ==
    LET n        == Cardinality(DOMAIN vals)
        lower    == (percentile * (n - 1)) \div 100
        fraction == (percentile * (n - 1)) % 100
    IN  IF n = 0 THEN 0
        ELSE 100 * Sorted(vals, lower)
               + (IF fraction = 0 THEN 0
                  ELSE fraction * (Sorted(vals, lower + 1) - Sorted(vals, lower)))

\* maxVal of the collector.
MaxVal(vals) ==
    IF DOMAIN vals = {} THEN 0
    ELSE CHOOSE v \in {vals[i] : i \in DOMAIN vals} : \A i \in DOMAIN vals : vals[i] <= v

-----------------------------------------------------------------------------
(***************************************************************************)
(* Analyze. An input has the current request of each resource (cpu, mem),  *)
(* its utilisation in percent at the percentile and at the maximum, as a   *)
(* fraction with a positive denominator, and the smallest change worth a   *)
(* recommendation.                                                         *)
(***************************************************************************)
Reaches(percent, threshold) == percent.num >= threshold * percent.den

Larger(p, q) == IF p.num * q.den >= q.num * p.den THEN p ELSE q

CeilDiv(a, b) == (a + b - 1) \div b

AtLeast(a, b) == IF a < b THEN b ELSE a
AtMost(a, b)  == IF a >= b THEN b ELSE a

NoAdvice == [direction |-> "none", cpu |-> 0, mem |-> 0]

\* Fault variant: the percentile is recommended as it is.
WithoutHeadroom(current, percent) == CeilDiv(current * percent.num, percent.den * 100)

\* ceil(current * percent% * (1 + headroom%))
WithHeadroom(current, percent) ==
    CeilDiv(current * percent.num * (100 + HeadroomPercent), percent.den * 10000)

\* ceil(current * percent% / 0.70)
AtSeventy(current, percent) == CeilDiv(current * percent.num, percent.den * 70)

\* Fault variant: the floors are applied after the cap at the current request.
AnalyzeDownsizeFloorLast(input) ==
    LET recCPU == AtLeast(AtMost(WithHeadroom(input.cpu, input.cpuP95), input.cpu), MinCPU)
        recMem == AtLeast(AtMost(WithHeadroom(input.mem, input.memP95), input.mem), MinMem)
    IN  IF input.cpu - recCPU < input.minCPUSavings /\ input.mem - recMem < input.minMemSavings
          THEN NoAdvice
          ELSE [direction |-> "downsize", cpu |-> recCPU, mem |-> recMem]

AnalyzeDownsize(input) ==
    LET recCPU == AtMost(AtLeast(WithHeadroom(input.cpu, input.cpuP95), MinCPU), input.cpu)
        recMem == AtMost(AtLeast(WithHeadroom(input.mem, input.memP95), MinMem), input.mem)
    IN  IF input.cpu - recCPU < input.minCPUSavings /\ input.mem - recMem < input.minMemSavings
          THEN NoAdvice
          ELSE [direction |-> "downsize", cpu |-> recCPU, mem |-> recMem]

\* Fault variant: the new request is computed from the percentile only.
AnalyzeUpsizeFromP95(input) ==
    LET recCPU == AtLeast(AtSeventy(input.cpu, input.cpuP95), input.cpu)
        recMem == AtLeast(AtSeventy(input.mem, input.memP95), input.mem)
    IN  IF recCPU - input.cpu < input.minCPUSavings /\ recMem - input.mem < input.minMemSavings
          THEN NoAdvice
          ELSE [direction |-> "upsize", cpu |-> recCPU, mem |-> recMem]

AnalyzeUpsize(input) ==
    LET recCPU == AtLeast(AtSeventy(input.cpu, Larger(input.cpuP95, input.cpuMax)), input.cpu)
        recMem == AtLeast(AtSeventy(input.mem, Larger(input.memP95, input.memMax)), input.mem)
    IN  IF recCPU - input.cpu < input.minCPUSavings /\ recMem - input.mem < input.minMemSavings
          THEN NoAdvice
          ELSE [direction |-> "upsize", cpu |-> recCPU, mem |-> recMem]

Analyze(input) ==
    IF \E p \in {input.cpuP95, input.memP95, input.cpuMax, input.memMax} :
            Reaches(p, UpsizeThreshold)
      THEN AnalyzeUpsize(input)
      ELSE AnalyzeDownsize(input)
=============================================================================
