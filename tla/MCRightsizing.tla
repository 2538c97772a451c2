--------------------------- MODULE MCRightsizing ----------------------------
(***************************************************************************)
(* Instances of Rightsizing. A unit of CPU is 50m and a unit of memory     *)
(* 64Mi, so the floors are 2 and 1 and the least savings 5 and 4 for a pod *)
(* and 20 and 16 for a virtual machine (types.go:13-17).                   *)
(***************************************************************************)
EXTENDS Rightsizing, TLC

CONSTANTS p1, p2, c1, c2

AllKinds == {"vm", "container"}
OnlyVM   == {"vm"}
OnlyPod  == {"container"}

CPUSavings == [k \in Kinds |-> IF k = "vm" THEN 20 ELSE 5]
MemSavings == [k \in Kinds |-> IF k = "vm" THEN 16 ELSE 4]

\* Idle, half of a core, near saturation of the middle request, much memory.
Idle  == [cpu |-> 1,  mem |-> 1]
Half  == [cpu |-> 10, mem |-> 2]
Busy  == [cpu |-> 38, mem |-> 16]
Large == [cpu |-> 3,  mem |-> 60]

\* All series leave samples of both resources.
Both(use) == [cpu |-> [s \in DOMAIN use |-> use[s].cpu], mem |-> [s \in DOMAIN use |-> use[s].mem]]

Nobody       == Both(<<>>)
OnlyMem(use) == [Both(use) EXCEPT !.cpu = <<>>]
OnlyCPU(use) == [Both(use) EXCEPT !.mem = <<>>]

In1(level)     == (<<p1, c1>> :> level)
In2(level)     == (<<p2, c1>> :> level)
Sidecar(level) == (<<p1, c2>> :> level)

\* Of pods: the workload's own pod, alone or beside one with a name that the query
\* matches as well. Of machines: one node, another, and both as it moves.
PodMoments ==
    {Both(In1(Idle)), OnlyMem(In1(Busy)), OnlyCPU(In2(Half)), Both(In1(Idle) @@ In2(Busy))}

VMMoments ==
    {Nobody, Both(In1(Idle)), Both(In1(Busy)), OnlyMem(In1(Large)), Both(In1(Idle) @@ In2(Half))}

MixedMoments == [k \in Kinds |-> IF k = "vm" THEN VMMoments ELSE PodMoments]

\* One pod, of which the second container may be there or not.
SidecarMoments ==
    [k \in Kinds |-> {Both(In1(Half)), Both(In1(Busy)), Both(In1(Busy) @@ Sidecar(Idle)),
                      Both(In1(Half) @@ Sidecar(Half))}]

\* One machine that stays on its node.
OneNodeMoments == [k \in Kinds |-> {Nobody, Both(In1(Idle)), Both(In1(Half)), Both(In1(Busy))}]

\* No memory requested, less CPU than the floor, middle, large.
SomeRequests == {[cpu |-> 40, mem |-> 0], [cpu |-> 1, mem |-> 64],
                 [cpu |-> 40, mem |-> 16], [cpu |-> 80, mem |-> 64]}

\* Four cores.
LargeRequest == {[cpu |-> 80, mem |-> 64]}
=============================================================================
