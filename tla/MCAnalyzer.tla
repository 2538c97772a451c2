----------------------------- MODULE MCAnalyzer -----------------------------
(***************************************************************************)
(* Instances of Analyzer: a namespace with a workload of every kind and a  *)
(* deployment without requests; a platform namespace with two machines,    *)
(* one of them excluded, which the user may name twice. Points are days.   *)
(***************************************************************************)
EXTENDS Analyzer

CONSTANTS shop, kube, vm1, vm2, vm3, web, job, db

TwoNamespaces == {shop, kube}
BothListed    == <<shop, kube>>
AllWorkloads  == {vm1, vm2, vm3, web, job, db}
Homes   == [w \in AllWorkloads |-> IF w \in {vm2, vm3} THEN kube ELSE shop]
KindsOf == [w \in AllWorkloads |->
              CASE w \in {vm1, vm2, vm3} -> "vm"
                [] w \in {web, job}      -> "deployment"
                [] w = db                -> "statefulSet"]

AllOrTwice == {<<>>, <<kube, kube>>}
OnlyShop   == {<<shop>>}

Points(first, others, foreign) == [first |-> first, others |-> others, foreign |-> foreign]

\* No points, or just enough, in one series or in several.
JustEnough ==
    [w \in AllWorkloads |->
        {Points(0, 0, 0), IF KindsOf[w] = "vm" THEN Points(7, 0, 0) ELSE Points(2, 3, 2)}]

\* From no points to all of them.
AnyAnswer ==
    [w \in AllWorkloads |-> {Points(0, 0, 0), Points(7, 0, 0), Points(30, 0, 0)}]
=============================================================================
