---------------------------- MODULE MCOvroAccess ----------------------------
(***************************************************************************)
(* Instances of OvroAccess: two invocations at the same time.              *)
(***************************************************************************)
EXTENDS OvroAccess

CONSTANTS r1, r2

TwoRuns == {r1, r2}
=============================================================================
