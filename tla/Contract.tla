------------------------------ MODULE Contract ------------------------------
(***************************************************************************)
(* What one invocation of the command promises, whatever fails and however *)
(* it is interrupted: the rights of the analyzer are granted before its    *)
(* Job exists and are never granted again once they have been revoked; a   *)
(* success means that a report was delivered and that every right has been *)
(* revoked; after a success nothing is granted.                            *)
(***************************************************************************)
CONSTANT Rights   \* what the analyzer is allowed, beyond its namespace

VARIABLES
    rights,    \* each is not granted yet, held, or revoked
    launched,  \* has the Job been created?
    result,    \* none, delivered, success, failure
    excused    \* the user keeps the namespace, or was told to finish the cleanup

vars == <<rights, launched, result, excused>>

TypeOK ==
    /\ rights \in [Rights -> {"none", "held", "revoked"}]
    /\ launched \in BOOLEAN /\ excused \in BOOLEAN
    /\ result \in {"none", "delivered", "success", "failure"}

Init ==
    /\ rights = [r \in Rights |-> "none"]
    /\ launched = FALSE /\ result = "none"
    /\ excused \in BOOLEAN

\* A request that was given up on may still be executed after a failure.
Grant(r) ==
    /\ rights[r] = "none" /\ result \in {"none", "failure"}
    /\ rights' = [rights EXCEPT ![r] = "held"]
    /\ UNCHANGED <<launched, result, excused>>

Revoke(r) ==
    /\ rights[r] = "held"
    /\ rights' = [rights EXCEPT ![r] = "revoked"]
    /\ UNCHANGED <<launched, result, excused>>

Launch ==
    /\ ~launched /\ launched' = TRUE
    /\ \A r \in Rights : rights[r] # "none"
    /\ result \in {"none", "failure"}
    /\ UNCHANGED <<rights, result, excused>>

Deliver ==
    /\ launched /\ result = "none" /\ result' = "delivered"
    /\ UNCHANGED <<rights, launched, excused>>

Succeed ==
    /\ result = "delivered" /\ result' = "success"
    /\ excused \/ \A r \in Rights : rights[r] = "revoked"
    /\ UNCHANGED <<rights, launched, excused>>

\* An interrupt may come after the report has been delivered.
Fail ==
    /\ result \in {"none", "delivered"} /\ result' = "failure"
    /\ UNCHANGED <<rights, launched, excused>>

Excuse == excused' = TRUE /\ UNCHANGED <<rights, launched, result>>

Next ==
    \/ \E r \in Rights : Grant(r) \/ Revoke(r)
    \/ Launch \/ Deliver \/ Succeed \/ Fail \/ Excuse

Spec == Init /\ [][Next]_vars
=============================================================================
