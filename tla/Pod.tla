--------------------------------- MODULE Pod --------------------------------
(***************************************************************************)
(* The analyzer's pod as the command sees it, and all that the command may *)
(* rely on: a pod is never restarted (backoffLimit 0, restartPolicy Never),*)
(* the report-ready line means that the report can be read, and from then  *)
(* on the report does not change while the pod waits.                      *)
(***************************************************************************)
VARIABLES
    state,    \* none, booting, collecting, serving, ended, deleted
    marker,   \* has it logged the report-ready line?
    report    \* the report's file in the pod: none, partial, complete

vars == <<state, marker, report>>

TypeOK ==
    /\ state \in {"none", "booting", "collecting", "serving", "ended", "deleted"}
    /\ marker \in BOOLEAN
    /\ report \in {"none", "partial", "complete"}

Init == state = "none" /\ marker = FALSE /\ report = "none"

Start == state = "none" /\ state' = "booting" /\ UNCHANGED <<marker, report>>

Collect == state = "booting" /\ state' = "collecting" /\ UNCHANGED <<marker, report>>

Write ==
    /\ state = "collecting"
    /\ report' \in {"partial", "complete"}
    /\ UNCHANGED <<state, marker>>

Announce ==
    /\ state = "collecting" /\ state' = "serving"
    /\ marker' = TRUE /\ report' = "complete"

End ==
    /\ state \in {"booting", "collecting", "serving"} /\ state' = "ended"
    /\ UNCHANGED <<marker, report>>

Delete == state # "deleted" /\ state' = "deleted" /\ UNCHANGED <<marker, report>>

Next == Start \/ Collect \/ Write \/ Announce \/ End \/ Delete

Spec == Init /\ [][Next]_vars
=============================================================================
