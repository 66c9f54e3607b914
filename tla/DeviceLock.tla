----------------------------- MODULE DeviceLock -----------------------------
(***************************************************************************)
(* What the database leases of media_lineage/resources.py promise: a lock  *)
(* on one GPU, taken in one step, that a training run holds alone and the  *)
(* other workloads share up to a limit each.  Who holds it may lose it at  *)
(* any time, several at once when their server dies.                       *)
(***************************************************************************)
EXTENDS Integers, FiniteSets

CONSTANTS
    Request,     \* the owners that ask for the device
    Workload,    \* Workload[r]: "train" is exclusive
    Limit(_)     \* how many of a shared workload may use the device at once

VARIABLE using   \* the requests that may use the device

Init == using = {}

Rivals(r) == {q \in using : Workload[q] = Workload[r]}

Enter(r) ==
    /\ r \notin using
    /\ \/ Workload[r] = "train" /\ using = {}
       \/ /\ Workload[r] # "train"
          /\ \A q \in using : Workload[q] # "train"
          /\ Cardinality(Rivals(r)) < Limit(Workload[r])
    /\ using' = using \cup {r}

Leave == using' \in SUBSET using

Next == Leave \/ \E r \in Request : Enter(r)

Spec == Init /\ [][Next]_using
=============================================================================
