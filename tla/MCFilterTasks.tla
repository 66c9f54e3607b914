--------------------------- MODULE MCFilterTasks ---------------------------
(***************************************************************************)
(* Instances of FilterTasks for TLC: an extraction and a classification.   *)
(***************************************************************************)
EXTENDS FilterTasks

CONSTANTS t1, t2

MCOlder == {<<t1, t2>>}
MCKind == [t \in Tasks |-> IF t = t1 THEN "extract" ELSE "classify"]
MCRevision == [t \in Tasks |-> 0]
Places == [k \in {"extract", "classify"} |-> IF k = "extract" THEN 2 ELSE 1]
=============================================================================
