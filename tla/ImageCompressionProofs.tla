----------------------- MODULE ImageCompressionProofs -----------------------
(***************************************************************************)
(* Type correctness of ImageCompression, the reservation of names and that *)
(* sources survive, for any missions, names, versions and mishaps, whether *)
(* a rename replaces what it finds or not.                                 *)
(***************************************************************************)
EXTENDS ImageCompression, TLAPS

Ingesting == {"ingest", "copy", "take", "mark", "drop"}

(* The status of the running mission at each step.                         *)
StatusFits(s, status) ==
    /\ s \in Ingesting => status \in {"moving", "processing", "failed"}
    /\ s = "accept" => status = "moving"
    /\ s = "reclaim" => status = "failed"
    /\ s \in {"stage", "staged"} => status = "processing"
    /\ s \in {"publish", "rename", "published"} => status = "publishing"
    /\ s \in {"verify", "purge", "complete"} => status = "cleanup_pending"

JobFits == pc \in Steps => job \in Mission /\ StatusFits(pc, row[job].status)

TypeInv == TypeOK /\ JobFits

LEMMA FirstStepFits ==
    ASSUME NEW s \in Active
    PROVE  FirstStep[s] \in Steps /\ StatusFits(FirstStep[s], s)
BY DEF Active, FirstStep, Steps, StatusFits, Ingesting

LEMMA TreeTypes ==
    /\ NoTree \in Tree
    /\ \A t \in Tree : Part(t) \in Tree
    /\ NoProduct \in Product /\ Foreign \in Product
<1>1. 0 \in Version
  BY BoundAssumption DEF Version
<1>2. NoTree \in Tree /\ NoProduct \in Product /\ Foreign \in Product
  BY <1>1 DEF NoTree, Tree, NoProduct, Foreign, Product
<1>3. ASSUME NEW t \in Tree
      PROVE  Part(t) \in Tree
  BY <1>3 DEF Tree, Part
<1>4. QED
  BY <1>2, <1>3

LEMMA IngestedFits ==
    ASSUME NEW m \in Mission, JobFits, pc \in Ingesting, job = m, Ingested(m), row' = row
    PROVE  pc' \in Steps /\ job' = job /\ fresh' = fresh /\ JobFits'
BY DEF JobFits, Steps, StatusFits, Ingesting, Ingested, Go
LEMMA MadeTypes ==
    ASSUME TypeOK, NEW m \in Mission
    PROVE  Made(m) \in Product /\ [Made(m) EXCEPT !.whole = FALSE] \in Product
BY DEF TypeOK, Made, Product, Tree

LEMMA RefreshedType ==
    ASSUME TypeOK, NEW m \in Mission
    PROVE  Refreshed(m) \in Row
BY DEF TypeOK, Row, Refreshed, Statuses

LEMMA BecomesType ==
    ASSUME TypeOK, NEW m \in Mission, NEW status \in Statuses, Becomes(m, status)
    PROVE  row' \in [Mission -> Row] /\ row'[m].status = status
BY DEF TypeOK, Row, Becomes

LEMMA MishapType ==
    ASSUME TypeOK, mishaps < MaxMishap, mishaps' = mishaps + 1
    PROVE  mishaps' \in 0 .. MaxMishap
BY BoundAssumption DEF TypeOK

(***************************************************************************)
(* The variables keep their types, and the running job is always at a step *)
(* its mission's status calls for, whatever crashed or failed before.      *)
(***************************************************************************)
THEOREM TypesFit == Spec => []TypeInv
<1>1. Init => TypeInv
  <2> SUFFICES ASSUME Init
               PROVE  TypeInv
    OBVIOUS
  <2>1. 0 \in Version /\ 1 \in Version
    BY BoundAssumption DEF Version
  <2>2. [of |-> 1, whole |-> TRUE] \in Tree
    BY <2>1 DEF Tree
  <2>3. PICK old \in SUBSET Legacy, marked \in SUBSET Legacy :
          /\ row = [m \in Mission |->
                      [status |-> IF m \in old THEN "failed" ELSE "none", stamp |-> 0,
                       key |-> Planned[m], legacy |-> m \in old, of |-> 0]]
          /\ latest = [m \in Mission |-> IF m \in old THEN 1 ELSE 0]
          /\ pending = [m \in Mission |-> IF m \in old THEN [of |-> 1, whole |-> TRUE]
                                          ELSE NoTree]
          /\ marker = [m \in Mission |-> IF m \in marked THEN 1 ELSE 0]
    BY DEF Init
  <2>4. row \in [Mission -> Row]
    BY <2>1, <2>3, MissionAssumption DEF Row, Statuses
  <2>5. latest \in [Mission -> Version] /\ marker \in [Mission -> Version]
    BY <2>1, <2>3
  <2>6. pending \in [Mission -> Tree]
    BY <2>2, <2>3, TreeTypes
  <2>7. mishaps \in 0 .. MaxMishap
    BY BoundAssumption DEF Init
  <2>8. /\ source \in [Mission -> Version] /\ quarantine \in [Mission -> Tree]
        /\ part \in [Mission -> Tree] /\ staging \in [Mission -> Product]
        /\ output \in [Name -> Product]
    BY <2>1, TreeTypes DEF Init
  <2>9. QED
    BY <2>4, <2>5, <2>6, <2>7, <2>8 DEF Init, TypeInv, TypeOK, JobFits, Steps
<1>2. TypeInv /\ [Next]_vars => TypeInv'
  <2> SUFFICES ASSUME TypeInv, [Next]_vars
               PROVE  TypeInv'
    OBVIOUS
  <2> USE DEF TypeInv, TypeOK, copies, files, control, Start, Go, Rest
  <2>1. CASE Resume
    <3>1. CASE Start("retry", 0)
      BY <2>1, <3>1 DEF Resume, JobFits, Steps
    <3>2. ASSUME NEW m \in Rows(Active), Start(FirstStep[row[m].status], m)
          PROVE  TypeInv'
      BY <2>1, <3>2, FirstStepFits DEF Resume, Rows, JobFits
    <3>3. QED
      BY <2>1, <3>1, <3>2 DEF Resume
  <2>2. CASE Retry
    <3>1. CASE Start("look", 0)
      BY <2>2, <3>1 DEF Retry, JobFits, Steps
    <3>2. ASSUME NEW m \in Mission, Retryable(m), Start("ingest", m)
          PROVE  TypeInv'
      BY <2>2, <3>2 DEF Retry, Retryable, JobFits, Steps, StatusFits, Ingesting
    <3>3. QED
      BY <2>2, <3>1, <3>2 DEF Retry, First
  <2>3. CASE RefreshWaiting
    <3>1. row' \in [Mission -> Row]
      BY <2>3, RefreshedType DEF RefreshWaiting, Rows
    <3>2. pc' \in {"claim", "idle"} /\ job' \in {0} \cup Mission /\ fresh' \in BOOLEAN
      BY <2>3 DEF RefreshWaiting
    <3>3. QED
      BY <2>3, <3>1, <3>2 DEF RefreshWaiting, JobFits, Steps
  <2>4. CASE Claim
    <3>1. CASE Go("register") /\ UNCHANGED row
      BY <2>4, <3>1 DEF Claim, JobFits, Steps
    <3>2. ASSUME NEW m \in Mission, Becomes(m, "moving"), Start("ingest", m)
          PROVE  TypeInv'
      BY <2>4, <3>2, BecomesType DEF Claim, JobFits, Steps, StatusFits, Ingesting, Statuses, Active
    <3>3. QED
      BY <2>4, <3>1, <3>2 DEF Claim, First, Rows
  <2>5. CASE Register
    <3>1. row' \in [Mission -> Row]
      <4>1. CASE UNCHANGED row
        BY <4>1
      <4>2. ASSUME NEW m \in Mission, NEW s \in {"failed", "waiting_stable"},
                   row' = [row EXCEPT ![m].stamp = source[m], ![m].status = s]
            PROVE  row' \in [Mission -> Row]
        BY <4>2 DEF Row, Statuses
      <4>3. QED
        BY <2>5, <4>1, <4>2 DEF Register, First, Unregistered, Rows
    <3>2. QED
      BY <2>5, <3>1 DEF Register, JobFits, Steps
  <2>6. ASSUME NEW m \in Mission, Adopt(m)
        PROVE  TypeInv'
    BY <2>6 DEF Adopt, At, JobFits, Steps, StatusFits, Ingesting
  <2>7. ASSUME NEW m \in Mission, Isolate(m)
        PROVE  TypeInv'
    <3>1. source' \in [Mission -> Version] /\ quarantine' \in [Mission -> Tree]
      <4>1. 0 \in Version
        BY BoundAssumption DEF Version
      <4>2. [of |-> source[m], whole |-> TRUE] \in Tree
        BY DEF Tree
      <4>3. QED
        BY <2>7, <4>1, <4>2 DEF Isolate
    <3>2. QED
      BY <2>7, <3>1, TreeTypes DEF Isolate, At, JobFits, Steps, StatusFits, Ingesting
  <2>8. ASSUME NEW m \in Mission, Copy(m)
        PROVE  TypeInv'
    BY <2>8, TreeTypes DEF Copy, At, JobFits, Steps, StatusFits, Ingesting
  <2>9. ASSUME NEW m \in Mission, Take(m)
        PROVE  TypeInv'
    BY <2>9, TreeTypes DEF Take, At, JobFits, Steps, StatusFits, Ingesting
  <2>10. ASSUME NEW m \in Mission, Mark(m)
         PROVE  TypeInv'
    <3>1. marker' \in [Mission -> Version]
      BY <2>10 DEF Mark, Tree
    <3>2. pc' \in Steps /\ job' = job /\ fresh' = fresh /\ JobFits'
      BY <2>10, IngestedFits DEF Mark, At, JobFits, Steps, StatusFits, Ingesting
    <3>3. QED
      BY <2>10, <3>1, <3>2 DEF Mark
  <2>11. ASSUME NEW m \in Mission, Drop(m)
         PROVE  TypeInv'
    <3>1. quarantine' \in [Mission -> Tree]
      BY <2>11, TreeTypes DEF Drop
    <3>2. pc' \in Steps /\ job' = job /\ fresh' = fresh /\ JobFits'
      BY <2>11, IngestedFits DEF Drop, At, JobFits, Steps, StatusFits, Ingesting
    <3>3. QED
      BY <2>11, <3>1, <3>2 DEF Drop
  <2>12. ASSUME NEW m \in Mission, Accept(m)
         PROVE  TypeInv'
    <3>1. row' \in [Mission -> Row] /\ row'[m].status = "processing"
      BY <2>12 DEF Accept, Row, Statuses, Active
    <3>2. QED
      BY <2>12, <3>1 DEF Accept, At, JobFits, Steps, StatusFits, Ingesting
  <2>13. ASSUME NEW m \in Mission, Stage(m)
         PROVE  TypeInv'
    BY <2>13, MadeTypes DEF Stage, At, JobFits, Steps, StatusFits, Ingesting
  <2>14. ASSUME NEW m \in Mission, Staged(m)
         PROVE  TypeInv'
    <3>1. CASE staging[m].whole
      <4>1. Actual[m] \in Name /\ pending[m].of \in Version
        BY MissionAssumption DEF Tree
      <4>2. row' \in [Mission -> Row] /\ row'[m].status = "publishing"
        BY <2>14, <3>1, <4>1 DEF Staged, Row, Statuses, Active
      <4>3. QED
        BY <2>14, <3>1, <4>2 DEF Staged, At, JobFits, Steps, StatusFits, Ingesting
    <3>2. CASE ~staging[m].whole
      BY <2>14, <3>2, MadeTypes DEF Staged, JobFits
    <3>3. QED
      BY <3>1, <3>2
  <2>15. ASSUME NEW m \in Mission, Publish(m) \/ Rename(m)
         PROVE  TypeInv'
    BY <2>15, TreeTypes DEF Publish, Rename, At, JobFits, Steps, StatusFits, Ingesting
  <2>16. ASSUME NEW m \in Mission, Published(m)
         PROVE  TypeInv'
    BY <2>16, BecomesType DEF Published, At, JobFits, Steps, StatusFits, Ingesting, Statuses, Active
  <2>17. ASSUME NEW m \in Mission, Verify(m)
         PROVE  TypeInv'
    BY <2>17 DEF Verify, At, JobFits, Steps, StatusFits, Ingesting
  <2>18. ASSUME NEW m \in Mission, Purge(m)
         PROVE  TypeInv'
    <3>1. /\ pending' \in [Mission -> Tree] /\ marker' \in [Mission -> Version]
          /\ part' \in [Mission -> Tree] /\ staging' \in [Mission -> Product]
      <4>1. 0 \in Version
        BY BoundAssumption DEF Version
      <4>2. QED
        BY <2>18, <4>1, TreeTypes DEF Purge
    <3>2. QED
      BY <2>18, <3>1 DEF Purge, At, JobFits, Steps, StatusFits, Ingesting
  <2>19. ASSUME NEW m \in Mission, Complete(m)
         PROVE  TypeInv'
    BY <2>19, BecomesType DEF Complete, JobFits, Steps, Statuses
  <2>20. ASSUME NEW m \in Mission, Fail(m)
         PROVE  TypeInv'
    <3>1. mishaps' \in 0 .. MaxMishap
      BY <2>20, MishapType DEF Fail
    <3>2. row' \in [Mission -> Row]
      BY <2>20, BecomesType DEF Fail, PassOver, Statuses
    <3>3. staging' \in [Mission -> Product]
      BY <2>20, TreeTypes DEF Fail, PassOver
    <3>4. pc' \in {"idle", "retry"} /\ job' \in {0} \cup Mission /\ fresh' \in BOOLEAN
      BY <2>20 DEF Fail, PassOver
    <3>5. QED
      BY <2>20, <3>1, <3>2, <3>3, <3>4 DEF Fail, JobFits, Steps
  <2>21. CASE Crash
    BY <2>21, MishapType DEF Crash, JobFits, Steps
  <2>22. ASSUME NEW m \in Mission, Arrive(m)
         PROVE  TypeInv'
    BY <2>22, BoundAssumption DEF Arrive, JobFits, Version
  <2>23. ASSUME NEW m \in Mission, Withdraw(m)
         PROVE  TypeInv'
    BY <2>23, BoundAssumption DEF Withdraw, JobFits, Version
  <2>24. ASSUME NEW n \in Name, TakeOutput(n) \/ PlantOutput(n)
         PROVE  TypeInv'
    BY <2>24, TreeTypes DEF TakeOutput, PlantOutput, JobFits
  <2>25. CASE UNCHANGED vars
    BY <2>25 DEF vars, JobFits
  <2>26. QED
    BY <2>1, <2>2, <2>3, <2>4, <2>5, <2>6, <2>7, <2>8, <2>9, <2>10, <2>11, <2>12, <2>13,
       <2>14, <2>15, <2>16, <2>17, <2>18, <2>19, <2>20, <2>21, <2>22, <2>23, <2>24, <2>25
    DEF Next, Job
<1>3. QED
  BY <1>1, <1>2, PTL DEF Spec

(* In particular the rows, the files and the job keep their types.         *)
THEOREM TypeCorrect == Spec => []TypeOK
BY TypesFit, PTL DEF TypeInv

-----------------------------------------------------------------------------
(* What the running job relies on between the look at the names and the    *)
(* commit that takes one: nobody reserves a name meanwhile.                *)
LookedUp ==
    /\ pc \in Ingesting \cup {"reclaim"} /\ row[job].status = "failed"
          => ~Reserved(job, row[job].key)
    /\ pc = "staged" /\ Actual[job] # row[job].key => ~Reserved(job, Actual[job])

Fresh == \A m \in Rows({"none"}) : row[m].key = Planned[m]

NamesInv == NamesAreReserved /\ LookedUp /\ Fresh

(* Reservations depend on the rows alone, and on the others' rows only.    *)
LEMMA OthersReserve ==
    ASSUME NEW m \in Mission, NEW name,
           \A q \in Mission \ {m} : row'[q] = row[q]
    PROVE  Reserved(m, name)' <=> Reserved(m, name)
BY DEF Reserved, Rows

(* One mission changes its row, and keeps a name or takes one nobody has.  *)
LEMMA OneChanges ==
    ASSUME TypeOK, NamesAreReserved, NEW m \in Mission,
           \A q \in Mission \ {m} : row'[q] = row[q],
           \/ row'[m].status = "failed"
           \/ ~Reserved(m, row'[m].key)
           \/ row[m].status \notin {"none", "failed"} /\ row'[m].key = row[m].key
    PROVE  NamesAreReserved'
BY DEF NamesAreReserved, Reserved, Rows, TypeOK, Row

LEMMA OneStaysFresh ==
    ASSUME Fresh, NEW m \in Mission,
           \A q \in Mission \ {m} : row'[q] = row[q],
           row'[m].status # "none"
    PROVE  Fresh'
BY DEF Fresh, Rows

LEMMA RowsUnchanged ==
    ASSUME NamesInv, UNCHANGED row, pc' \notin Steps
    PROVE  NamesInv'
BY DEF NamesInv, NamesAreReserved, LookedUp, Fresh, Rows, Steps, Ingesting

(***************************************************************************)
(* Two missions that have not failed never have the same output name,      *)
(* whatever is registered, renamed after its format is known or retried,   *)
(* for any number of missions and any names.                               *)
(***************************************************************************)
THEOREM NamesStayDistinct == Spec => []NamesAreReserved
<1>1. Init => NamesInv
  BY MissionAssumption
  DEF Init, NamesInv, NamesAreReserved, LookedUp, Fresh, Rows, Statuses, Active, Ingesting
<1>2. TypeInv /\ NamesInv /\ [Next]_vars => NamesInv'
  <2> SUFFICES ASSUME TypeInv, NamesInv, [Next]_vars
               PROVE  NamesInv'
    OBVIOUS
  <2>0. TypeOK /\ JobFits /\ row \in [Mission -> Row]
    BY DEF TypeInv, TypeOK
  <2> USE DEF NamesInv
  <2>1. CASE Resume
    <3>1. CASE Start("retry", 0)
      BY <2>1, <3>1, RowsUnchanged DEF Resume, Start, Steps
    <3>2. ASSUME NEW m \in Rows(Active), Start(FirstStep[row[m].status], m)
          PROVE  NamesInv'
      BY <2>1, <3>2 DEF Resume, Start, Rows, Active, FirstStep, NamesAreReserved, LookedUp, Fresh
    <3>3. QED
      BY <2>1, <3>1, <3>2 DEF Resume
  <2>2. CASE Retry
    <3>1. CASE Start("look", 0)
      BY <2>2, <3>1, RowsUnchanged DEF Retry, Start, Steps
    <3>2. ASSUME NEW m \in Mission, Retryable(m), Start("ingest", m)
          PROVE  NamesInv'
      BY <2>2, <3>2, OthersReserve
      DEF Retry, Retryable, Start, Rows, NamesAreReserved, LookedUp, Fresh
    <3>3. QED
      BY <2>2, <3>1, <3>2 DEF Retry, First
  <2>3. CASE RefreshWaiting
    <3>1. CASE UNCHANGED row
      BY <2>3, <3>1, RowsUnchanged DEF RefreshWaiting, Go, Rest, Steps
    <3>2. ASSUME NEW m \in Rows({"waiting_stable"}), row' = [row EXCEPT ![m] = Refreshed(m)]
          PROVE  NamesInv'
      <4>1. row'[m].key = row[m].key /\ row'[m].status \in {"waiting_stable", "ready", "failed"}
        BY <2>0, <3>2 DEF Rows, Refreshed, Row
      <4>2. NamesAreReserved' /\ Fresh'
        BY <2>0, <3>2, <4>1, OneChanges, OneStaysFresh DEF Rows
      <4>3. pc' \notin Ingesting \cup {"reclaim", "staged"}
        BY <2>3 DEF RefreshWaiting, Go, Rest, Ingesting
      <4>4. QED
        BY <4>2, <4>3 DEF LookedUp
    <3>3. QED
      BY <2>3, <3>1, <3>2 DEF RefreshWaiting
  <2>4. CASE Claim
    <3>1. CASE Go("register") /\ UNCHANGED row
      BY <2>4, <3>1, RowsUnchanged DEF Claim, Go, Steps
    <3>2. ASSUME NEW m \in Rows({"ready"}), Becomes(m, "moving"), Start("ingest", m)
          PROVE  NamesInv'
      <4>1. row'[m].key = row[m].key /\ row'[m].status = "moving"
        BY <2>0, <3>2 DEF Rows, Becomes, Row
      <4>2. NamesAreReserved' /\ Fresh'
        BY <2>0, <3>2, <4>1, OneChanges, OneStaysFresh DEF Rows, Becomes
      <4>3. QED
        BY <3>2, <4>1, <4>2 DEF LookedUp, Start
    <3>3. QED
      BY <2>4, <3>1, <3>2 DEF Claim, First
  <2>5. CASE Register
    <3>1. CASE UNCHANGED row
      BY <2>5, <3>1, RowsUnchanged DEF Register, Rest, Steps
    <3>2. ASSUME NEW m \in Unregistered,
                 row' = [row EXCEPT ![m].stamp = source[m],
                           ![m].status = IF Reserved(m, Planned[m]) \/ ~Free(Planned[m])
                                         THEN "failed" ELSE "waiting_stable"]
          PROVE  NamesInv'
      <4>1. /\ m \in Mission /\ row'[m].key = Planned[m]
            /\ row'[m].status = "failed" \/ ~Reserved(m, Planned[m])
            /\ row'[m].status # "none"
        BY <2>0, <3>2 DEF Unregistered, Rows, Row, Fresh
      <4>2. NamesAreReserved' /\ Fresh'
        BY <2>0, <3>2, <4>1, OneChanges, OneStaysFresh
      <4>3. QED
        BY <2>5, <4>2 DEF Register, Rest, LookedUp, Ingesting
    <3>3. QED
      BY <2>5, <3>1, <3>2 DEF Register, First
  <2>6. ASSUME NEW m \in Mission, Accept(m)
        PROVE  NamesInv'
    <3>1. row'[m].key = row[m].key /\ row'[m].status = "processing"
      BY <2>0, <2>6 DEF Accept, Row
    <3>2. row[m].status \notin {"none", "failed"} \/ ~Reserved(m, row[m].key)
      BY <2>0, <2>6 DEF Accept, At, JobFits, Steps, StatusFits, Ingesting, LookedUp
    <3>3. NamesAreReserved' /\ Fresh'
      BY <2>0, <2>6, <3>1, <3>2, OneChanges, OneStaysFresh DEF Accept
    <3>4. QED
      BY <2>6, <3>1, <3>3 DEF Accept, At, Go, LookedUp
  <2>7. ASSUME NEW m \in Mission, Staged(m)
        PROVE  NamesInv'
    <3>1. CASE UNCHANGED <<row, pc, job>>
      BY <3>1 DEF NamesAreReserved, LookedUp, Fresh, Rows, Reserved
    <3>2. CASE staging[m].whole
      <4>1. row'[m].key = Actual[m] /\ row'[m].status = "publishing"
        BY <2>0, <2>7, <3>2 DEF Staged, Row
      <4>2. row[m].status = "processing" /\ (Actual[m] # row[m].key => ~Reserved(m, Actual[m]))
        BY <2>0, <2>7 DEF Staged, At, JobFits, Steps, StatusFits, LookedUp
      <4>3. NamesAreReserved' /\ Fresh'
        BY <2>0, <2>7, <3>2, <4>1, <4>2, OneChanges, OneStaysFresh DEF Staged
      <4>4. QED
        BY <2>7, <3>2, <4>3 DEF Staged, Go, LookedUp, Ingesting
    <3>3. QED
      BY <2>7, <3>1, <3>2 DEF Staged, control
  <2>8. ASSUME NEW m \in Mission, Stage(m)
        PROVE  NamesInv'
    BY <2>8 DEF Stage, At, Go, NamesAreReserved, LookedUp, Fresh, Rows, Reserved, Ingesting
  <2>9. ASSUME NEW m \in Mission, Published(m) \/ Complete(m)
        PROVE  NamesInv'
    <3>1. PICK s \in {"cleanup_pending", "completed"} : Becomes(m, s)
      BY <2>9 DEF Published, Complete
    <3>2. row'[m].key = row[m].key /\ row'[m].status = s
      BY <2>0, <3>1 DEF Becomes, Row
    <3>3. row[m].status \notin {"none", "failed"}
      BY <2>0, <2>9 DEF Published, Complete, At, JobFits, Steps, StatusFits
    <3>4. NamesAreReserved' /\ Fresh'
      BY <2>0, <3>1, <3>2, <3>3, OneChanges, OneStaysFresh DEF Becomes
    <3>5. QED
      BY <2>9, <3>4 DEF Published, Complete, Go, Rest, LookedUp, Ingesting
  <2>10. ASSUME NEW m \in Mission, Fail(m)
         PROVE  NamesInv'
    <3>1. CASE UNCHANGED row
      BY <2>10, <3>1, RowsUnchanged DEF Fail, PassOver, Go, Rest, Steps
    <3>2. CASE Becomes(m, "failed") /\ Rest
      <4>1. row'[m].status = "failed"
        BY <2>0, <3>2 DEF Becomes, Row
      <4>2. NamesAreReserved' /\ Fresh'
        BY <2>0, <3>2, <4>1, OneChanges, OneStaysFresh DEF Becomes
      <4>3. QED
        BY <3>2, <4>2 DEF Rest, LookedUp, Ingesting
    <3>3. QED
      BY <2>10, <3>1, <3>2 DEF Fail, PassOver
  <2>11. CASE Crash
    BY <2>11, RowsUnchanged DEF Crash, Rest, Steps
  <2>12. ASSUME NEW m \in Mission,
                \/ Adopt(m) \/ Isolate(m) \/ Copy(m) \/ Take(m) \/ Mark(m) \/ Drop(m)
         PROVE  NamesInv'
    <3>1. /\ UNCHANGED row /\ job = m /\ job' = m /\ pc \in Ingesting
          /\ pc' \in Ingesting \cup {"accept", "reclaim", "stage"}
      BY <2>12 DEF Adopt, Isolate, Copy, Take, Mark, Drop, Ingested, Go, At, control, Ingesting
    <3>2. QED
      BY <3>1 DEF NamesAreReserved, LookedUp, Fresh, Rows, Reserved, Ingesting
  <2>13. ASSUME NEW m \in Mission, Publish(m) \/ Rename(m) \/ Verify(m) \/ Purge(m)
         PROVE  NamesInv'
    <3>1. UNCHANGED row /\ pc' \in {"rename", "published", "purge", "complete"}
      BY <2>13 DEF Publish, Rename, Verify, Purge, Go, At, control, files
    <3>2. QED
      BY <3>1 DEF NamesAreReserved, LookedUp, Fresh, Rows, Ingesting
  <2>14. ASSUME \/ \E m \in Mission : Arrive(m) \/ Withdraw(m)
                \/ \E n \in Name : TakeOutput(n) \/ PlantOutput(n)
                \/ UNCHANGED vars
         PROVE  NamesInv'
    <3>1. UNCHANGED <<row, pc, job>>
      BY <2>14 DEF Arrive, Withdraw, TakeOutput, PlantOutput, vars, control
    <3>2. QED
      BY <3>1 DEF NamesAreReserved, LookedUp, Fresh, Rows, Reserved
  <2>15. QED
    BY <2>1, <2>2, <2>3, <2>4, <2>5, <2>6, <2>7, <2>8, <2>9, <2>10, <2>11, <2>12, <2>13, <2>14
    DEF Next, Job
<1>3. QED
  BY <1>1, <1>2, TypesFit, PTL DEF Spec, NamesInv

-----------------------------------------------------------------------------
(* What the running job relies on between the copy of a source and the     *)
(* removal of its quarantine: whatever is pending is of the version in the *)
(* quarantine, nothing is pending while a copy is made, and the quarantine *)
(* goes only when a whole copy of it is pending.                           *)
CopiesAgree ==
    \A m \in Mission : \/ pending[m] = NoTree \/ quarantine[m] = NoTree
                       \/ pending[m].of = quarantine[m].of

CopiedFirst ==
    /\ pc \in {"copy", "take"} => pending[job] = NoTree
    /\ pc \in {"mark", "drop"} /\ quarantine[job].whole
          => pending[job].whole /\ pending[job].of = quarantine[job].of

CopiesInv == CopiesAgree /\ CopiedFirst

LEMMA PartsKeepVersions ==
    /\ NoTree.whole = FALSE /\ Part(NoTree) = NoTree
    /\ \A t \in Tree : Part(t).of = t.of /\ Part(t).whole = FALSE
<1>1. Part(NoTree) \in Tree /\ NoTree \in Tree
  BY TreeTypes
<1>2. NoTree.whole = FALSE /\ \A t \in Tree : Part(t).of = t.of /\ Part(t).whole = FALSE
  BY DEF NoTree, Part, Tree
<1>3. \A t, u \in Tree : t.of = u.of /\ t.whole = u.whole => t = u
  BY DEF Tree
<1>4. Part(NoTree) = NoTree
  BY <1>1, <1>2, <1>3
<1>5. QED
  BY <1>2, <1>4

LEMMA CopiesHold == Spec => []CopiesInv
<1>1. Init => CopiesInv
  BY DEF Init, CopiesInv, CopiesAgree, CopiedFirst
<1>2. TypeInv /\ CopiesInv /\ [Next]_vars => CopiesInv'
  <2> SUFFICES ASSUME TypeInv, CopiesInv, [Next]_vars
               PROVE  CopiesInv'
    OBVIOUS
  <2>0. /\ pending \in [Mission -> Tree] /\ quarantine \in [Mission -> Tree]
        /\ part \in [Mission -> Tree]
    BY DEF TypeInv, TypeOK
  <2> USE DEF CopiesInv, CopiesAgree, CopiedFirst
  <2>1. ASSUME UNCHANGED <<pending, quarantine>>, pc' \notin {"copy", "take", "mark", "drop"}
        PROVE  CopiesInv'
    BY <2>1
  <2>2. ASSUME NEW m \in Mission, Adopt(m)
        PROVE  CopiesInv'
    <3>1. /\ UNCHANGED <<pending, quarantine>> /\ pc' = "drop" /\ job' = m
          /\ pending[m] # NoTree /\ Adoptable(m)
      BY <2>2 DEF Adopt, At, files, copies
    <3>2. ASSUME quarantine[m].whole
          PROVE  pending[m].whole /\ pending[m].of = quarantine[m].of
      BY <3>1, <3>2, PartsKeepVersions DEF Adoptable
    <3>3. QED
      BY <3>1, <3>2
  <2>3. ASSUME NEW m \in Mission, Isolate(m)
        PROVE  CopiesInv'
    <3>1. /\ UNCHANGED pending /\ pc' = "copy" /\ job' = m /\ pending[m] = NoTree
          /\ \A q \in Mission \ {m} : quarantine'[q] = quarantine[q]
      BY <2>0, <2>3 DEF Isolate, At
    <3>2. QED
      BY <3>1
  <2>4. ASSUME NEW m \in Mission, Copy(m)
        PROVE  CopiesInv'
    BY <2>4 DEF Copy, At, Go, control
  <2>5. ASSUME NEW m \in Mission, Take(m)
        PROVE  CopiesInv'
    BY <2>0, <2>5 DEF Take, At, Go
  <2>6. ASSUME NEW m \in Mission, Mark(m)
        PROVE  CopiesInv'
    BY <2>6 DEF Mark, At, Ingested, Go
  <2>7. ASSUME NEW m \in Mission, Drop(m)
        PROVE  CopiesInv'
    <3>1. CASE /\ quarantine' = [quarantine EXCEPT ![m] = Part(quarantine[m])]
               /\ UNCHANGED control
      BY <2>0, <2>7, <3>1, PartsKeepVersions DEF Drop, At, control
    <3>2. CASE /\ quarantine' = [quarantine EXCEPT ![m] = NoTree]
               /\ Go("mark") \/ Ingested(m)
      BY <2>0, <2>7, <3>2, PartsKeepVersions DEF Drop, At, Ingested, Go
    <3>3. QED
      BY <2>7, <3>1, <3>2 DEF Drop
  <2>8. ASSUME NEW m \in Mission, Purge(m)
        PROVE  CopiesInv'
    <3>1. /\ \A q \in Mission \ {m} : pending'[q] = pending[q]
          /\ pending'[m] \in {NoTree, Part(pending[m])}
      BY <2>0, <2>8 DEF Purge
    <3>2. /\ UNCHANGED quarantine
          /\ pc' \in {"purge", "complete"}
      BY <2>8 DEF Purge, At, Go, control
    <3>3. CopiesAgree'
      <4> SUFFICES ASSUME NEW q \in Mission
                   PROVE  (pending[q] = NoTree \/ quarantine[q] = NoTree
                             \/ pending[q].of = quarantine[q].of)'
        OBVIOUS
      <4>1. CASE q # m
        BY <3>1, <3>2, <4>1
      <4>2. CASE q = m /\ pending'[m] = Part(pending[m])
        BY <2>0, <3>2, <4>2, PartsKeepVersions
      <4>3. QED
        BY <3>1, <4>1, <4>2
    <3>4. QED
      BY <3>2, <3>3
  <2>9. ASSUME \/ \E m \in Mission : Arrive(m) \/ Withdraw(m)
               \/ \E n \in Name : TakeOutput(n) \/ PlantOutput(n)
               \/ UNCHANGED vars
        PROVE  CopiesInv'
    <3>1. UNCHANGED <<pending, quarantine, pc, job>>
      BY <2>9 DEF Arrive, Withdraw, TakeOutput, PlantOutput, vars, files, copies, control
    <3>2. QED
      BY <3>1
  <2>10. CASE Resume
    BY <2>10 DEF Resume, Start, FirstStep, Rows, Active, files, copies
  <2>11. CASE Retry
    BY <2>11, <2>1 DEF Retry, Start, files, copies
  <2>12. CASE Claim \/ Register \/ RefreshWaiting
    BY <2>12, <2>1 DEF Claim, Register, RefreshWaiting, Start, Go, Rest, files, copies
  <2>13. CASE Crash
    BY <2>13, <2>1 DEF Crash, Rest, files, copies
  <2>14. ASSUME NEW m \in Mission, Fail(m)
         PROVE  CopiesInv'
    BY <2>14, <2>1 DEF Fail, PassOver, Go, Rest, copies
  <2>15. ASSUME NEW m \in Mission,
                \/ Accept(m) \/ Stage(m) \/ Staged(m) \/ Publish(m) \/ Rename(m) \/ Published(m)
                \/ Verify(m) \/ Complete(m)
         PROVE  CopiesInv'
    <3>1. /\ UNCHANGED <<pending, quarantine>>
          /\ pc' \notin {"copy", "take", "mark", "drop"}
      BY <2>15
      DEF Accept, Stage, Staged, Publish, Rename, Published, Verify, Complete, At, Go, Rest,
          files, copies, control
    <3>2. QED
      BY <3>1, <2>1
  <2>16. QED
    BY <2>2, <2>3, <2>4, <2>5, <2>6, <2>7, <2>8, <2>9, <2>10, <2>11, <2>12, <2>13, <2>14, <2>15
    DEF Next, Job
<1>3. QED
  BY <1>1, <1>2, TypesFit, PTL DEF Spec

(* What is in the staging of a mission is its own, and only a product of a *)
(* mission describes a version of a source.                                *)
Attributed(p) == p.by = 0 => p.of = 0

ProductsInv ==
    /\ \A n \in Name : Attributed(output[n])
    /\ \A m \in Mission : Attributed(staging[m]) /\ staging[m].by \in {0, m}

LEMMA ProductsAttributed ==
    /\ Attributed(NoProduct) /\ NoProduct.by = 0
    /\ Attributed(Foreign) /\ Foreign.by = 0
    /\ \A m \in Mission : LET made == Made(m)
                              begun == [made EXCEPT !.whole = FALSE]
                          IN  /\ Attributed(made) /\ made.by = m
                              /\ Attributed(begun) /\ begun.by = m
BY MissionAssumption DEF Attributed, NoProduct, Foreign, Made

LEMMA ProductsHold == Spec => []ProductsInv
<1>1. Init => ProductsInv
  BY ProductsAttributed DEF Init, ProductsInv
<1>2. TypeInv /\ ProductsInv /\ [Next]_vars => ProductsInv'
  <2> SUFFICES ASSUME TypeInv, ProductsInv, [Next]_vars
               PROVE  ProductsInv'
    OBVIOUS
  <2>0. staging \in [Mission -> Product] /\ output \in [Name -> Product]
    BY DEF TypeInv, TypeOK
  <2>1. ASSUME NEW m \in Mission, UNCHANGED output,
               \A q \in Mission \ {m} : staging'[q] = staging[q],
               \/ staging'[m] \in {staging[m], NoProduct, Made(m)}
               \/ staging'[m] = [Made(m) EXCEPT !.whole = FALSE]
        PROVE  ProductsInv'
    <3>1. Attributed(staging'[m]) /\ staging'[m].by \in {0, m}
      BY <2>1, ProductsAttributed DEF ProductsInv
    <3>2. \A q \in Mission : Attributed(staging'[q]) /\ staging'[q].by \in {0, q}
      BY <2>1, <3>1 DEF ProductsInv
    <3>3. QED
      BY <2>1, <3>2 DEF ProductsInv
  <2>2. ASSUME NEW m \in Mission, Stage(m) \/ Staged(m) \/ Purge(m) \/ Fail(m)
        PROVE  ProductsInv'
    <3>1. UNCHANGED output
      BY <2>2 DEF Stage, Staged, Purge, Fail
    <3>2. \A q \in Mission \ {m} : staging'[q] = staging[q]
      BY <2>0, <2>2 DEF Stage, Staged, Purge, Fail, PassOver
    <3>3. \/ staging'[m] \in {staging[m], NoProduct, Made(m)}
          \/ staging'[m] = [Made(m) EXCEPT !.whole = FALSE]
      BY <2>0, <2>2 DEF Stage, Staged, Purge, Fail, PassOver
    <3>4. QED
      BY <2>1, <3>1, <3>2, <3>3
  <2>3. ASSUME NEW m \in Mission, Rename(m)
        PROVE  ProductsInv'
    BY <2>0, <2>3, ProductsAttributed DEF Rename, ProductsInv
  <2>4. ASSUME NEW n \in Name, TakeOutput(n) \/ PlantOutput(n)
        PROVE  ProductsInv'
    BY <2>0, <2>4, ProductsAttributed DEF TakeOutput, PlantOutput, ProductsInv
  <2>5. ASSUME UNCHANGED <<staging, output>>
        PROVE  ProductsInv'
    BY <2>5 DEF ProductsInv
  <2>6. QED
    BY <2>2, <2>3, <2>4, <2>5
    DEF Next, Job, Resume, Retry, RefreshWaiting, Claim, Register, Adopt, Isolate, Copy, Take,
        Mark, Drop, Accept, Publish, Published, Verify, Complete, Crash, Arrive, Withdraw, files, vars
<1>3. QED
  BY <1>1, <1>2, TypesFit, PTL DEF Spec

(* From the recorded manifest to the end of the cleanup: what has the name *)
(* of the mission is its own or nobody's, its row describes what is still  *)
(* pending, and the pending source goes only beside its complete product.  *)
Publishing == {"publishing", "cleanup_pending"}

NamesAreOurs ==
    /\ \A m \in Rows(Publishing) : output[row[m].key].by \in {0, m}
    /\ pc = "staged" => output[Actual[job]].by \in {0, job}

Recorded == \A m \in Rows(Publishing) : pending[m].whole => row[m].of = pending[m].of

Verified ==
    pc = "purge" /\ pending[job].whole /\ pending[job].of # 0
      => output[row[job].key] = [of |-> pending[job].of, by |-> job, whole |-> TRUE]

PublicationInv == NamesAreOurs /\ Recorded /\ Verified

(* A step that leaves the outputs alone, brings no row to its publication  *)
(* and touches what is pending for none that is there.                     *)
LEMMA ClaimsStand ==
    ASSUME PublicationInv, UNCHANGED output, pc' \notin {"staged", "purge"},
           \A m \in Mission : row'[m].status \in Publishing =>
              /\ row[m].status \in Publishing
              /\ row'[m].key = row[m].key /\ row'[m].of = row[m].of
              /\ pending'[m] = pending[m]
    PROVE  PublicationInv'
BY DEF PublicationInv, NamesAreOurs, Recorded, Verified, Rows

LEMMA OneRowLeaves ==
    ASSUME PublicationInv, UNCHANGED <<output, pending>>, pc' \notin {"staged", "purge"},
           NEW m \in Mission, \A q \in Mission \ {m} : row'[q] = row[q],
           row'[m].status \notin Publishing
    PROVE  PublicationInv'
<1>1. \A q \in Mission : row'[q].status \in Publishing =>
              /\ row[q].status \in Publishing
              /\ row'[q].key = row[q].key /\ row'[q].of = row[q].of
              /\ pending'[q] = pending[q]
  OBVIOUS
<1>2. QED
  BY <1>1, ClaimsStand

LEMMA PublicationsHold == Spec => []PublicationInv
<1>1. Init => PublicationInv
  BY DEF Init, PublicationInv, NamesAreOurs, Recorded, Verified, Rows, Publishing
<1>2. TypeInv /\ NamesAreReserved /\ ProductsInv /\ PublicationInv /\ [Next]_vars
        => PublicationInv'
  <2> SUFFICES ASSUME TypeInv, NamesAreReserved, ProductsInv, PublicationInv, [Next]_vars
               PROVE  PublicationInv'
    OBVIOUS
  <2>0. /\ row \in [Mission -> Row] /\ pending \in [Mission -> Tree]
        /\ output \in [Name -> Product] /\ staging \in [Mission -> Product]
        /\ JobFits /\ Actual \in [Mission -> Name]
    BY MissionAssumption DEF TypeInv, TypeOK
  <2>1. ASSUME UNCHANGED <<row, output, pending>>, pc' \notin {"staged", "purge"}
        PROVE  PublicationInv'
    BY <2>1, ClaimsStand
  <2>2. CASE Resume
    BY <2>1, <2>2 DEF Resume, Start, FirstStep, Rows, Active, files, copies
  <2>3. CASE Retry \/ Crash
    BY <2>1, <2>3 DEF Retry, Crash, Start, Rest, files, copies
  <2>4. CASE RefreshWaiting
    <3>1. UNCHANGED <<output, pending>> /\ pc' \in {"claim", "idle"}
      BY <2>4 DEF RefreshWaiting, Go, Rest, files, copies
    <3>2. ASSUME NEW m \in Rows({"waiting_stable"}), row' = [row EXCEPT ![m] = Refreshed(m)]
          PROVE  PublicationInv'
      <4>1. row'[m].status \notin Publishing
        BY <2>0, <3>2 DEF Rows, Refreshed, Row, Publishing
      <4>2. QED
        BY <2>0, <3>1, <3>2, <4>1, OneRowLeaves DEF Rows
    <3>3. QED
      BY <2>1, <2>4, <3>1, <3>2 DEF RefreshWaiting
  <2>5. CASE Claim
    <3>1. UNCHANGED <<output, pending>> /\ pc' \in {"register", "ingest"}
      BY <2>5 DEF Claim, Go, Start, files, copies
    <3>2. ASSUME NEW m \in Mission, Becomes(m, "moving")
          PROVE  PublicationInv'
      <4>1. row'[m].status \notin Publishing /\ \A q \in Mission \ {m} : row'[q] = row[q]
        BY <2>0, <3>2 DEF Becomes, Row, Publishing
      <4>2. QED
        BY <3>1, <4>1, OneRowLeaves
    <3>3. QED
      BY <2>1, <2>5, <3>1, <3>2 DEF Claim, First, Rows
  <2>6. CASE Register
    <3>1. UNCHANGED <<output, pending>> /\ pc' = "idle"
      BY <2>6 DEF Register, Rest, files, copies
    <3>2. ASSUME NEW m \in Mission, NEW s \in {"failed", "waiting_stable"},
                 row' = [row EXCEPT ![m].stamp = source[m], ![m].status = s]
          PROVE  PublicationInv'
      <4>1. row'[m].status \notin Publishing /\ \A q \in Mission \ {m} : row'[q] = row[q]
        BY <2>0, <3>2 DEF Row, Publishing
      <4>2. QED
        BY <3>1, <4>1, OneRowLeaves
    <3>3. QED
      BY <2>1, <2>6, <3>1, <3>2 DEF Register, First, Unregistered, Rows
  <2>7. ASSUME NEW m \in Mission,
               Adopt(m) \/ Isolate(m) \/ Copy(m) \/ Mark(m) \/ Drop(m) \/ Publish(m)
        PROVE  PublicationInv'
    <3>1. UNCHANGED <<row, output, pending>> /\ pc' \notin {"staged", "purge"}
      BY <2>7 DEF Adopt, Isolate, Copy, Mark, Drop, Publish, Ingested, At, Go, files, copies,
             control
    <3>2. QED
      BY <3>1, <2>1
  <2>8. ASSUME NEW m \in Mission, Take(m)
        PROVE  PublicationInv'
    <3>1. UNCHANGED <<row, output>> /\ pc' = "mark" /\ row[m].status \notin Publishing
      BY <2>0, <2>8 DEF Take, At, Go, JobFits, Steps, StatusFits, Ingesting, Publishing
    <3>2. \A q \in Mission \ {m} : pending'[q] = pending[q]
      BY <2>0, <2>8 DEF Take
    <3>3. QED
      BY <3>1, <3>2, ClaimsStand
  <2>9. ASSUME NEW m \in Mission, Accept(m) \/ Complete(m)
        PROVE  PublicationInv'
    <3>1. UNCHANGED <<output, pending>> /\ pc' \in {"ingest", "idle"}
      BY <2>9 DEF Accept, Complete, Go, Rest, files, copies
    <3>2. row'[m].status \notin Publishing /\ \A q \in Mission \ {m} : row'[q] = row[q]
      BY <2>0, <2>9 DEF Accept, Complete, Becomes, Row, Publishing
    <3>3. QED
      BY <3>1, <3>2, OneRowLeaves
  <2>10. ASSUME NEW m \in Mission, Stage(m)
         PROVE  PublicationInv'
    <3>1. /\ UNCHANGED <<row, output, pending>> /\ pc' = "staged" /\ job' = m
          /\ output[Actual[m]] = NoProduct
      BY <2>10 DEF Stage, At, Go, Free, copies
    <3>2. QED
      BY <3>1, ProductsAttributed DEF PublicationInv, NamesAreOurs, Recorded, Verified, Rows
  <2>11. ASSUME NEW m \in Mission, Staged(m)
         PROVE  PublicationInv'
    <3>1. UNCHANGED <<output, pending>> /\ pc = "staged" /\ job = m
      BY <2>11 DEF Staged, At, copies
    <3>2. CASE ~staging[m].whole
      BY <2>11, <3>1, <3>2
      DEF Staged, control, PublicationInv, NamesAreOurs, Recorded, Verified, Rows
    <3>3. CASE staging[m].whole
      <4>1. /\ row'[m].key = Actual[m] /\ row'[m].of = pending[m].of
            /\ \A q \in Mission \ {m} : row'[q] = row[q]
            /\ pc' = "publish"
        BY <2>0, <2>11, <3>3 DEF Staged, Go, Row
      <4>2. output[Actual[m]].by \in {0, m}
        BY <3>1 DEF PublicationInv, NamesAreOurs
      <4>3. NamesAreOurs'
        BY <3>1, <4>1, <4>2 DEF PublicationInv, NamesAreOurs, Rows
      <4>4. Recorded' /\ Verified'
        BY <3>1, <4>1 DEF PublicationInv, Recorded, Verified, Rows
      <4>5. QED
        BY <4>3, <4>4 DEF PublicationInv
    <3>4. QED
      BY <3>2, <3>3
  <2>12. ASSUME NEW m \in Mission, Rename(m)
         PROVE  PublicationInv'
    <3>1. UNCHANGED <<row, pending>> /\ pc' = "published" /\ row[m].status = "publishing"
      BY <2>0, <2>12 DEF Rename, At, Go, copies, JobFits, Steps, StatusFits
    <3>2. output' = [output EXCEPT ![row[m].key] = staging[m]]
      BY <2>12 DEF Rename
    <3>3. row[m].key \in Name /\ output'[row[m].key].by \in {0, m}
      BY <2>0, <3>2 DEF ProductsInv, Row
    <3>4. ASSUME NEW q \in Rows(Publishing), q # m
          PROVE  output'[row[q].key] = output[row[q].key]
      <4>1. /\ q \in Rows(Statuses \ {"none", "failed"})
            /\ m \in Rows(Statuses \ {"none", "failed"})
        BY <3>1, <3>4 DEF Rows, Publishing, Statuses, Active
      <4>2. row[q].key # row[m].key /\ row[q].key \in Name
        BY <2>0, <3>4, <4>1 DEF NamesAreReserved, Rows, Row
      <4>3. QED
        BY <2>0, <3>2, <4>2
    <3>5. NamesAreOurs'
      BY <3>1, <3>3, <3>4 DEF PublicationInv, NamesAreOurs, Rows
    <3>6. Recorded' /\ Verified'
      BY <3>1 DEF PublicationInv, Recorded, Verified, Rows
    <3>7. QED
      BY <3>5, <3>6 DEF PublicationInv
  <2>13. ASSUME NEW m \in Mission, Published(m)
         PROVE  PublicationInv'
    <3>1. UNCHANGED <<output, pending>> /\ pc' = "verify" /\ row[m].status = "publishing"
      BY <2>0, <2>13 DEF Published, At, Go, files, copies, JobFits, Steps, StatusFits
    <3>2. /\ row'[m].key = row[m].key /\ row'[m].of = row[m].of
          /\ \A q \in Mission \ {m} : row'[q] = row[q]
      BY <2>0, <2>13 DEF Published, Becomes, Row
    <3>3. QED
      BY <3>1, <3>2, ClaimsStand DEF Publishing
  <2>14. ASSUME NEW m \in Mission, Verify(m)
         PROVE  PublicationInv'
    <3>1. /\ UNCHANGED <<row, output, pending>> /\ pc' = "purge" /\ job' = m
          /\ Expected(m, output[row[m].key]) /\ row[m].status = "cleanup_pending"
          /\ row[m].key \in Name
      BY <2>0, <2>14
      DEF Verify, At, Go, files, copies, JobFits, Steps, StatusFits, Row
    <3>2. m \in Rows(Publishing)
      BY <3>1 DEF Rows, Publishing
    <3>3. ASSUME pending[m].whole, pending[m].of # 0
          PROVE  output[row[m].key] = [of |-> pending[m].of, by |-> m, whole |-> TRUE]
      <4>1. row[m].of = pending[m].of
        BY <3>2, <3>3 DEF PublicationInv, Recorded
      <4>2. output[row[m].key].by = m
        BY <3>1, <3>2, <3>3, <4>1
        DEF PublicationInv, NamesAreOurs, Expected, ProductsInv, Attributed
      <4>3. output[row[m].key] \in Product
        BY <2>0, <3>1
      <4>4. QED
        BY <3>1, <4>1, <4>2, <4>3 DEF Expected, Product
    <3>4. QED
      BY <3>1, <3>3 DEF PublicationInv, NamesAreOurs, Recorded, Verified, Rows
  <2>15. ASSUME NEW m \in Mission, Purge(m)
         PROVE  PublicationInv'
    <3>1. /\ UNCHANGED <<row, output>> /\ pc = "purge" /\ job = m /\ job' = m
          /\ pc' \in {"purge", "complete"}
      BY <2>15 DEF Purge, At, Go, control
    <3>2. \A q \in Mission \ {m} : pending'[q] = pending[q]
      BY <2>0, <2>15 DEF Purge
    <3>3. ~pending'[m].whole
      BY <2>0, <2>15, PartsKeepVersions DEF Purge
    <3>4. QED
      BY <3>1, <3>2, <3>3 DEF PublicationInv, NamesAreOurs, Recorded, Verified, Rows
  <2>16. ASSUME NEW m \in Mission, Fail(m)
         PROVE  PublicationInv'
    <3>1. UNCHANGED <<output, pending>> /\ pc' \in {"retry", "idle"}
      BY <2>16 DEF Fail, PassOver, Go, Rest, copies
    <3>2. ASSUME Becomes(m, "failed")
          PROVE  PublicationInv'
      <4>1. row'[m].status \notin Publishing /\ \A q \in Mission \ {m} : row'[q] = row[q]
        BY <2>0, <3>2 DEF Becomes, Row, Publishing
      <4>2. QED
        BY <3>1, <4>1, OneRowLeaves
    <3>3. QED
      BY <2>1, <2>16, <3>1, <3>2 DEF Fail, PassOver
  <2>17. ASSUME NEW n \in Name, TakeOutput(n) \/ PlantOutput(n)
         PROVE  PublicationInv'
    <3>1. /\ UNCHANGED <<row, pending, pc, job>>
          /\ output' \in {[output EXCEPT ![n] = NoProduct], [output EXCEPT ![n] = Foreign]}
      BY <2>17 DEF TakeOutput, PlantOutput, copies, control
    <3>2. \A k \in Name : output'[k] = output[k] \/ output'[k].by = 0
      BY <2>0, <3>1, ProductsAttributed
    <3>3. \A m \in Mission : row[m].key \in Name /\ Actual[m] \in Name
      BY <2>0 DEF Row
    <3>4. pc = "staged" => job \in Mission
      BY <2>0 DEF JobFits, Steps
    <3>5. NamesAreOurs' /\ Recorded'
      BY <3>1, <3>2, <3>3, <3>4 DEF PublicationInv, NamesAreOurs, Recorded, Rows
    <3>6. ASSUME pc = "purge", pending[job].whole, pending[job].of # 0
          PROVE  output'[row[job].key] = output[row[job].key]
      <4>1. job \in Mission /\ output[row[job].key].whole
        BY <2>0, <3>6 DEF JobFits, Steps, PublicationInv, Verified
      <4>2. row[job].key # n
        BY <2>17, <3>6, <4>1 DEF TakeOutput, PlantOutput, Free, NoProduct
      <4>3. QED
        BY <2>0, <3>1, <3>3, <4>1, <4>2
    <3>7. Verified'
      BY <3>1, <3>6 DEF PublicationInv, Verified
    <3>8. QED
      BY <3>5, <3>7 DEF PublicationInv
  <2>18. ASSUME (\E m \in Mission : Arrive(m) \/ Withdraw(m)) \/ UNCHANGED vars
         PROVE  PublicationInv'
    <3>1. UNCHANGED <<row, output, pending, pc, job>>
      BY <2>18 DEF Arrive, Withdraw, vars, files, copies, control
    <3>2. QED
      BY <3>1 DEF PublicationInv, NamesAreOurs, Recorded, Verified, Rows
  <2>19. QED
    BY <2>2, <2>3, <2>4, <2>5, <2>6, <2>7, <2>8, <2>9, <2>10, <2>11, <2>12, <2>13, <2>14,
       <2>15, <2>16, <2>17, <2>18
    DEF Next, Job
<1>3. QED
  BY <1>1, <1>2, TypesFit, NamesStayDistinct, ProductsHold, PTL DEF Spec

(***************************************************************************)
(* The job never destroys the last whole copy of a source unless its       *)
(* complete product is there: the quarantine goes when a copy of the same  *)
(* version is pending, the pending source when the output was verified,    *)
(* whatever failed, crashed, was replaced, taken or planted in between,    *)
(* for any missions, names and versions.                                   *)
(***************************************************************************)
THEOREM SourcesAreKept == Spec => SourcesSurvive
<1> DEFINE Survives ==
      \A m \in Mission : \A v \in Held(m) \ Held(m)' :
         \/ source' # source /\ quarantine' = quarantine
         \/ \E n \in Name : output[n] = [of |-> v, by |-> m, whole |-> TRUE]
<1>1. TypeInv /\ CopiesInv /\ PublicationInv /\ [Next]_vars => Survives
  <2> SUFFICES ASSUME TypeInv, CopiesInv, PublicationInv, [Next]_vars
               PROVE  Survives
    OBVIOUS
  <2>0. /\ row \in [Mission -> Row] /\ JobFits
        /\ source \in [Mission -> Version] /\ quarantine \in [Mission -> Tree]
        /\ part \in [Mission -> Tree] /\ pending \in [Mission -> Tree]
    BY DEF TypeInv, TypeOK
  <2>1. ASSUME UNCHANGED <<source, quarantine, pending>>
        PROVE  Survives
    BY <2>1 DEF Held
  <2>2. ASSUME NEW m \in Mission, Isolate(m)
        PROVE  Survives
    <3>1. CASE UNCHANGED <<source, quarantine>>
      BY <2>1, <2>2, <3>1 DEF Isolate
    <3>2. CASE /\ quarantine[m] = NoTree
               /\ quarantine' = [quarantine EXCEPT ![m] = [of |-> source[m], whole |-> TRUE]]
               /\ source' = [source EXCEPT ![m] = 0]
      <4>1. UNCHANGED pending
        BY <2>2 DEF Isolate
      <4>2. Held(m) \subseteq Held(m)'
        BY <2>0, <3>2, <4>1, PartsKeepVersions DEF Held
      <4>3. \A q \in Mission \ {m} : Held(q) = Held(q)'
        BY <2>0, <3>2, <4>1 DEF Held
      <4>4. QED
        BY <4>2, <4>3
    <3>3. QED
      BY <2>2, <3>1, <3>2 DEF Isolate
  <2>3. ASSUME NEW m \in Mission, Take(m)
        PROVE  Survives
    <3>1. /\ UNCHANGED <<source, quarantine>>
          /\ \A q \in Mission \ {m} : pending'[q] = pending[q]
      BY <2>0, <2>3 DEF Take
    <3>2. pending[m] = NoTree
      BY <2>3 DEF Take, At, CopiesInv, CopiedFirst
    <3>3. \A q \in Mission : Held(q) \subseteq Held(q)'
      BY <3>1, <3>2, PartsKeepVersions DEF Held
    <3>4. QED
      BY <3>3
  <2>4. ASSUME NEW m \in Mission, Drop(m)
        PROVE  Survives
    <3>1. /\ UNCHANGED <<source, pending>>
          /\ \A q \in Mission \ {m} : quarantine'[q] = quarantine[q]
      BY <2>0, <2>4 DEF Drop
    <3>2. quarantine[m].whole => pending[m].whole /\ pending[m].of = quarantine[m].of
      BY <2>4 DEF Drop, At, CopiesInv, CopiedFirst
    <3>3. \A q \in Mission : Held(q) \subseteq Held(q)'
      BY <3>1, <3>2 DEF Held
    <3>4. QED
      BY <3>3
  <2>5. ASSUME NEW m \in Mission, Purge(m)
        PROVE  Survives
    <3>1. /\ UNCHANGED <<source, quarantine>> /\ pc = "purge" /\ job = m
          /\ \A q \in Mission \ {m} : pending'[q] = pending[q]
      BY <2>0, <2>5 DEF Purge, At
    <3>2. row[m].key \in Name
      BY <2>0 DEF Row
    <3>3. ASSUME NEW v \in Held(m) \ Held(m)'
          PROVE  output[row[m].key] = [of |-> v, by |-> m, whole |-> TRUE]
      <4>1. pending[m].whole /\ pending[m].of = v /\ v # 0
        BY <3>1, <3>3 DEF Held
      <4>2. QED
        BY <3>1, <4>1 DEF PublicationInv, Verified
    <3>4. \A q \in Mission \ {m} : Held(q) = Held(q)'
      BY <3>1 DEF Held
    <3>5. QED
      BY <3>2, <3>3, <3>4
  <2>6. ASSUME NEW m \in Mission, Arrive(m) \/ Withdraw(m)
        PROVE  Survives
    <3>1. UNCHANGED <<quarantine, pending>>
      BY <2>6 DEF Arrive, Withdraw, copies
    <3>2. QED
      BY <2>1, <3>1
  <2>7. QED
    BY <2>1, <2>2, <2>3, <2>4, <2>5, <2>6
    DEF Next, Job, Resume, Retry, RefreshWaiting, Claim, Register, Adopt, Copy, Mark, Accept,
        Stage, Staged, Publish, Rename, Published, Verify, Complete, Fail, Crash, TakeOutput,
        PlantOutput, copies, files, vars
<1>2. TypeInv /\ CopiesInv /\ PublicationInv /\ [Next]_vars => [Survives]_vars
  BY <1>1
<1>3. QED
  BY <1>2, TypesFit, CopiesHold, PublicationsHold, PTL DEF Spec, SourcesSurvive
=============================================================================
