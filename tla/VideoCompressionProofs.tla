------------------------ MODULE VideoCompressionProofs ------------------------
(***************************************************************************)
(* The video missions, for any number of them and any sequence of crashes, *)
(* failures and deeds of users: the job only takes the steps of its route, *)
(* outputs are left alone, what the lineage says of a publication is true, *)
(* and a source is only removed for it.                                    *)
(***************************************************************************)
EXTENDS VideoCompression, TLAPS, WellFoundedInduction

(***************************************************************************)
(* The steps a run of the job may be at, by the route it has taken.        *)
(***************************************************************************)
StepsOf(r) ==
    CASE r = "new" -> {"begin", "prepare", "encode", "stage", "copy", "validate", "publish",
                       "record", "mark", "recheck", "discard", "unlink", "clean", "complete"}
      [] r = "cleanup" -> {"verify", "confirm", "discard", "unlink", "clean", "complete"}
      [] r = "gone" -> {"verify", "confirm", "clean", "discard", "complete"}
      [] r = "validating" -> {"verify", "publish", "settle", "discard"}
      [] r = "processing" -> {"verify", "record", "mark", "discard", "judge"}
      [] OTHER -> {}

OnRoute == pc \in Steps => route \in DOMAIN Path /\ pc \in StepsOf(route)

TypeInv == TypeOK /\ OnRoute

LEMMA PathDomain == DOMAIN Path = {"new", "cleanup", "gone", "validating", "processing"}
BY DEF Path

LEMMA RouteSteps == \A r \in DOMAIN Path : StepsOf(r) \subseteq Steps
BY PathDomain DEF StepsOf, Steps

(* Which step comes next, on each route.                                   *)
LEMMA NextStep ==
    ASSUME OnRoute, Advance, pc \in Steps, pc \notin {"complete", "judge", "prepare"},
           pc = "discard" => Path[route].discard # "idle"
    PROVE  /\ route' = route /\ job' = job /\ scope' = scope
           /\ pc' \in StepsOf(route) /\ pc' \in Steps
           /\ pc' = CASE pc = "begin" -> "prepare"
                      [] pc = "encode" -> "stage"
                      [] pc \in {"stage", "copy"} -> "validate"
                      [] pc = "validate" -> "publish"
                      [] pc = "publish" -> (IF route = "new" THEN "record" ELSE "settle")
                      [] pc = "record" -> "mark"
                      [] pc = "mark" -> (IF route = "new" THEN "recheck" ELSE "discard")
                      [] pc \in {"recheck", "settle"} -> "discard"
                      [] pc = "verify" -> (IF route = "validating" THEN "settle"
                                           ELSE IF route = "processing" THEN "record" ELSE "confirm")
                      [] pc = "confirm" -> (IF route = "cleanup" THEN "discard" ELSE "clean")
                      [] pc = "discard" -> (IF route = "gone" THEN "complete" ELSE "unlink")
                      [] pc = "unlink" -> "clean"
                      [] pc = "clean" -> (IF route = "gone" THEN "discard" ELSE "complete")
<1>0. pc \in StepsOf(route) /\ route \in DOMAIN Path /\ pc' = Path[route][pc]
      /\ route' = route /\ job' = job /\ scope' = scope
  BY DEF OnRoute, Advance
<1>1. CASE route = "new"
  BY <1>0, <1>1 DEF Path, StepsOf, Steps
<1>2. CASE route = "cleanup"
  BY <1>0, <1>2 DEF Path, StepsOf, Steps
<1>3. CASE route = "gone"
  BY <1>0, <1>3 DEF Path, StepsOf, Steps
<1>4. CASE route = "validating"
  BY <1>0, <1>4 DEF Path, StepsOf, Steps
<1>5. CASE route = "processing"
  BY <1>0, <1>5 DEF Path, StepsOf, Steps
<1>6. QED
  BY <1>0, <1>1, <1>2, <1>3, <1>4, <1>5, PathDomain

(* The recoveries of a publication end with what they discard.             *)
LEMMA LastDiscard ==
    \A r \in DOMAIN Path : Path[r].discard = "idle" <=> r \in {"validating", "processing"}
BY PathDomain DEF Path

(* The oldest of some missions is one of them.                             *)
LEMMA FirstIsOne ==
    ASSUME NEW S \in SUBSET Mission, S # {}
    PROVE  First(S) \in S
<1> DEFINE R == OpToRel(<, Nat)
<1>1. S \subseteq Nat
  BY MissionAssumption
<1>2. IsWellFoundedOn(R, Nat)
  BY NatLessThanWellFounded
<1>3. \A x, y \in Nat : x < y => <<x, y>> \in R
  BY DEF OpToRel
<1> HIDE DEF R
<1>4. PICK x \in S : \A y \in S : ~ (<<y, x>> \in R)
  BY <1>1, <1>2, WFMin
<1>5. \A y \in S : x <= y
  <2> TAKE y \in S
  <2>1. x \in Nat /\ y \in Nat
    BY <1>1
  <2>2. ~ (y < x)
    BY <1>3, <1>4, <2>1, Zenon
  <2>3. QED
    BY <2>1, <2>2
<1>6. QED
  BY <1>5 DEF First

LEMMA ProductTypes ==
    /\ NoFile \in Product /\ Foreign \in Product
    /\ \A p \in Product : [p EXCEPT !.whole = TRUE] \in Product
    /\ \A v \in Version, a \in 0 .. MaxAttempt : [of |-> v, by |-> a, whole |-> FALSE] \in Product
<1>1. 0 \in Version /\ 0 \in 0 .. MaxAttempt
  BY BoundAssumption DEF Version
<1>2. QED
  BY <1>1 DEF NoFile, Foreign, Product

LEMMA BecomesType ==
    ASSUME TypeOK, NEW m \in Mission, NEW status \in Statuses, Becomes(m, status)
    PROVE  row' \in [Mission -> Row]
<1>1. [row[m] EXCEPT !.status = status] \in Row
  BY DEF TypeOK, Row
<1>2. QED
  BY <1>1 DEF TypeOK, Becomes

LEMMA RefreshedType ==
    ASSUME TypeOK, NEW m \in Mission
    PROVE  Refreshed(m) \in Row
<1>1. row[m] \in Row /\ source[m] \in Version /\ revision \in 0 .. MaxRevision
  BY BoundAssumption DEF TypeOK
<1>2. Waiting(m) \in Row
  BY <1>1 DEF Row, Waiting, Statuses
<1>3. /\ [Waiting(m) EXCEPT !.revision = revision] \in Row
      /\ [Waiting(m) EXCEPT !.revision = revision, !.claimed = FALSE] \in Row
      /\ [row[m] EXCEPT !.status = "ready"] \in Row
  BY <1>1, <1>2 DEF Row, Statuses
<1>4. QED
  BY <1>1, <1>2, <1>3 DEF Refreshed

(***************************************************************************)
(* The variables keep their types, and the job only takes steps that its   *)
(* route has.                                                              *)
(***************************************************************************)
PcOK == /\ pc \in Steps \cup {"idle", "claim"}
        /\ pc \in Steps => route \in DOMAIN Path /\ job \in Mission /\ pc \in StepsOf(route)
        /\ scope \in 0 .. MaxRevision

RowOK == row \in [Mission -> Row]

FilesOK ==
    /\ source \in [Mission -> Version] /\ latest \in [Mission -> Version]
    /\ staging \in [Mission -> Product] /\ work \in [Mission -> Product]
    /\ output \in [Mission -> Product]

LEMMA TypeParts ==
    TypeInv <=> /\ RowOK /\ FilesOK /\ PcOK /\ op \in [Mission -> Operation]
                /\ revision \in 1 .. MaxRevision /\ crashes \in 0 .. MaxCrash
BY DEF TypeInv, TypeOK, OnRoute, RowOK, FilesOK, PcOK

LEMMA PartsAfter ==
    ASSUME RowOK', FilesOK', PcOK', (op \in [Mission -> Operation])',
           (revision \in 1 .. MaxRevision)', (crashes \in 0 .. MaxCrash)'
    PROVE  TypeInv'
BY DEF TypeInv, TypeOK, OnRoute, RowOK, FilesOK, PcOK

(* Where the job is after it rested, began a run, or took its next step.   *)
LEMMA RestOK ==
    ASSUME Rest
    PROVE  PcOK'
<1>1. 0 \in 0 .. MaxRevision
  BY BoundAssumption
<1>2. QED
  BY <1>1 DEF Rest, PcOK, Steps

LEMMA EnterOK ==
    ASSUME TypeInv, NEW m \in Mission, NEW r \in DOMAIN Path, NEW s \in StepsOf(r), Enter(s, r, m)
    PROVE  PcOK'
<1>1. revision \in 0 .. MaxRevision
  BY BoundAssumption DEF TypeInv, TypeOK
<1>2. QED
  BY <1>1, RouteSteps DEF Enter, PcOK

LEMMA AdvanceOK ==
    ASSUME TypeInv, Advance, pc \in Steps, pc \notin {"complete", "judge", "prepare"},
           pc = "discard" => Path[route].discard # "idle"
    PROVE  PcOK'
<1>1. pc' \in StepsOf(route) /\ pc' \in Steps /\ UNCHANGED <<route, job, scope>>
  BY NextStep DEF TypeInv
<1>2. QED
  BY <1>1 DEF TypeInv, TypeOK, OnRoute, PcOK

LEMMA TypeStep == TypeInv /\ [Next]_vars => TypeInv'
<1> SUFFICES ASSUME TypeInv, [Next]_vars
             PROVE  TypeInv'
  OBVIOUS
<1>t. /\ RowOK /\ FilesOK /\ PcOK /\ op \in [Mission -> Operation]
      /\ revision \in 1 .. MaxRevision /\ crashes \in 0 .. MaxCrash /\ TypeOK
  BY TypeParts DEF TypeInv
<1>r. UNCHANGED row => RowOK'
  BY <1>t DEF RowOK
<1>f. UNCHANGED <<source, latest, staging, work, output>> => FilesOK'
  BY <1>t DEF FilesOK
<1>b. ASSUME NEW m \in Mission, NEW status \in Statuses, Becomes(m, status)
      PROVE  RowOK'
  BY <1>t, <1>b, BecomesType DEF RowOK
<1>o. UNCHANGED <<op, revision, crashes>> =>
        /\ (op \in [Mission -> Operation])'
        /\ (revision \in 1 .. MaxRevision)' /\ (crashes \in 0 .. MaxCrash)'
  BY <1>t
<1>1. CASE FinishCleanup
  <2>1. PICK m \in Mission : Enter("verify", "cleanup", m)
    BY <1>1, FirstIsOne DEF FinishCleanup, Found
  <2>2. PcOK'
    BY <2>1, EnterOK, PathDomain DEF StepsOf
  <2>3. QED
    BY <1>1, <1>r, <1>f, <1>o, <2>2, PartsAfter DEF FinishCleanup, files
<1>2. CASE RecoverValidating \/ RecoverProcessing
  <2>1. PICK m \in Mission :
          \/ SourceGone(m)
          \/ Unowned(m)
          \/ Requeue(m)
          \/ /\ \E r \in {"validating", "processing"} :
                 \E s \in {"publish", "verify", "judge"} \cap StepsOf(r) : Enter(s, r, m)
             /\ UNCHANGED <<row, files>>
    <3>1. CASE RecoverValidating
      BY <1>2, <3>1, FirstIsOne DEF RecoverValidating, Found, StepsOf
    <3>2. CASE RecoverProcessing
      BY <1>2, <3>2, FirstIsOne DEF RecoverProcessing, Found, StepsOf
    <3>3. QED
      BY <1>2, <3>1, <3>2
  <2>2. UNCHANGED <<latest, op, revision, crashes>>
    BY <1>2 DEF RecoverValidating, RecoverProcessing
  <2>3. CASE SourceGone(m)
    <3>1. FilesOK'
      BY <1>f, <2>2, <2>3 DEF SourceGone, files
    <3>2. RowOK'
      BY <1>b, <1>r, <2>3 DEF SourceGone, Statuses
    <3>3. PcOK'
      BY <2>3, RestOK, EnterOK, PathDomain DEF SourceGone, StepsOf
    <3>4. QED
      BY <1>o, <2>2, <3>1, <3>2, <3>3, PartsAfter
  <2>4. CASE Unowned(m)
    <3>1. FilesOK'
      BY <1>f, <2>2, <2>4 DEF Unowned, files
    <3>2. RowOK'
      BY <1>b, <2>4 DEF Unowned, Statuses
    <3>3. QED
      BY <1>o, <2>2, <2>4, <3>1, <3>2, RestOK, PartsAfter DEF Unowned
  <2>5. CASE Requeue(m)
    <3>1. FilesOK'
      BY <1>t, <2>2, <2>5, ProductTypes DEF FilesOK, Requeue
    <3>2. RowOK'
      BY <1>b, <2>5 DEF Requeue, Statuses
    <3>3. QED
      BY <1>o, <2>2, <2>5, <3>1, <3>2, RestOK, PartsAfter DEF Requeue
  <2>6. ASSUME NEW r \in {"validating", "processing"}, NEW s \in StepsOf(r), Enter(s, r, m),
               UNCHANGED <<row, files>>
        PROVE  TypeInv'
    <3>1. PcOK'
      BY <2>6, EnterOK, PathDomain
    <3>2. QED
      BY <1>f, <1>o, <1>r, <2>2, <2>6, <3>1, PartsAfter DEF files
  <2>7. QED
    BY <2>1, <2>3, <2>4, <2>5, <2>6
<1>3. CASE Refresh
  <2>1. RowOK'
    BY <1>3, <1>t, RefreshedType DEF Refresh, RowOK
  <2>2. PcOK'
    BY <1>3, <1>t, BoundAssumption DEF Refresh, Enter, PcOK, Steps
  <2>3. QED
    BY <1>3, <1>f, <1>o, <2>1, <2>2, PartsAfter DEF Refresh, files
<1>4. CASE Claim
  <2>1. UNCHANGED <<files, latest, op, revision, crashes>>
    BY <1>4 DEF Claim
  <2>2. RowOK' /\ PcOK'
    <3>1. CASE Rest /\ UNCHANGED row
      BY <1>r, <3>1, RestOK
    <3>2. ASSUME NEW m \in Claimable, Becomes(m, "failed"), Rest
          PROVE  RowOK' /\ PcOK'
      BY <1>b, <3>2, RestOK DEF Claimable, Statuses
    <3>3. ASSUME NEW m \in Claimable,
                 row' = [row EXCEPT ![m].status = "processing", ![m].attempts = @ + 1,
                                    ![m].claimed = TRUE],
                 pc' = "begin" /\ route' = "new" /\ job' = m, UNCHANGED scope
          PROVE  RowOK' /\ PcOK'
      <4>1. m \in Mission /\ row[m] \in Row /\ row[m].attempts + 1 \in 0 .. MaxAttempt
        BY <1>t, BoundAssumption DEF Claimable, RowOK, Row
      <4>2. [row[m] EXCEPT !.status = "processing", !.attempts = row[m].attempts + 1,
                           !.claimed = TRUE] \in Row
        BY <4>1 DEF Row, Statuses
      <4>3. row' = [row EXCEPT ![m] = [row[m] EXCEPT !.status = "processing",
                        !.attempts = row[m].attempts + 1, !.claimed = TRUE]]
        BY <1>t, <3>3, <4>1 DEF RowOK, Row
      <4>4. RowOK'
        BY <1>t, <4>1, <4>2, <4>3 DEF RowOK
      <4>5. PcOK'
        BY <1>t, <3>3, <4>1, PathDomain DEF PcOK, StepsOf, Steps
      <4>6. QED
        BY <4>4, <4>5
    <3>4. QED
      BY <1>4, <3>1, <3>2, <3>3, FirstIsOne DEF Claim, Claimable
  <2>3. QED
    BY <1>f, <1>o, <2>1, <2>2, PartsAfter DEF files
<1>5. ASSUME NEW m \in Mission, Judge(m)
      PROVE  TypeInv'
  <2>1. RowOK'
    BY <1>5, <1>b DEF Judge, Statuses
  <2>2. FilesOK'
    BY <1>5, <1>t, ProductTypes DEF Judge, FilesOK
  <2>3. QED
    BY <1>5, <1>o, <2>1, <2>2, RestOK, PartsAfter DEF Judge
<1>6. ASSUME NEW m \in Mission, Begin(m)
      PROVE  TypeInv'
  <2>1. /\ pc = "begin" /\ job = m /\ Advance /\ UNCHANGED <<row, files, latest, revision, crashes>>
        /\ op' = IF Lineage /\ ~Registered(m)
                 THEN [op EXCEPT ![m] = [gen |-> row[m].attempts, phase |-> 1,
                                         of |-> source[m], product |-> NoFile]]
                 ELSE op
    BY <1>6 DEF Begin, At
  <2>2. [gen |-> row[m].attempts, phase |-> 1, of |-> source[m], product |-> NoFile] \in Operation
    BY <1>t, ProductTypes DEF Operation, RowOK, Row, FilesOK
  <2>3. op' \in [Mission -> Operation]
    BY <1>t, <2>1, <2>2
  <2>4. PcOK'
    BY <2>1, AdvanceOK DEF Steps
  <2>5. QED
    BY <1>f, <1>r, <1>t, <2>1, <2>3, <2>4, PartsAfter DEF files
<1>7. ASSUME NEW m \in Mission, Prepare(m)
      PROVE  TypeInv'
  <2> DEFINE part == [of |-> source[m], by |-> row[m].attempts, whole |-> FALSE]
  <2>1. /\ pc = "prepare" /\ job = m /\ pc' \in {"encode", "copy"} /\ UNCHANGED <<route, job, scope>>
        /\ UNCHANGED <<row, source, output, latest, op, revision, crashes>>
        /\ work' \in {work, [work EXCEPT ![m] = part]}
        /\ staging' \in {staging, [staging EXCEPT ![m] = part]}
    BY <1>7 DEF Prepare, At
  <2>2. part \in Product
    BY <1>t, ProductTypes DEF RowOK, Row, FilesOK
  <2> HIDE DEF part
  <2>3. FilesOK'
    BY <1>t, <2>1, <2>2 DEF FilesOK
  <2>4. route = "new"
    BY <1>t, <2>1, PathDomain DEF PcOK, StepsOf, Steps
  <2>5. PcOK'
    BY <1>t, <2>1, <2>4, PathDomain DEF PcOK, StepsOf, Steps
  <2>6. QED
    BY <1>o, <1>r, <2>1, <2>3, <2>5, PartsAfter
<1>8. ASSUME NEW m \in Mission, Encode(m) \/ FinishCopy(m)
      PROVE  TypeInv'
  <2>1. /\ pc \in {"encode", "stage", "copy"} /\ Advance
        /\ UNCHANGED <<row, source, output, latest, op, revision, crashes>>
    BY <1>8 DEF Encode, FinishCopy, At
  <2>2. FilesOK'
    BY <1>8, <1>t, ProductTypes DEF Encode, FinishCopy, FilesOK
  <2>3. PcOK'
    BY <2>1, AdvanceOK DEF Steps
  <2>4. QED
    BY <1>o, <1>r, <2>1, <2>2, <2>3, PartsAfter
<1>9. ASSUME NEW m \in Mission, SaveValidating(m) \/ SaveCleanup(m) \/ Verify(m)
      PROVE  TypeInv'
  <2>1. /\ pc \in {"validate", "mark", "verify"} /\ Advance
        /\ UNCHANGED <<files, latest, op, revision, crashes>>
    BY <1>9 DEF SaveValidating, SaveCleanup, Verify, At
  <2>2. RowOK'
    BY <1>9, <1>b, <1>r DEF SaveValidating, SaveCleanup, Verify, Statuses
  <2>3. PcOK'
    BY <2>1, AdvanceOK DEF Steps
  <2>4. QED
    BY <1>f, <1>o, <2>1, <2>2, <2>3, PartsAfter DEF files
<1>10. ASSUME NEW m \in Mission, Publish(m) \/ RemoveSource(m)
       PROVE  TypeInv'
  <2>1. /\ pc \in {"publish", "unlink"} /\ Advance
        /\ UNCHANGED <<row, staging, work, latest, op, revision, crashes>>
    BY <1>10 DEF Publish, RemoveSource, At
  <2>2. FilesOK'
    BY <1>10, <1>t, BoundAssumption DEF Publish, RemoveSource, FilesOK, Version
  <2>3. PcOK'
    BY <2>1, AdvanceOK DEF Steps
  <2>4. QED
    BY <1>o, <1>r, <2>1, <2>2, <2>3, PartsAfter
<1>11. ASSUME NEW m \in Mission, RecordPublished(m) \/ RecordCleaned(m)
       PROVE  TypeInv'
  <2>1. /\ pc \in {"record", "recheck", "confirm", "settle", "clean"} /\ Advance
        /\ UNCHANGED <<files, latest, revision, crashes>>
    BY <1>11 DEF RecordPublished, RecordCleaned, At
  <2>2. RowOK'
    BY <1>11, <1>b, <1>r DEF RecordPublished, RecordCleaned, Statuses
  <2>3. Publication(m) \in Operation /\ [op[m] EXCEPT !.phase = 4] \in Operation
    BY <1>t DEF Publication, Operation, FilesOK
  <2>4. op' \in [Mission -> Operation]
    BY <1>11, <1>t, <2>3 DEF RecordPublished, RecordCleaned
  <2>5. PcOK'
    BY <2>1, AdvanceOK DEF Steps
  <2>6. QED
    BY <1>f, <1>t, <2>1, <2>2, <2>4, <2>5, PartsAfter DEF files
<1>12. ASSUME NEW m \in Mission, Discard(m)
       PROVE  TypeInv'
  <2>1. /\ pc = "discard" /\ UNCHANGED <<row, source, output, latest, op, revision, crashes>>
        /\ IF Path[route].discard = "idle" THEN Rest ELSE Advance
    BY <1>12 DEF Discard, At
  <2>2. FilesOK'
    BY <1>12, <1>t, ProductTypes DEF Discard, FilesOK
  <2>3. PcOK'
    BY <2>1, RestOK, AdvanceOK DEF Steps
  <2>4. QED
    BY <1>o, <1>r, <2>1, <2>2, <2>3, PartsAfter
<1>13. ASSUME NEW m \in Mission, Complete(m)
       PROVE  TypeInv'
  <2>1. [row[m] EXCEPT !.status = "completed", !.claimed = TRUE] \in Row
    BY <1>t DEF RowOK, Row, Statuses
  <2>2. RowOK'
    BY <1>13, <1>t, <2>1 DEF Complete, RowOK
  <2>3. QED
    BY <1>13, <1>f, <1>o, <2>2, RestOK, PartsAfter DEF Complete, files
<1>14. ASSUME NEW m \in Mission, Fail(m)
       PROVE  TypeInv'
  <2>1. RowOK'
    BY <1>14, <1>b DEF Fail, Statuses
  <2>2. FilesOK'
    BY <1>14, <1>t, ProductTypes DEF Fail, FilesOK
  <2>3. QED
    BY <1>14, <1>o, <2>1, <2>2, RestOK, PartsAfter DEF Fail
<1>15. CASE Crash
  <2>1. crashes' \in 0 .. MaxCrash
    BY <1>15, <1>t, BoundAssumption DEF Crash
  <2>2. QED
    BY <1>15, <1>f, <1>r, <1>t, <2>1, RestOK, PartsAfter DEF Crash, files
<1>16. CASE Reconfigure
  <2>1. revision' \in 1 .. MaxRevision
    BY <1>16, <1>t, BoundAssumption DEF Reconfigure
  <2>2. PcOK'
    BY <1>16, <1>t DEF Reconfigure, control, PcOK
  <2>3. QED
    BY <1>16, <1>f, <1>r, <1>t, <2>1, <2>2, PartsAfter DEF Reconfigure, files
<1>17. ASSUME NEW m \in Mission, Arrive(m) \/ Withdraw(m) \/ TakeOutput(m) \/ PlantOutput(m)
       PROVE  TypeInv'
  <2>1. UNCHANGED <<row, op, control, revision, crashes>>
    BY <1>17 DEF Arrive, Withdraw, TakeOutput, PlantOutput
  <2>2. FilesOK'
    <3>1. latest[m] < MaxVersion => latest[m] + 1 \in Version
      BY <1>t, BoundAssumption DEF FilesOK, Version
    <3>2. 0 \in Version
      BY BoundAssumption DEF Version
    <3>3. QED
      BY <1>17, <1>t, <3>1, <3>2, ProductTypes DEF Arrive, Withdraw, TakeOutput, PlantOutput, FilesOK
  <2>3. PcOK'
    BY <1>t, <2>1 DEF control, PcOK
  <2>4. QED
    BY <1>o, <1>r, <2>1, <2>2, <2>3, PartsAfter
<1>18. ASSUME NEW m \in Mission, ResetFailed(m)
       PROVE  TypeInv'
  <2>1. RowOK'
    BY <1>18, <1>b DEF ResetFailed, Statuses
  <2>2. PcOK'
    BY <1>18, <1>t DEF ResetFailed, control, PcOK
  <2>3. QED
    BY <1>18, <1>f, <1>o, <2>1, <2>2, PartsAfter DEF ResetFailed, files
<1>19. CASE UNCHANGED vars
  <2>1. PcOK'
    BY <1>19, <1>t DEF vars, control, PcOK
  <2>2. QED
    BY <1>19, <1>f, <1>o, <1>r, <2>1, PartsAfter DEF vars, files
<1>20. QED
  BY <1>1, <1>2, <1>3, <1>4, <1>5, <1>6, <1>7, <1>8, <1>9, <1>10, <1>11, <1>12, <1>13,
     <1>14, <1>15, <1>16, <1>17, <1>18, <1>19 DEF Next, Job, Environment

LEMMA TypeStart == Init => TypeInv
<1> SUFFICES ASSUME Init
             PROVE  TypeInv
  OBVIOUS
<1>1. 0 \in Version /\ 0 \in 0 .. MaxAttempt /\ 0 \in 0 .. MaxRevision
      /\ 1 \in 1 .. MaxRevision /\ 0 \in 0 .. MaxCrash
  BY BoundAssumption DEF Version
<1>2. NoOp \in Operation
  BY <1>1, ProductTypes DEF NoOp, Operation
<1>3. QED
  BY <1>1, <1>2, ProductTypes DEF Init, TypeInv, TypeOK, OnRoute, Row, Statuses, Steps

(* Rows, files, operations and the job keep their types, and the job only  *)
(* takes steps of its route, whatever users do and however it crashes.     *)
THEOREM TypeCorrect == Spec => []TypeOK
<1>1. TypeInv /\ [Next]_vars => TypeInv'
  BY TypeStep
<1>2. TypeInv => TypeOK
  BY DEF TypeInv
<1>3. QED
  BY <1>1, <1>2, TypeStart, PTL DEF Spec

(***************************************************************************)
(* Where the products of a mission come from.  A file of the mission's own *)
(* was made by an attempt that had begun, of a version that had arrived;   *)
(* when it is of the registered attempt it was read after registration,    *)
(* so from a version that is no older.                                     *)
(***************************************************************************)
Origin(m, p) ==
    /\ p.by <= row[m].attempts
    /\ p.of <= latest[m]
    /\ op[m].phase > 0 /\ p.by = op[m].gen => op[m].of <= p.of

Own(p) == p = NoFile \/ p.by > 0

Origins(m) ==
    /\ source[m] \in {0, latest[m]}
    /\ Origin(m, work[m]) /\ Origin(m, staging[m]) /\ Origin(m, output[m])
    /\ Own(work[m]) /\ Own(staging[m])
    /\ op[m].phase > 0 => /\ 0 < op[m].gen /\ op[m].gen <= row[m].attempts
                          /\ 0 < op[m].of /\ op[m].of <= latest[m]
    /\ op[m].phase = 0 => op[m] = NoOp

(* What has been published and recorded of the current attempt.            *)
Recorded(m) == Registered(m) /\ op[m].phase >= 3

(***************************************************************************)
(* What the running job has established when it is at a step.              *)
(***************************************************************************)
Established(m) ==
    /\ row[m].status = "cleanup_pending" => Recorded(m)
    /\ pc \in Steps /\ job = m =>
        /\ route = "new" => row[m].attempts > 0
        /\ pc = "begin" => /\ op[m].gen < row[m].attempts
                           /\ \A p \in {work[m], staging[m], output[m]} : p.by < row[m].attempts
        /\ pc = "encode" => work[m].by > 0
        /\ pc \in {"stage", "copy"} => staging[m].by > 0
        /\ pc = "verify" /\ route \in {"processing", "validating"} => staging[m] # NoFile
        /\ pc \in {"record", "settle"} => output[m].whole /\ output[m].by > 0
        /\ pc \in {"mark", "recheck"} => Recorded(m)
        /\ pc \in {"verify", "confirm"} /\ route = "cleanup" => Recorded(m)
        /\ pc \in {"verify", "confirm"} /\ route = "gone" => source[m] \notin {op[m].of} \ {0}
        /\ pc \in {"discard", "unlink", "clean", "complete"} /\ route \in {"new", "cleanup", "gone"} =>
            Recorded(m) /\ output[m] = op[m].product
        /\ pc \in {"discard", "unlink"} /\ route \in {"new", "cleanup"} => source[m] \in {0, op[m].of}

(* What LineageIsTrue says of one mission.                                 *)
PublishedRight(m) ==
    op[m].phase >= 3 =>
        /\ op[m].product.whole /\ op[m].product.by > 0
        /\ op[m].product.by = op[m].gen => op[m].product.of = op[m].of

MissionInv(m) == PublishedRight(m) /\ Origins(m) /\ Established(m)

LineageInv == \A m \in Mission : MissionInv(m)

(***************************************************************************)
(* A mission the job is not at, or leaves: files are lost at most, and an  *)
(* attempt may be counted.                                                 *)
(***************************************************************************)
LEMMA Quiet ==
    ASSUME TypeInv, TypeInv', NEW m \in Mission, MissionInv(m),
           pc' \notin Steps \/ job' # m,
           op'[m] = op[m], latest'[m] = latest[m], source'[m] = source[m], output'[m] = output[m],
           work'[m] \in {work[m], NoFile}, staging'[m] \in {staging[m], NoFile},
           row'[m].attempts >= row[m].attempts,
           row'[m].status = "cleanup_pending" =>
                row[m].status = "cleanup_pending" /\ row'[m].attempts = row[m].attempts
    PROVE  MissionInv(m)'
<1>t. /\ row[m].attempts \in Nat /\ row'[m].attempts \in Nat /\ op[m].gen \in Nat /\ op[m].of \in Nat
      /\ latest[m] \in Nat /\ op[m].phase \in {0, 1, 3, 4}
      /\ \A p \in {work[m], staging[m], output[m], NoFile} : p.by \in Nat /\ p.of \in Nat
  BY BoundAssumption DEF TypeInv, TypeOK, Row, Operation, Version, Product, NoFile
<1>1. PublishedRight(m)'
  BY DEF MissionInv, PublishedRight
<1>2. Origin(m, NoFile) /\ Own(NoFile)
  BY <1>t DEF MissionInv, Origins, Origin, Own, NoFile
<1>3. \A p \in {work[m], staging[m], output[m], NoFile} : Origin(m, p) => Origin(m, p)'
  BY <1>t DEF Origin
<1>4. Origins(m)'
  BY <1>t, <1>2, <1>3 DEF MissionInv, Origins, Origin, Own
<1>5. Established(m)'
  BY DEF MissionInv, Established, Recorded, Registered
<1>6. QED
  BY <1>1, <1>4, <1>5 DEF MissionInv

Untouched(m) ==
    \A n \in Mission \ {m} :
        /\ row'[n] = row[n] /\ op'[n] = op[n] /\ latest'[n] = latest[n] /\ source'[n] = source[n]
        /\ output'[n] = output[n] /\ work'[n] = work[n] /\ staging'[n] = staging[n]

LEMMA OthersKeep ==
    ASSUME TypeInv, TypeInv', LineageInv, NEW m \in Mission, Untouched(m),
           pc' \notin Steps \/ job' = m
    PROVE  \A n \in Mission \ {m} : MissionInv(n)'
<1> TAKE n \in Mission \ {m}
<1>1. row[n].attempts \in Nat
  BY BoundAssumption DEF TypeInv, TypeOK, Row
<1>2. row'[n].attempts >= row[n].attempts /\ row'[n].status = row[n].status
      /\ row'[n].attempts = row[n].attempts
  BY <1>1 DEF Untouched
<1>3. MissionInv(n) /\ (pc' \notin Steps \/ job' # n)
  BY DEF LineageInv
<1>4. QED
  BY <1>2, <1>3, Quiet DEF Untouched

LEMMA Numbers ==
    ASSUME TypeInv, NEW m \in Mission
    PROVE  /\ row[m].attempts \in Nat /\ op[m].gen \in Nat /\ op[m].of \in Nat
           /\ source[m] \in Nat /\ latest[m] \in Nat /\ op[m].phase \in {0, 1, 3, 4}
           /\ \A p \in {work[m], staging[m], output[m], NoFile, Foreign} :
                p.by \in Nat /\ p.of \in Nat /\ p.whole \in BOOLEAN
BY BoundAssumption DEF TypeInv, TypeOK, Row, Operation, Version, Product, NoFile, Foreign

(* The route tells the steps before, and a step the routes it is on.       *)
LEMMA StepRoutes ==
    ASSUME TypeInv, pc \in Steps
    PROVE  /\ pc \in {"begin", "prepare", "encode", "stage", "copy", "validate", "recheck"} => route = "new"
           /\ pc = "publish" => route \in {"new", "validating"}
           /\ pc = "record" => route \in {"new", "processing"}
           /\ pc = "mark" => route \in {"new", "processing"}
           /\ pc = "settle" => route = "validating"
           /\ pc = "judge" => route = "processing"
           /\ pc = "confirm" => route \in {"cleanup", "gone"}
           /\ pc = "unlink" => route \in {"new", "cleanup"}
           /\ pc \in {"clean", "complete"} => route \in {"new", "cleanup", "gone"}
           /\ route \in {"new", "cleanup", "gone", "validating", "processing"}
BY PathDomain DEF TypeInv, OnRoute, StepsOf, Steps

LEMMA BeginKeeps ==
    ASSUME TypeInv, TypeInv', Lineage, NEW m \in Mission, MissionInv(m), Begin(m)
    PROVE  MissionInv(m)'
<1>1. /\ pc = "begin" /\ job = m /\ Advance /\ source[m] # 0
      /\ UNCHANGED <<row, source, staging, work, output, latest>>
  BY DEF Begin, At, Succeeds, files
<1>2. route = "new" /\ pc' = "prepare" /\ route' = route /\ job' = m /\ pc \in Steps
  BY <1>1, StepRoutes, NextStep DEF TypeInv, Steps
<1>3. /\ row[m].attempts > 0 /\ op[m].gen < row[m].attempts
      /\ \A p \in {work[m], staging[m], output[m]} : p.by < row[m].attempts
  BY <1>1, <1>2 DEF MissionInv, Established
<1>4. /\ op'[m].gen = row[m].attempts /\ op'[m].phase = 1 /\ op'[m].of = source[m]
  BY <1>1, <1>3, Numbers DEF Begin, Registered, TypeInv, TypeOK
<1>5. PublishedRight(m)'
  BY <1>4 DEF PublishedRight
<1>6. \A p \in {work[m], staging[m], output[m]} : Origin(m, p) => Origin(m, p)'
  BY <1>1, <1>3, <1>4, Numbers DEF Origin
<1>7. Origins(m)'
  BY <1>1, <1>3, <1>4, <1>6, Numbers DEF MissionInv, Origins, Own
<1>8. row[m].status # "cleanup_pending"
  BY <1>3, Numbers DEF MissionInv, Established, Recorded, Registered
<1>9. Established(m)'
  BY <1>1, <1>2, <1>3, <1>8 DEF Established
<1>10. QED
  BY <1>5, <1>7, <1>9 DEF MissionInv

LEMMA PrepareKeeps ==
    ASSUME TypeInv, TypeInv', NEW m \in Mission, MissionInv(m), Prepare(m)
    PROVE  MissionInv(m)'
<1> DEFINE part == [of |-> source[m], by |-> row[m].attempts, whole |-> FALSE]
<1>1. /\ pc = "prepare" /\ job = m /\ UNCHANGED <<route, job, row, source, output, latest, op>>
      /\ source[m] # 0
      /\ \/ work' = [work EXCEPT ![m] = part] /\ pc' = "encode" /\ UNCHANGED staging
         \/ staging' = [staging EXCEPT ![m] = part] /\ pc' = "copy" /\ UNCHANGED work
  BY DEF Prepare, At, Succeeds
<1>2. route = "new" /\ pc \in Steps
  BY <1>1, StepRoutes DEF Steps
<1>3. row[m].attempts > 0 /\ source[m] = latest[m]
  BY <1>1, <1>2 DEF MissionInv, Established, Origins
<1>4. /\ \/ work'[m] = part /\ staging'[m] = staging[m] /\ pc' = "encode"
         \/ staging'[m] = part /\ work'[m] = work[m] /\ pc' = "copy"
      /\ part.by = row[m].attempts /\ part.of = source[m]
  BY <1>1 DEF TypeInv, TypeOK
<1> HIDE DEF part
<1>5. Origin(m, part) /\ Own(part)
  BY <1>3, <1>4, Numbers DEF Origin, Own, MissionInv, Origins
<1>6. \A p : Origin(m, p) => Origin(m, p)'
  BY <1>1 DEF Origin
<1>7. Origins(m)'
  BY <1>1, <1>4, <1>5, <1>6 DEF MissionInv, Origins, Own
<1>8. PublishedRight(m)'
  BY <1>1 DEF MissionInv, PublishedRight
<1>9. Established(m)'
  BY <1>1, <1>2, <1>3, <1>4 DEF MissionInv, Established, Recorded, Registered
<1>10. QED
  BY <1>7, <1>8, <1>9 DEF MissionInv

LEMMA MakingKeeps ==
    ASSUME TypeInv, TypeInv', NEW m \in Mission, MissionInv(m), Encode(m) \/ FinishCopy(m)
    PROVE  MissionInv(m)'
<1>1. /\ pc \in {"encode", "stage", "copy"} /\ job = m /\ Advance
      /\ UNCHANGED <<row, source, output, latest, op>>
  BY DEF Encode, FinishCopy, At
<1>2. /\ route = "new" /\ route' = route /\ job' = m /\ pc \in Steps
      /\ pc' = (IF pc = "encode" THEN "stage" ELSE "validate")
  BY <1>1, StepRoutes, NextStep DEF TypeInv, Steps
<1>3. \A p \in {work[m], staging[m]} :
        [p EXCEPT !.whole = TRUE].of = p.of /\ [p EXCEPT !.whole = TRUE].by = p.by
  BY DEF TypeInv, TypeOK, Product
<1>4. \/ /\ pc = "encode" /\ work[m].by > 0
         /\ work'[m] = [work[m] EXCEPT !.whole = TRUE] /\ staging'[m] = work[m]
      \/ /\ pc # "encode" /\ staging[m].by > 0
         /\ staging'[m] = [staging[m] EXCEPT !.whole = TRUE] /\ work'[m] = NoFile
  BY <1>1, <1>2 DEF Encode, FinishCopy, At, MissionInv, Established, TypeInv, TypeOK
<1>5. \A p, q : Origin(m, p) /\ q.by = p.by /\ q.of = p.of => Origin(m, q)'
  BY <1>1 DEF Origin
<1>6. Origin(m, NoFile)'
  BY <1>1, Numbers DEF Origin, NoFile, MissionInv, Origins
<1>7. Origin(m, work[m])' /\ Origin(m, staging[m])' /\ Origin(m, output[m])'
  BY <1>1, <1>3, <1>4, <1>5, <1>6 DEF MissionInv, Origins
<1>8. Own(work[m])' /\ Own(staging[m])'
  BY <1>3, <1>4 DEF Own
<1>9. Origins(m)'
  BY <1>1, <1>7, <1>8 DEF MissionInv, Origins
<1>10. PublishedRight(m)'
  BY <1>1 DEF MissionInv, PublishedRight
<1>11. Established(m)'
  BY <1>1, <1>2, <1>4 DEF MissionInv, Established, Recorded, Registered
<1>12. QED
  BY <1>9, <1>10, <1>11 DEF MissionInv

(* A step that makes no file, or publishes.                                *)
LEMMA PublishKeeps ==
    ASSUME TypeInv, TypeInv', NEW m \in Mission, MissionInv(m), Publish(m)
    PROVE  MissionInv(m)'
<1>1. /\ pc = "publish" /\ job = m /\ Advance /\ staging[m].whole /\ output'[m] = staging[m]
      /\ UNCHANGED <<row, source, staging, work, latest, op>>
  BY DEF Publish, At, Succeeds, TypeInv, TypeOK
<1>2. /\ route' = route /\ job' = m /\ pc \in Steps /\ route \in {"new", "validating"}
      /\ pc' = (IF route = "new" THEN "record" ELSE "settle")
  BY <1>1, StepRoutes, NextStep DEF TypeInv, Steps
<1>3. staging[m].by > 0
  BY <1>1 DEF MissionInv, Origins, Own, NoFile
<1>4. Origins(m)'
  BY <1>1 DEF MissionInv, Origins, Origin, Own
<1>5. PublishedRight(m)'
  BY <1>1 DEF MissionInv, PublishedRight
<1>6. Established(m)'
  BY <1>1, <1>2, <1>3 DEF MissionInv, Established, Recorded, Registered
<1>7. QED
  BY <1>4, <1>5, <1>6 DEF MissionInv

LEMMA CommitsKeep ==
    ASSUME TypeInv, TypeInv', NEW m \in Mission, MissionInv(m),
           SaveValidating(m) \/ SaveCleanup(m) \/ Verify(m)
    PROVE  MissionInv(m)'
<1>1. /\ pc \in {"validate", "mark", "verify"} /\ job = m /\ Advance
      /\ UNCHANGED <<source, staging, work, output, latest, op>>
      /\ row'[m].attempts = row[m].attempts
      /\ \/ row'[m].status = row[m].status
         \/ pc = "validate" /\ row'[m].status = "validating"
         \/ pc = "mark" /\ row'[m].status = "cleanup_pending"
      /\ pc = "verify" => Verified(m)
  BY DEF SaveValidating, SaveCleanup, Verify, At, Becomes, Succeeds, files, TypeInv, TypeOK, Row
<1>2. /\ route' = route /\ job' = m /\ pc \in Steps
      /\ route \in {"new", "cleanup", "gone", "validating", "processing"}
      /\ pc = "validate" => route = "new"
      /\ pc = "mark" => route \in {"new", "processing"}
      /\ pc = "verify" => route # "new"
      /\ pc' = CASE pc = "validate" -> "publish"
                 [] pc = "mark" -> (IF route = "new" THEN "recheck" ELSE "discard")
                 [] pc = "verify" -> (IF route = "validating" THEN "settle"
                                      ELSE IF route = "processing" THEN "record" ELSE "confirm")
  <2>1. pc \in Steps
    BY <1>1 DEF Steps
  <2>2. pc = "verify" => route # "new"
    BY <2>1 DEF TypeInv, OnRoute, StepsOf
  <2>3. QED
    BY <1>1, <2>1, <2>2, StepRoutes, NextStep DEF TypeInv
<1>3. pc = "verify" /\ route \in {"processing", "validating"} => output[m].whole /\ output[m].by > 0
  BY <1>1, <1>2 DEF MissionInv, Established, Origins, Own, Verified
<1>4. Origins(m)'
  BY <1>1 DEF MissionInv, Origins, Origin, Own
<1>5. PublishedRight(m)'
  BY <1>1 DEF MissionInv, PublishedRight
<1>6. Recorded(m)' <=> Recorded(m)
  BY <1>1 DEF Recorded, Registered
<1>7. pc = "mark" => Recorded(m)
  BY <1>1, <1>2 DEF MissionInv, Established
<1>8. Established(m)'
  BY <1>1, <1>2, <1>3, <1>6, <1>7 DEF MissionInv, Established
<1>9. QED
  BY <1>4, <1>5, <1>8 DEF MissionInv

(***************************************************************************)
(* Publishing in the lineage: the source is the registered version, so no  *)
(* newer one has arrived, and an output of this attempt is of it.          *)
(***************************************************************************)
LEMMA RecordKeeps ==
    ASSUME TypeInv, TypeInv', Lineage, NEW m \in Mission, MissionInv(m), RecordPublished(m)
    PROVE  MissionInv(m)'
<1>1. /\ pc \in {"record", "recheck", "confirm", "settle"} /\ job = m /\ Advance
      /\ UNCHANGED <<source, staging, work, output, latest>>
      /\ Publishable(m, pc = "confirm")
      /\ op'[m] = Publication(m)
      /\ row'[m].attempts = row[m].attempts
      /\ row'[m].status = (IF pc = "settle" THEN "cleanup_pending" ELSE row[m].status)
  <2>1. /\ pc \in {"record", "recheck", "confirm", "settle"} /\ job = m /\ Advance
        /\ UNCHANGED <<files, latest>> /\ Succeeds(pc, m)
        /\ op' = [op EXCEPT ![m] = Publication(m)]
        /\ IF pc = "settle" THEN Becomes(m, "cleanup_pending") ELSE UNCHANGED row
    BY DEF RecordPublished
  <2>2. Publishable(m, pc = "confirm")
    <3>1. CASE pc = "confirm"
      BY <2>1, <3>1 DEF Succeeds
    <3>2. CASE pc # "confirm"
      <4>1. Publishable(m, FALSE)
        BY <2>1, <3>2 DEF Succeeds
      <4>2. QED
        BY <3>2, <4>1 DEF Publishable
    <3>3. QED
      BY <3>1, <3>2
  <2>3. op'[m] = Publication(m)
    BY <2>1 DEF TypeInv, TypeOK
  <2>4. /\ row'[m].attempts = row[m].attempts
        /\ row'[m].status = (IF pc = "settle" THEN "cleanup_pending" ELSE row[m].status)
    BY <2>1 DEF Becomes, TypeInv, TypeOK, Row
  <2>5. QED
    BY <2>1, <2>2, <2>3, <2>4 DEF files
<1>2. /\ route' = route /\ job' = m /\ pc \in Steps
      /\ pc = "record" => route \in {"new", "processing"} /\ pc' = "mark"
      /\ pc = "recheck" => route = "new" /\ pc' = "discard"
      /\ pc = "settle" => route = "validating" /\ pc' = "discard"
      /\ pc = "confirm" => \/ route = "cleanup" /\ pc' = "discard"
                           \/ route = "gone" /\ pc' = "clean"
  BY <1>1, StepRoutes, NextStep DEF TypeInv, Steps
<1>3. /\ Registered(m) /\ op[m].phase > 0 /\ op[m].gen = row[m].attempts
      /\ source[m] = op[m].of \/ (source[m] = 0 /\ pc = "confirm" /\ op[m].phase >= 3)
      /\ op[m].phase >= 3 => output[m] = op[m].product
      /\ 0 < op[m].of /\ op[m].of <= latest[m] /\ source[m] \in {0, latest[m]}
  BY <1>1 DEF Publishable, Registered, MissionInv, Origins
<1>4. CASE op[m].phase >= 3
  <2>1. op'[m] = op[m]
    BY <1>1, <1>4 DEF Publication
  <2>2. PublishedRight(m)'
    BY <2>1 DEF MissionInv, PublishedRight
  <2>3. Origins(m)'
    BY <1>1, <2>1 DEF MissionInv, Origins, Origin, Own
  <2>4. Recorded(m)'
    BY <1>1, <1>3, <1>4, <2>1 DEF Recorded, Registered
  <2>5. Established(m)'
    BY <1>1, <1>2, <1>3, <1>4, <2>1, <2>4 DEF MissionInv, Established
  <2>6. QED
    BY <2>2, <2>3, <2>5 DEF MissionInv
<1>5. CASE ~(op[m].phase >= 3)
  <2>1. pc \in {"record", "settle"}
    <3>1. ~Recorded(m)
      BY <1>5 DEF Recorded
    <3>2. pc # "recheck" /\ ~(pc = "confirm" /\ route = "cleanup")
      BY <1>1, <1>2, <3>1 DEF MissionInv, Established
    <3>3. ~(pc = "confirm" /\ route = "gone")
      BY <1>1, <1>2, <1>3, <1>5, Numbers DEF MissionInv, Established
    <3>4. QED
      BY <1>1, <1>2, <3>2, <3>3
  <2>2. output[m].whole /\ output[m].by > 0
    BY <1>1, <1>2, <2>1 DEF MissionInv, Established
  <2>3. /\ op'[m].phase = 3 /\ op'[m].product = output[m]
        /\ op'[m].gen = op[m].gen /\ op'[m].of = op[m].of
    BY <1>1, <1>5 DEF Publication, TypeInv, TypeOK, Operation
  <2>4. output[m].by = op[m].gen => output[m].of = op[m].of
    BY <1>3, <1>5, <2>1, Numbers DEF MissionInv, Origins, Origin
  <2>5. PublishedRight(m)'
    BY <2>2, <2>3, <2>4 DEF PublishedRight
  <2>6. \A p : Origin(m, p) => Origin(m, p)'
    BY <1>1, <1>3, <2>3 DEF Origin
  <2>7. Origins(m)'
    BY <1>1, <1>3, <2>3, <2>6 DEF MissionInv, Origins, Own
  <2>8. Recorded(m)'
    BY <1>1, <1>3, <2>3 DEF Recorded, Registered
  <2>9. Established(m)'
    BY <1>1, <1>2, <2>1, <2>8 DEF MissionInv, Established
  <2>10. QED
    BY <2>5, <2>7, <2>9 DEF MissionInv
<1>6. QED
  BY <1>4, <1>5

LEMMA CleanupKeeps ==
    ASSUME TypeInv, TypeInv', Lineage, NEW m \in Mission, MissionInv(m),
           RemoveSource(m) \/ RecordCleaned(m) \/ (Discard(m) /\ pc' # "idle")
    PROVE  MissionInv(m)'
<1>1. /\ pc \in {"unlink", "clean", "discard"} /\ job = m
      /\ pc = "discard" => Path[route].discard # "idle"
      /\ Advance /\ UNCHANGED <<row, output, latest>>
  BY DEF RemoveSource, RecordCleaned, Discard, At, Rest, files
<1>2. /\ route' = route /\ job' = m /\ pc \in Steps
      /\ route \in {"new", "cleanup", "gone"}
      /\ pc = "unlink" => route # "gone"
      /\ pc' = CASE pc = "unlink" -> "clean"
                 [] pc = "clean" -> (IF route = "gone" THEN "discard" ELSE "complete")
                 [] pc = "discard" -> (IF route = "gone" THEN "complete" ELSE "unlink")
  <2>1. pc \in Steps
    BY <1>1 DEF Steps
  <2>2. route \in DOMAIN Path
    BY <2>1 DEF TypeInv, OnRoute
  <2>3. QED
    BY <1>1, <2>1, <2>2, StepRoutes, NextStep, LastDiscard DEF TypeInv
<1>3. /\ Recorded(m) /\ output[m] = op[m].product
      /\ pc \in {"discard", "unlink"} /\ route # "gone" => source[m] \in {0, op[m].of}
  BY <1>1, <1>2 DEF MissionInv, Established
<1>4. /\ op'[m].gen = op[m].gen /\ op'[m].of = op[m].of /\ op'[m].product = op[m].product
      /\ op'[m].phase \in {op[m].phase, 4} /\ op'[m].phase >= 3
      /\ source'[m] \in {0, source[m]}
      /\ work'[m] \in {work[m], NoFile} /\ staging'[m] \in {staging[m], NoFile}
  BY <1>3, Numbers DEF RemoveSource, RecordCleaned, Discard, files, Recorded, TypeInv, TypeOK, Operation
<1>5. PublishedRight(m)'
  BY <1>3, <1>4 DEF MissionInv, PublishedRight, Recorded
<1>6. op[m].phase > 0 /\ op'[m].phase > 0
  BY <1>3, <1>4, Numbers DEF Recorded, Registered
<1>7. \A p : Origin(m, p) => Origin(m, p)'
  BY <1>1, <1>4, <1>6 DEF Origin
<1>8. Origin(m, NoFile) /\ Own(NoFile)
  BY <1>6, Numbers DEF MissionInv, Origins, Origin, Own, NoFile
<1>9. Origins(m)'
  BY <1>1, <1>4, <1>6, <1>7, <1>8 DEF MissionInv, Origins, Own
<1>10. Recorded(m)'
  BY <1>1, <1>3, <1>4, <1>6 DEF Recorded, Registered
<1>11. row'[m].attempts > 0 \/ route # "new"
  BY <1>1, <1>2 DEF MissionInv, Established
<1>12. source'[m] \in {0, op'[m].of} \/ pc' \notin {"discard", "unlink"} \/ route = "gone"
  BY <1>1, <1>2, <1>3, <1>4
<1>13. Established(m)'
  BY <1>1, <1>2, <1>3, <1>4, <1>10, <1>11, <1>12 DEF Established
<1>14. QED
  BY <1>5, <1>9, <1>13 DEF MissionInv

(* Whoever touches files and rows from outside, while the job is anywhere. *)
LEMMA UsersKeep ==
    ASSUME TypeInv, TypeInv', Careful, NEW m \in Mission, MissionInv(m),
           Arrive(m) \/ Withdraw(m) \/ TakeOutput(m) \/ PlantOutput(m)
    PROVE  MissionInv(m)'
<1>1. UNCHANGED <<row, staging, work, op, pc, route, job>>
  BY DEF Arrive, Withdraw, TakeOutput, PlantOutput, control
<1>2. PublishedRight(m)'
  BY <1>1 DEF MissionInv, PublishedRight
<1>3. Recorded(m)' <=> Recorded(m)
  BY <1>1 DEF Recorded, Registered
<1>4. \A p \in {NoFile, Foreign} : Origin(m, p) /\ (0 < row[m].attempts => p.by < row[m].attempts)
  BY Numbers DEF MissionInv, Origins, Origin, NoFile, Foreign
<1>5. CASE Arrive(m) \/ Withdraw(m)
  <2>1. /\ output' = output
        /\ \/ latest'[m] = latest[m] + 1 /\ source'[m] = latest[m] + 1
           \/ latest'[m] = latest[m] /\ source'[m] = 0
        /\ job = m => pc \notin {"discard", "unlink"}
    BY <1>5 DEF Arrive, Withdraw, SourceAtRisk, TypeInv, TypeOK
  <2>2. \A p \in {work[m], staging[m], output[m]} : Origin(m, p) => Origin(m, p)'
    BY <1>1, <2>1, Numbers DEF Origin
  <2>3. op[m].phase = 0 => op[m].of = 0
    BY DEF MissionInv, Origins, NoOp
  <2>4. source'[m] \notin {op[m].of} \ {0}
    BY <2>1, <2>3, Numbers DEF MissionInv, Origins
  <2>5. Origins(m)'
    BY <1>1, <2>1, <2>2, Numbers DEF MissionInv, Origins, Own
  <2>6. Established(m)'
    BY <1>1, <1>3, <2>1, <2>4 DEF MissionInv, Established
  <2>7. QED
    BY <1>2, <2>5, <2>6 DEF MissionInv
<1>6. CASE TakeOutput(m) \/ PlantOutput(m)
  <2>1. /\ UNCHANGED <<source, latest>>
        /\ output'[m] \in {NoFile, Foreign}
        /\ job = m => pc \notin {"record", "settle", "discard", "unlink", "clean", "complete"}
    BY <1>6 DEF TakeOutput, PlantOutput, OutputAtRisk, TypeInv, TypeOK
  <2>2. \A p \in {work[m], staging[m], NoFile, Foreign} : Origin(m, p) => Origin(m, p)'
    BY <1>1, <2>1 DEF Origin
  <2>3. Origins(m)'
    BY <1>1, <1>4, <2>1, <2>2 DEF MissionInv, Origins, Own
  <2>4. pc = "begin" /\ pc \in Steps /\ job = m => output'[m].by < row[m].attempts
    BY <1>4, <2>1, StepRoutes DEF MissionInv, Established
  <2>5. Established(m)'
    BY <1>1, <1>3, <2>1, <2>4 DEF MissionInv, Established
  <2>6. QED
    BY <1>2, <2>3, <2>5 DEF MissionInv
<1>7. QED
  BY <1>5, <1>6

LEMMA ClaimKeeps ==
    ASSUME TypeInv, TypeInv', NEW m \in Mission, MissionInv(m), UNCHANGED <<files, latest, op>>,
           pc' = "begin", route' = "new", job' = m, row'[m].status = "processing",
           row'[m].attempts = row[m].attempts + 1
    PROVE  MissionInv(m)'
<1>1. UNCHANGED <<source, staging, work, output, latest, op>>
  BY DEF files
<1>2. op[m].phase = 0 => op[m].gen = 0
  BY DEF MissionInv, Origins, NoOp
<1>3. \A p \in {work[m], staging[m], output[m]} :
        Origin(m, p) => Origin(m, p)' /\ p.by < row'[m].attempts
  BY <1>1, Numbers DEF Origin
<1>4. Origins(m)'
  BY <1>1, <1>3, Numbers DEF MissionInv, Origins, Own
<1>5. op[m].gen < row'[m].attempts /\ row'[m].attempts > 0
  BY <1>2, Numbers DEF MissionInv, Origins
<1>6. Established(m)'
  BY <1>1, <1>3, <1>5 DEF MissionInv, Origins, Established
<1>7. PublishedRight(m)'
  BY <1>1 DEF MissionInv, PublishedRight
<1>8. QED
  BY <1>4, <1>6, <1>7 DEF MissionInv

(* The recoveries look at what is there before they begin.                 *)
LEMMA EnterKeeps ==
    ASSUME TypeInv, TypeInv', NEW m \in Mission, MissionInv(m), UNCHANGED <<row, files, latest, op>>,
           NEW r, NEW s, Enter(s, r, m),
           \/ r = "cleanup" /\ s = "verify" /\ row[m].status = "cleanup_pending"
           \/ r = "gone" /\ s = "verify" /\ source[m] = 0
           \/ r \in {"validating", "processing"} /\ s \in {"publish", "verify", "judge"} /\ staging[m] # NoFile
    PROVE  MissionInv(m)'
<1>1. UNCHANGED <<row, source, staging, work, output, latest, op>>
  BY DEF files
<1>2. pc' = s /\ route' = r /\ job' = m
  BY DEF Enter
<1>3. Origins(m)'
  BY <1>1 DEF MissionInv, Origins, Origin, Own
<1>4. PublishedRight(m)'
  BY <1>1 DEF MissionInv, PublishedRight
<1>5. Recorded(m)' <=> Recorded(m)
  BY <1>1 DEF Recorded, Registered
<1>6. Established(m)'
  BY <1>1, <1>2, <1>5 DEF MissionInv, Established
<1>7. QED
  BY <1>3, <1>4, <1>6 DEF MissionInv

(* A run that comes to rest, and may have lost files or changed a status.  *)
LEMMA RestingKeeps ==
    ASSUME TypeInv, TypeInv', LineageInv, pc' \notin Steps, UNCHANGED <<op, latest, source, output>>,
           \A n \in Mission :
              /\ work'[n] \in {work[n], NoFile} /\ staging'[n] \in {staging[n], NoFile}
              /\ row'[n].attempts = row[n].attempts
              /\ row'[n].status = "cleanup_pending" => row[n].status = "cleanup_pending"
    PROVE  LineageInv'
<1> SUFFICES ASSUME NEW n \in Mission
             PROVE  MissionInv(n)'
  BY DEF LineageInv
<1>1. row'[n].attempts >= row[n].attempts
  BY Numbers
<1>2. QED
  BY <1>1, Quiet DEF LineageInv

LEMMA LineageStep ==
    ASSUME Lineage, Careful
    PROVE  TypeInv /\ TypeInv' /\ LineageInv /\ [Next]_vars => LineageInv'
<1> SUFFICES ASSUME TypeInv, TypeInv', LineageInv, [Next]_vars
             PROVE  LineageInv'
  OBVIOUS
<1>t. /\ row \in [Mission -> Row] /\ op \in [Mission -> Operation]
      /\ source \in [Mission -> Version] /\ latest \in [Mission -> Version]
      /\ staging \in [Mission -> Product] /\ work \in [Mission -> Product]
      /\ output \in [Mission -> Product]
  BY DEF TypeInv, TypeOK
<1>i. \A m \in Mission : MissionInv(m)
  BY DEF LineageInv
<1>o. ASSUME NEW m \in Mission, Untouched(m), pc' \notin Steps \/ job' = m, MissionInv(m)'
      PROVE  LineageInv'
  BY <1>o, OthersKeep DEF LineageInv
<1>b. ASSUME NEW m \in Mission, NEW st, Becomes(m, st)
      PROVE  /\ \A n \in Mission \ {m} : row'[n] = row[n]
             /\ \A n \in Mission : row'[n].attempts = row[n].attempts
             /\ row'[m].status = st
  BY <1>b, <1>t DEF Becomes, Row
<1>s. "idle" \notin Steps /\ "claim" \notin Steps
  BY DEF Steps
<1>a. ASSUME NEW m \in Mission, Advance, job = m
      PROVE  job' = m
  BY <1>a DEF Advance
<1>1. CASE FinishCleanup
  <2>1. PICK m \in Mission : Enter("verify", "cleanup", m) /\ row[m].status = "cleanup_pending"
    BY <1>1, FirstIsOne DEF FinishCleanup, Found
  <2>2. UNCHANGED <<row, files, latest, op>> /\ job' = m
    BY <1>1, <2>1 DEF FinishCleanup, Enter
  <2>3. MissionInv(m)'
    BY <1>i, <2>1, <2>2, EnterKeeps
  <2>4. QED
    BY <1>o, <2>2, <2>3 DEF Untouched, files
<1>2. CASE RecoverValidating \/ RecoverProcessing
  <2>1. PICK m \in Mission :
          \/ SourceGone(m)
          \/ Unowned(m)
          \/ Requeue(m)
          \/ /\ \E r \in {"validating", "processing"} :
                 \E s \in {"publish", "verify", "judge"} : Enter(s, r, m)
             /\ UNCHANGED <<row, files>> /\ staging[m] # NoFile
    <3>1. CASE RecoverValidating
      BY <1>2, <3>1, FirstIsOne DEF RecoverValidating, Found
    <3>2. CASE RecoverProcessing
      BY <1>2, <3>2, FirstIsOne DEF RecoverProcessing, Found
    <3>3. QED
      BY <1>2, <3>1, <3>2
  <2>2. UNCHANGED <<latest, op>>
    BY <1>2 DEF RecoverValidating, RecoverProcessing
  <2>3. CASE (SourceGone(m) /\ Becomes(m, "failed") /\ Rest) \/ Unowned(m) \/ Requeue(m)
    <3>1. \E st \in {"failed", "ready"} : Becomes(m, st)
      BY <2>3 DEF Unowned, Requeue
    <3>2. /\ pc' \notin Steps /\ UNCHANGED <<source, output>>
          /\ \A n \in Mission : work'[n] \in {work[n], NoFile} /\ staging'[n] \in {staging[n], NoFile}
      BY <1>s, <1>t, <2>3 DEF SourceGone, Unowned, Requeue, Rest, files
    <3>3. \A n \in Mission :
            /\ row'[n].attempts = row[n].attempts
            /\ row'[n].status = "cleanup_pending" => row[n].status = "cleanup_pending"
      BY <1>b, <3>1
    <3>4. QED
      BY <2>2, <3>2, <3>3, RestingKeeps
  <2>4. ASSUME NEW r, NEW s, Enter(s, r, m), UNCHANGED <<row, files>>,
               \/ r = "gone" /\ s = "verify" /\ source[m] = 0
               \/ r \in {"validating", "processing"} /\ s \in {"publish", "verify", "judge"} /\ staging[m] # NoFile
        PROVE  LineageInv'
    <3>1. job' = m
      BY <2>4 DEF Enter
    <3>2. MissionInv(m)'
      BY <1>i, <2>2, <2>4, EnterKeeps
    <3>3. QED
      BY <1>o, <2>2, <2>4, <3>1, <3>2 DEF Untouched, files
  <2>5. QED
    BY <2>1, <2>3, <2>4 DEF SourceGone
<1>3. CASE Refresh
  <2>1. ASSUME NEW n \in Mission
        PROVE  /\ row'[n].attempts = row[n].attempts
               /\ row'[n].status = "cleanup_pending" => row[n].status = "cleanup_pending"
    <3>1. row'[n] = Refreshed(n) /\ row[n] \in Row
      BY <1>3, <1>t DEF Refresh
    <3>2. QED
      BY <3>1 DEF Refreshed, Waiting, Row
  <2>2. pc' \notin Steps /\ UNCHANGED <<source, output, work, staging, latest, op>>
    BY <1>3, <1>s DEF Refresh, Enter, files
  <2>3. QED
    BY <2>1, <2>2, RestingKeeps
<1>4. CASE Claim
  <2>1. UNCHANGED <<files, latest, op>>
    BY <1>4 DEF Claim
  <2>2. CASE Rest /\ UNCHANGED row
    BY <1>s, <2>1, <2>2, RestingKeeps DEF Rest, files
  <2>3. ASSUME NEW m \in Claimable, Becomes(m, "failed"), Rest
        PROVE  LineageInv'
    <3>1. \A n \in Mission :
            /\ row'[n].attempts = row[n].attempts
            /\ row'[n].status = "cleanup_pending" => row[n].status = "cleanup_pending"
      BY <1>b, <2>3 DEF Claimable
    <3>2. QED
      BY <1>s, <2>1, <2>3, <3>1, RestingKeeps DEF Rest, files
  <2>4. ASSUME NEW m \in Claimable,
               row' = [row EXCEPT ![m].status = "processing", ![m].attempts = @ + 1,
                                  ![m].claimed = TRUE],
               pc' = "begin" /\ route' = "new" /\ job' = m
        PROVE  LineageInv'
    <3>1. m \in Mission /\ row'[m].status = "processing" /\ row'[m].attempts = row[m].attempts + 1
          /\ \A n \in Mission \ {m} : row'[n] = row[n]
      BY <1>t, <2>4 DEF Claimable, Row
    <3>2. MissionInv(m)'
      BY <1>i, <2>1, <2>4, <3>1, ClaimKeeps
    <3>3. QED
      BY <1>o, <2>1, <2>4, <3>1, <3>2 DEF Untouched, files
  <2>5. QED
    BY <1>4, <2>2, <2>3, <2>4, FirstIsOne DEF Claim, Claimable
<1>5. ASSUME NEW m \in Mission, Judge(m) \/ Complete(m) \/ Fail(m) \/ (Discard(m) /\ pc' = "idle")
      PROVE  LineageInv'
  <2>1. pc' \notin Steps
    BY <1>5, <1>s DEF Judge, Complete, Fail, Rest
  <2>2. /\ UNCHANGED <<op, latest, source, output>>
        /\ \A n \in Mission : work'[n] \in {work[n], NoFile} /\ staging'[n] \in {staging[n], NoFile}
    BY <1>5, <1>t DEF Judge, Complete, Fail, Discard, files
  <2>3. \A n \in Mission :
          /\ row'[n].attempts = row[n].attempts
          /\ row'[n].status = "cleanup_pending" => row[n].status = "cleanup_pending"
    <3>1. CASE Complete(m)
      BY <1>t, <3>1 DEF Complete, Row
    <3>2. CASE Discard(m)
      BY <3>2 DEF Discard
    <3>3. CASE Judge(m) \/ Fail(m)
      BY <1>b, <3>3 DEF Judge, Fail
    <3>4. QED
      BY <1>5, <3>1, <3>2, <3>3
  <2>4. QED
    BY <2>1, <2>2, <2>3, RestingKeeps
<1>6. ASSUME NEW m \in Mission, Begin(m)
      PROVE  LineageInv'
  <2>1. Untouched(m) /\ job' = m
    BY <1>6, <1>a, <1>t DEF Begin, At, Untouched, files
  <2>2. QED
    BY <1>6, <1>i, <1>o, <2>1, BeginKeeps
<1>7. ASSUME NEW m \in Mission, Prepare(m)
      PROVE  LineageInv'
  <2>1. Untouched(m) /\ job' = m
    BY <1>7, <1>t DEF Prepare, At, Untouched
  <2>2. QED
    BY <1>7, <1>i, <1>o, <2>1, PrepareKeeps
<1>8. ASSUME NEW m \in Mission, Encode(m) \/ FinishCopy(m)
      PROVE  LineageInv'
  <2>1. Untouched(m) /\ job' = m
    BY <1>8, <1>a, <1>t DEF Encode, FinishCopy, At, Untouched
  <2>2. QED
    BY <1>8, <1>i, <1>o, <2>1, MakingKeeps
<1>9. ASSUME NEW m \in Mission, SaveValidating(m) \/ SaveCleanup(m) \/ Verify(m)
      PROVE  LineageInv'
  <2>1. UNCHANGED <<files, latest, op>> /\ job' = m
    BY <1>9, <1>a DEF SaveValidating, SaveCleanup, Verify, At
  <2>2. \A n \in Mission \ {m} : row'[n] = row[n]
    BY <1>9, <1>b DEF SaveValidating, SaveCleanup, Verify
  <2>3. Untouched(m)
    BY <2>1, <2>2 DEF Untouched, files
  <2>4. QED
    BY <1>9, <1>i, <1>o, <2>1, <2>3, CommitsKeep
<1>10. ASSUME NEW m \in Mission, Publish(m)
       PROVE  LineageInv'
  <2>1. Untouched(m) /\ job' = m
    BY <1>10, <1>a, <1>t DEF Publish, At, Untouched
  <2>2. QED
    BY <1>10, <1>i, <1>o, <2>1, PublishKeeps
<1>11. ASSUME NEW m \in Mission, RecordPublished(m)
       PROVE  LineageInv'
  <2>1. UNCHANGED <<files, latest>> /\ job' = m
    BY <1>11, <1>a DEF RecordPublished
  <2>2. \A n \in Mission \ {m} : row'[n] = row[n] /\ op'[n] = op[n]
    BY <1>11, <1>b, <1>t DEF RecordPublished
  <2>3. Untouched(m)
    BY <2>1, <2>2 DEF Untouched, files
  <2>4. QED
    BY <1>11, <1>i, <1>o, <2>1, <2>3, RecordKeeps
<1>12. ASSUME NEW m \in Mission, RemoveSource(m) \/ RecordCleaned(m) \/ (Discard(m) /\ pc' # "idle")
       PROVE  LineageInv'
  <2>1. Untouched(m) /\ job' = m
    BY <1>12, <1>a, <1>t DEF RemoveSource, RecordCleaned, Discard, At, Rest, Untouched, files
  <2>2. QED
    BY <1>12, <1>i, <1>o, <2>1, CleanupKeeps
<1>13. CASE Crash
  BY <1>13, <1>s, RestingKeeps DEF Crash, Rest, files
<1>14. CASE Reconfigure \/ UNCHANGED vars
  <2>1. UNCHANGED <<row, source, staging, work, output, latest, op, pc, route, job>>
    BY <1>14 DEF Reconfigure, vars, control, files
  <2>2. QED
    BY <2>1 DEF LineageInv, MissionInv, PublishedRight, Origins, Origin, Own, Established,
                Recorded, Registered
<1>15. ASSUME NEW m \in Mission, Arrive(m) \/ Withdraw(m) \/ TakeOutput(m) \/ PlantOutput(m)
       PROVE  LineageInv'
  <2>1. MissionInv(m)'
    BY <1>15, <1>i, UsersKeep
  <2>2. UNCHANGED <<row, op, pc, route, job, work, staging>>
    BY <1>15 DEF Arrive, Withdraw, TakeOutput, PlantOutput, control
  <2>3. ASSUME NEW n \in Mission \ {m}
        PROVE  MissionInv(n)'
    <3>1. source'[n] = source[n] /\ latest'[n] = latest[n] /\ output'[n] = output[n]
      BY <1>15, <1>t DEF Arrive, Withdraw, TakeOutput, PlantOutput
    <3>2. MissionInv(n)
      BY <1>i
    <3>3. QED
      BY <2>2, <3>1, <3>2 DEF MissionInv, PublishedRight, Origins, Origin, Own, Established,
                              Recorded, Registered
  <2>4. QED
    BY <2>1, <2>3 DEF LineageInv
<1>16. ASSUME NEW m \in Mission, ResetFailed(m)
       PROVE  LineageInv'
  <2>1. /\ pc' = "idle" /\ UNCHANGED <<source, output, work, staging, latest, op>>
        /\ \E st \in {"processing", "waiting_stable"} : Becomes(m, st)
    BY <1>16 DEF ResetFailed, control, files
  <2>2. \A n \in Mission :
          /\ row'[n].attempts = row[n].attempts
          /\ row'[n].status = "cleanup_pending" => row[n].status = "cleanup_pending"
    BY <1>b, <2>1
  <2>3. QED
    BY <1>s, <2>1, <2>2, RestingKeeps
<1>17. QED
  BY <1>1, <1>2, <1>3, <1>4, <1>5, <1>6, <1>7, <1>8, <1>9, <1>10, <1>11, <1>12, <1>13,
     <1>14, <1>15, <1>16 DEF Next, Job, Environment

(* With lineage and careful users every file is of a known origin, the     *)
(* operation names what it names, and each step of the job can rely on     *)
(* what the steps before it have seen (compress_videos.py, service.py).    *)
THEOREM InvariantsHold == ASSUME Lineage, Careful PROVE Spec => [](TypeInv /\ LineageInv)
<1>1. Init => TypeInv /\ LineageInv
  <2> SUFFICES ASSUME Init
               PROVE  LineageInv
    BY TypeStart
  <2> SUFFICES ASSUME NEW m \in Mission
               PROVE  MissionInv(m)
    BY DEF LineageInv
  <2>1. /\ row[m].status = "unknown" /\ row[m].attempts = 0 /\ op[m] = NoOp
        /\ source[m] = 0 /\ latest[m] = 0
        /\ work[m] = NoFile /\ staging[m] = NoFile /\ output[m] = NoFile /\ pc = "idle"
    BY DEF Init
  <2>2. QED
    BY <2>1 DEF MissionInv, PublishedRight, Origins, Origin, Own, Established, NoOp, NoFile, Steps
<1>2. TypeInv /\ LineageInv /\ [Next]_vars => (TypeInv /\ LineageInv)'
  BY TypeStep, LineageStep
<1>3. QED
  BY <1>1, <1>2, PTL DEF Spec

(***************************************************************************)
(* What the lineage says of a publication is true, for any number of       *)
(* missions, versions, attempts and crashes, as long as users stay out     *)
(* between the last check of a file and its use.                           *)
(***************************************************************************)
THEOREM PublicationsAreTrue == ASSUME Lineage, Careful PROVE Spec => []LineageIsTrue
<1>1. TypeInv /\ LineageInv => LineageIsTrue
  BY DEF LineageInv, MissionInv, PublishedRight, LineageIsTrue
<1>2. QED
  BY <1>1, InvariantsHold, PTL

(***************************************************************************)
(* A source the job removes has a product of the mission's own at the      *)
(* output path, of this very source when the running attempt made it.      *)
(***************************************************************************)
THEOREM SourceRemovedForItsProduct ==
    ASSUME Lineage, Careful PROVE Spec => AttemptNeverLosesItsSource
<1>1. ASSUME TypeInv, LineageInv, [Next]_vars,
             NEW m \in Mission, source[m] # 0, source'[m] = 0, pc' # pc
      PROVE  /\ output[m].whole /\ output[m].by > 0
             /\ output[m].by = row[m].attempts => output[m].of = source[m]
  <2>1. RemoveSource(m)
    <3>1. UNCHANGED source \/ \E n \in Mission : RemoveSource(n)
      BY <1>1 DEF Next, Job, Environment, vars, files, control, FinishCleanup, RecoverValidating,
           RecoverProcessing, SourceGone, Unowned, Requeue, Refresh, Claim, Judge, Begin, Prepare,
           Encode, FinishCopy, SaveValidating, Publish, Verify, RecordPublished, SaveCleanup,
           Discard, RecordCleaned, Complete, Fail, Crash, Reconfigure, Arrive, Withdraw,
           TakeOutput, PlantOutput, ResetFailed
    <3>2. PICK n \in Mission : RemoveSource(n)
      BY <1>1, <3>1
    <3>3. n = m
      BY <1>1, <3>2 DEF RemoveSource, TypeInv, TypeOK
    <3>4. QED
      BY <3>2, <3>3
  <2>2. pc = "unlink" /\ job = m /\ pc \in Steps /\ route \in {"new", "cleanup"}
    BY <1>1, <2>1, StepRoutes DEF RemoveSource, At, Steps
  <2>3. Recorded(m) /\ output[m] = op[m].product /\ source[m] \in {0, op[m].of} /\ PublishedRight(m)
    BY <1>1, <2>2 DEF LineageInv, MissionInv, Established
  <2>4. QED
    BY <1>1, <2>3 DEF Recorded, Registered, PublishedRight
<1>2. TypeInv /\ LineageInv /\ [Next]_vars =>
        [\A m \in Mission : source[m] # 0 /\ source'[m] = 0 /\ pc' # pc
          => /\ output[m].whole /\ output[m].by > 0
             /\ output[m].by = row[m].attempts => output[m].of = source[m]]_vars
  BY <1>1
<1>3. QED
  BY <1>2, InvariantsHold, PTL DEF Spec, AttemptNeverLosesItsSource

(***************************************************************************)
(* Only a product of the mission's own completes it.                       *)
(***************************************************************************)
THEOREM OwnProductCompletes == ASSUME Lineage, Careful PROVE Spec => OwnProductOnly
<1>1. ASSUME TypeInv, LineageInv, [Next]_vars,
             NEW m \in Mission, row'[m].status = "completed", row[m].status # "completed"
      PROVE  output[m].whole /\ output[m].by > 0
  <2>t. row \in [Mission -> Row]
    BY <1>1 DEF TypeInv, TypeOK
  <2>b. ASSUME NEW n \in Mission, NEW st \in Statuses \ {"completed"}, Becomes(n, st)
        PROVE  FALSE
    BY <1>1, <2>b, <2>t DEF Becomes, Row
  <2>1. \E n \in Mission : Complete(n)
    <3>1. ~Refresh
      <4>1. row[m].status # "completed" /\ row[m] \in Row => Refreshed(m).status # "completed"
        BY DEF Refreshed, Waiting, Row
      <4>2. Refresh => row'[m] = Refreshed(m)
        BY <1>1 DEF Refresh
      <4>3. QED
        BY <1>1, <2>t, <4>1, <4>2
    <3>2. ~Claim
      <4>1. \A n \in Claimable : n \in Mission
        BY DEF Claimable
      <4>2. ASSUME NEW n \in Claimable,
                   row' = [row EXCEPT ![n].status = "processing", ![n].attempts = @ + 1,
                                      ![n].claimed = TRUE]
            PROVE  FALSE
        BY <1>1, <2>t, <4>1, <4>2 DEF Row
      <4>3. QED
        BY <1>1, <2>b, <4>1, <4>2, FirstIsOne DEF Claim, Claimable, Statuses
    <3>3. ~RecoverValidating /\ ~RecoverProcessing
      <4>1. ASSUME NEW n \in Mission, SourceGone(n) \/ Unowned(n) \/ Requeue(n)
            PROVE  FALSE
        BY <1>1, <2>b, <4>1 DEF SourceGone, Unowned, Requeue, Statuses
      <4>2. QED
        BY <1>1, <4>1, FirstIsOne DEF RecoverValidating, RecoverProcessing, Found
    <3>4. \A n \in Mission : /\ ~Judge(n) /\ ~SaveValidating(n) /\ ~SaveCleanup(n) /\ ~Fail(n)
                            /\ ~RecordPublished(n) /\ ~ResetFailed(n)
      BY <1>1, <2>b DEF Judge, SaveValidating, SaveCleanup, Fail, RecordPublished, ResetFailed, Statuses
    <3>5. row' # row
      BY <1>1
    <3>6. QED
      BY <1>1, <3>1, <3>2, <3>3, <3>4, <3>5 DEF Next, Job, Environment, vars, FinishCleanup, Begin,
           Prepare, Encode, FinishCopy, Publish, Verify, Discard, RemoveSource, RecordCleaned,
           Crash, Reconfigure, Arrive, Withdraw, TakeOutput, PlantOutput
  <2>2. PICK n \in Mission : Complete(n)
    BY <2>1
  <2>3. n = m
    BY <1>1, <2>2, <2>t DEF Complete
  <2>4. pc = "complete" /\ job = m /\ pc \in Steps /\ route \in {"new", "cleanup", "gone"}
    BY <1>1, <2>2, <2>3, StepRoutes DEF Complete, At, Steps
  <2>5. Recorded(m) /\ output[m] = op[m].product /\ PublishedRight(m)
    BY <1>1, <2>4 DEF LineageInv, MissionInv, Established
  <2>6. QED
    BY <2>5 DEF Recorded, PublishedRight
<1>2. TypeInv /\ LineageInv /\ [Next]_vars =>
        [\A m \in Mission : row'[m].status = "completed" /\ row[m].status # "completed"
          => output[m].whole /\ output[m].by > 0]_vars
  BY <1>1
<1>3. QED
  BY <1>2, InvariantsHold, PTL DEF Spec, OwnProductOnly

(***************************************************************************)
(* The job never replaces or removes a file at an output path, whatever    *)
(* the lineage and the users do.                                           *)
(***************************************************************************)
THEOREM OutputsAreLeftAlone == Spec => OutputsStay
<1>1. ASSUME TypeInv, [Next]_vars, NEW m \in Mission, output[m] # NoFile, output'[m] # output[m]
      PROVE  pc' = pc
  <2>1. \A n \in Mission : ~Publish(n)
    BY <1>1 DEF Publish, Succeeds, At, TypeInv, TypeOK
  <2>2. output' # output
    BY <1>1
  <2>3. \E n \in Mission : TakeOutput(n) \/ PlantOutput(n)
    BY <1>1, <2>1, <2>2 DEF Next, Job, Environment, vars, files, FinishCleanup, RecoverValidating,
         RecoverProcessing, SourceGone, Unowned, Requeue, Refresh, Claim, Judge, Begin, Prepare,
         Encode, FinishCopy, SaveValidating, Verify, RecordPublished, SaveCleanup,
         Discard, RemoveSource, RecordCleaned, Complete, Fail, Crash, Reconfigure, Arrive, Withdraw,
         ResetFailed
  <2>4. QED
    BY <2>3 DEF TakeOutput, PlantOutput, control
<1>2. TypeInv /\ [Next]_vars =>
        [\A m \in Mission : output[m] # NoFile /\ output'[m] # output[m] => pc' = pc]_vars
  BY <1>1
<1>3. TypeInv /\ [Next]_vars => TypeInv'
  BY TypeStep
<1>4. QED
  BY <1>2, <1>3, TypeStart, PTL DEF Spec, OutputsStay
=============================================================================
