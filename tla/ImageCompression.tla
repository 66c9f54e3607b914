-------------------------- MODULE ImageCompression --------------------------
(***************************************************************************)
(* The image compression missions: one row of image_compression_mission    *)
(* per file, directory or archive of the source directory, moved by the    *)
(* 30 second job of image_compression/schedules/process_images.py through  *)
(* the trees of image_compression/service.py.                              *)
(*                                                                         *)
(* One job runs at a time and pushes one mission.  A step of it ends at a  *)
(* commit or at an effect on the file system that a crash can separate     *)
(* from the next.  Copying a tree and removing one take two steps each: a  *)
(* crash in between leaves a part.                                         *)
(*                                                                         *)
(* Abstracted: the content of a tree is the version of the source it was   *)
(* made of and whether it is complete, which its manifest tells; a name is *)
(* its normalized collision key; the directories unpack, payload and       *)
(* result, which each preparation builds anew; and the 30 seconds that     *)
(* separate two looks at a source, which are those of the job.             *)
(***************************************************************************)
EXTENDS Integers, FiniteSets

CONSTANTS
    Mission,     \* ids of the rows, one per source path
    Legacy,      \* missions an older release may have failed, left ingested
    Name,        \* names in the output directory
    Planned,     \* the name each source maps to
    Actual,      \* the name it has once its real image format is known
    Trees,       \* sources are directories, whose removal takes many steps
    Posix,       \* renaming a file replaces what has the name; Windows refuses
    UserMay,     \* what people do to the files, out of Deeds
    Faults,      \* any step may fail
    MaxVersion,  \* bound: versions of one source
    MaxMishap    \* bound: crashes and failures in a behaviour

Deeds == {"replace", "withdraw", "take", "plant"}

ASSUME MissionAssumption ==
    /\ Mission \subseteq Nat \ {0} /\ IsFiniteSet(Mission) /\ Legacy \subseteq Mission
    /\ Planned \in [Mission -> Name] /\ Actual \in [Mission -> Name]
    /\ {Trees, Posix, Faults} \subseteq BOOLEAN
    /\ UserMay \subseteq Deeds

ASSUME BoundAssumption == MaxVersion \in Nat \ {0} /\ MaxMishap \in Nat

Version == 0 .. MaxVersion
Tree == [of : Version, whole : BOOLEAN]
NoTree == [of |-> 0, whole |-> FALSE]
Part(t) == [t EXCEPT !.whole = FALSE]

(* Products carry the mission that made them, 0 for somebody else.         *)
Product == [of : Version, by : {0} \cup Mission, whole : BOOLEAN]
NoProduct == [of |-> 0, by |-> 0, whole |-> FALSE]
Foreign == [of |-> 0, by |-> 0, whole |-> TRUE]

Active == {"moving", "processing", "publishing", "cleanup_pending"}
Statuses == Active \cup {"none", "waiting_stable", "ready", "completed", "failed"}

Steps == {"ingest", "copy", "take", "mark", "drop", "accept", "reclaim", "stage",
          "staged", "publish", "rename", "published", "verify", "purge", "complete"}

VARIABLES
    row,         \* the mission rows; status "none" before there is one
    source,      \* the version at each source path
    latest,      \* the newest version each source path ever held
    quarantine,  \* .autoflow-image-<id>.pending in the source directory
    part,        \* pending/<id>/source.part
    pending,     \* pending/<id>/source
    marker,      \* pending/<id>/ingest.json: the version it describes, 0 for none
    staging,     \* .autoflow-image-<id>.part in the output directory
    output,      \* the files and directories of the output directory
    pc, job,     \* the running job: its next step and its mission
    fresh,       \* this ingestion copies the source itself
    mishaps      \* crashes and failures so far

copies == <<quarantine, part, pending, marker>>
files == <<source, copies, staging, output>>
control == <<pc, job, fresh>>
vars == <<row, latest, files, control, mishaps>>

Row == [status : Statuses, stamp : Version, key : Name, legacy : BOOLEAN, of : Version]

TypeOK ==
    /\ row \in [Mission -> Row]
    /\ source \in [Mission -> Version] /\ latest \in [Mission -> Version]
    /\ quarantine \in [Mission -> Tree] /\ part \in [Mission -> Tree]
    /\ pending \in [Mission -> Tree] /\ marker \in [Mission -> Version]
    /\ staging \in [Mission -> Product] /\ output \in [Name -> Product]
    /\ pc \in Steps \cup {"idle", "retry", "look", "claim", "register"}
    /\ job \in {0} \cup Mission /\ fresh \in BOOLEAN
    /\ mishaps \in 0 .. MaxMishap

(* The rows an older release failed still own their pending source; its    *)
(* marker may be missing.                                                  *)
Init ==
    \E old \in SUBSET Legacy, marked \in SUBSET Legacy :
      /\ marked \subseteq old
      /\ row = [m \in Mission |->
                  [status |-> IF m \in old THEN "failed" ELSE "none", stamp |-> 0,
                   key |-> Planned[m], legacy |-> m \in old, of |-> 0]]
      /\ source = [m \in Mission |-> 0]
      /\ latest = [m \in Mission |-> IF m \in old THEN 1 ELSE 0]
      /\ pending = [m \in Mission |-> IF m \in old THEN [of |-> 1, whole |-> TRUE] ELSE NoTree]
      /\ marker = [m \in Mission |-> IF m \in marked THEN 1 ELSE 0]
      /\ quarantine = [m \in Mission |-> NoTree] /\ part = quarantine
      /\ staging = [m \in Mission |-> NoProduct]
      /\ output = [n \in Name |-> NoProduct]
      /\ pc = "idle" /\ job = 0 /\ fresh = FALSE
      /\ mishaps = 0

At(s, m) == pc = s /\ job = m
Go(s) == pc' = s /\ UNCHANGED <<job, fresh>>
Start(s, m) == pc' = s /\ job' = m /\ UNCHANGED fresh
Rest == pc' = "idle" /\ job' = 0 /\ fresh' = FALSE

Rows(statuses) == {m \in Mission : row[m].status \in statuses}
First(missions) == {m \in missions : \A n \in missions : m <= n}
Becomes(m, status) == row' = [row EXCEPT ![m].status = status]

(* _destination_conflict: another row that has not failed has the name.    *)
Reserved(m, name) == \E q \in Rows(Statuses \ {"none", "failed"}) \ {m} : row[q].key = name
Free(name) == output[name] = NoProduct

-----------------------------------------------------------------------------
(***************************************************************************)
(* A run of the job: an active mission, else a failure of an older release *)
(* that may be retried, else the oldest waiting row, else a ready row,     *)
(* else the next source without a row.                                     *)
(***************************************************************************)
FirstStep == [moving |-> "ingest", processing |-> "ingest",
              publishing |-> "publish", cleanup_pending |-> "verify"]

Resume ==
    /\ pc = "idle"
    /\ \/ \E m \in Rows(Active) : Start(FirstStep[row[m].status], m)
       \/ Rows(Active) = {} /\ Start("retry", 0)
    /\ UNCHANGED <<row, latest, files, mishaps>>

(* _retry_destination_is_reserved and _retry_assets_are_safe, whose last   *)
(* condition is the ingestion itself.                                      *)
Retryable(m) ==
    /\ row[m].status = "failed" /\ row[m].legacy
    /\ ~Reserved(m, row[m].key)
    /\ pending[m] # NoTree
    /\ Free(row[m].key)
    /\ staging[m] = NoProduct

Retry ==
    /\ pc = "retry"
    /\ LET next == {m \in Mission : m > job /\ Retryable(m)}
       IN  \/ next = {} /\ Start("look", 0)
           \/ \E m \in First(next) : Start("ingest", m)
    /\ UNCHANGED <<row, latest, files, mishaps>>

(* A slip: a source that changed gets a status the schema does not know.   *)
RefreshedUnstable(m) ==
    CASE source[m] = 0 -> [row[m] EXCEPT !.status = "failed"]
      [] source[m] # 0 /\ row[m].stamp = source[m] -> [row[m] EXCEPT !.status = "ready"]
      [] OTHER -> [row[m] EXCEPT !.stamp = source[m], !.status = "unstable"]

Refreshed(m) ==
    CASE source[m] = 0 -> [row[m] EXCEPT !.status = "failed"]
      [] source[m] # 0 /\ row[m].stamp = source[m] -> [row[m] EXCEPT !.status = "ready"]
      [] OTHER -> [row[m] EXCEPT !.stamp = source[m]]

RefreshWaiting ==
    /\ pc = "look"
    /\ \/ \E m \in Rows({"waiting_stable"}) :
            /\ row' = [row EXCEPT ![m] = Refreshed(m)]
            /\ IF row'[m].status = "ready" THEN Go("claim") ELSE Rest
       \/ Rows({"waiting_stable"}) = {} /\ Go("claim") /\ UNCHANGED row
    /\ UNCHANGED <<latest, files, mishaps>>

Claim ==
    /\ pc = "claim"
    /\ LET ready == Rows({"ready"})
       IN  \/ ready = {} /\ Go("register") /\ UNCHANGED row
           \/ \E m \in First(ready) : Becomes(m, "moving") /\ Start("ingest", m)
    /\ UNCHANGED <<latest, files, mishaps>>

Unregistered == {m \in Rows({"none"}) : source[m] # 0}

(* A slip: names are compared with the output directory alone.             *)
RegisterUnreserved ==
    /\ pc = "register"
    /\ \/ Unregistered = {} /\ UNCHANGED row
       \/ \E m \in First(Unregistered) :
            row' = [row EXCEPT ![m].stamp = source[m],
                      ![m].status = IF Free(Planned[m]) THEN "waiting_stable" ELSE "failed"]
    /\ Rest
    /\ UNCHANGED <<latest, files, mishaps>>

Register ==
    /\ pc = "register"
    /\ \/ Unregistered = {} /\ UNCHANGED row
       \/ \E m \in First(Unregistered) :
            row' = [row EXCEPT ![m].stamp = source[m],
                      ![m].status = IF Reserved(m, Planned[m]) \/ ~Free(Planned[m])
                                    THEN "failed" ELSE "waiting_stable"]
    /\ Rest
    /\ UNCHANGED <<latest, files, mishaps>>

-----------------------------------------------------------------------------
(***************************************************************************)
(* ensure_ingested: the source moves to the quarantine, is copied to the   *)
(* pending directory and removed.  It runs again before each preparation.  *)
(***************************************************************************)

(* A pending source is taken over: its marker, or the quarantine when      *)
(* there is no marker, must agree with it.                                 *)
Adoptable(m) ==
    IF marker[m] # 0 THEN pending[m] = [of |-> marker[m], whole |-> TRUE]
    ELSE quarantine[m] \in {NoTree, pending[m]}

Adopt(m) ==
    /\ At("ingest", m) /\ pending[m] # NoTree /\ Adoptable(m)
    /\ pc' = "drop" /\ fresh' = FALSE /\ UNCHANGED job
    /\ UNCHANGED <<row, latest, files, mishaps>>

Isolate(m) ==
    /\ At("ingest", m) /\ pending[m] = NoTree
    /\ part' = [part EXCEPT ![m] = NoTree]
    /\ IF quarantine[m] = NoTree
       THEN /\ source[m] # 0
            /\ quarantine' = [quarantine EXCEPT ![m] = [of |-> source[m], whole |-> TRUE]]
            /\ source' = [source EXCEPT ![m] = 0]
       ELSE UNCHANGED <<quarantine, source>>
    /\ pc' = "copy" /\ fresh' = TRUE /\ UNCHANGED job
    /\ UNCHANGED <<row, latest, pending, marker, staging, output, mishaps>>

Copy(m) ==
    /\ At("copy", m)
    /\ part' = [part EXCEPT ![m] = IF @ = NoTree THEN Part(quarantine[m]) ELSE quarantine[m]]
    /\ IF part[m] = NoTree THEN UNCHANGED control ELSE Go("take")
    /\ UNCHANGED <<row, source, latest, quarantine, pending, marker, staging, output, mishaps>>

(* The copy becomes the pending source once it agrees with the quarantine. *)
Take(m) ==
    /\ At("take", m) /\ part[m] = quarantine[m]
    /\ pending' = [pending EXCEPT ![m] = part[m]]
    /\ part' = [part EXCEPT ![m] = NoTree]
    /\ Go("mark")
    /\ UNCHANGED <<row, source, latest, quarantine, marker, staging, output, mishaps>>

Ingested(m) == Go(CASE row[m].status = "moving" -> "accept"
                    [] row[m].status = "failed" -> "reclaim"
                    [] OTHER -> "stage")

(* The marker is written before the quarantine goes when this ingestion    *)
(* made the copy, after it when it took one over.                          *)
Mark(m) ==
    /\ At("mark", m)
    /\ marker' = [marker EXCEPT ![m] = pending[m].of]
    /\ IF fresh THEN Go("drop") ELSE Ingested(m)
    /\ UNCHANGED <<row, source, latest, quarantine, part, pending, staging, output, mishaps>>

Drop(m) ==
    /\ At("drop", m)
    /\ \/ /\ Trees /\ quarantine[m].whole
          /\ quarantine' = [quarantine EXCEPT ![m] = Part(@)]
          /\ UNCHANGED control
       \/ /\ ~Trees \/ ~quarantine[m].whole
          /\ quarantine' = [quarantine EXCEPT ![m] = NoTree]
          /\ IF marker[m] = 0 THEN Go("mark") ELSE Ingested(m)
    /\ UNCHANGED <<row, source, latest, part, pending, marker, staging, output, mishaps>>

(* The commits that follow: MOVING becomes PROCESSING, or the failure of   *)
(* an older release is claimed again; both check the ingestion once more.  *)
Accept(m) ==
    /\ At("accept", m) \/ At("reclaim", m)
    /\ row' = [row EXCEPT ![m].status = "processing", ![m].legacy = FALSE]
    /\ Go("ingest")
    /\ UNCHANGED <<latest, files, mishaps>>

-----------------------------------------------------------------------------
(***************************************************************************)
(* Preparation and publication.                                            *)
(***************************************************************************)
Made(m) == [of |-> pending[m].of, by |-> m, whole |-> TRUE]

(* What a leftover in the output directory may be taken for: the manifest  *)
(* the row has recorded does not say who made it.                          *)
Expected(m, p) == p.whole /\ p.of = row[m].of

(* prepare_batch, _apply_prepared_destination and stage_for_publish: the   *)
(* real name must not be another mission's.                                *)
Stage(m) ==
    /\ At("stage", m)
    /\ Actual[m] # row[m].key => ~Reserved(m, Actual[m])
    /\ Free(Actual[m])
    /\ staging' = [staging EXCEPT ![m] = [Made(m) EXCEPT !.whole = FALSE]]
    /\ Go("staged")
    /\ UNCHANGED <<row, source, latest, copies, output, mishaps>>

(* The copy is complete, then its manifest is committed.                   *)
Staged(m) ==
    /\ At("staged", m)
    /\ IF staging[m].whole
       THEN /\ row' = [row EXCEPT ![m].status = "publishing", ![m].key = Actual[m],
                                  ![m].of = pending[m].of]
            /\ Go("publish") /\ UNCHANGED staging
       ELSE /\ staging' = [staging EXCEPT ![m] = Made(m)]
            /\ UNCHANGED <<row, control>>
    /\ UNCHANGED <<source, latest, copies, output, mishaps>>

(* publish: an output that is there must be the expected one; the staging  *)
(* is renamed when none is, a look and a step that others may come between. *)
Publish(m) ==
    /\ At("publish", m)
    /\ IF Free(row[m].key) THEN Expected(m, staging[m]) /\ Go("rename")
       ELSE Expected(m, output[row[m].key]) /\ Go("published")
    /\ UNCHANGED <<row, latest, files, mishaps>>

Replaces == Posix /\ ~Trees

Rename(m) ==
    /\ At("rename", m) /\ (Free(row[m].key) \/ Replaces)
    /\ output' = [output EXCEPT ![row[m].key] = staging[m]]
    /\ staging' = [staging EXCEPT ![m] = NoProduct]
    /\ Go("published")
    /\ UNCHANGED <<row, source, latest, copies, mishaps>>

Published(m) ==
    /\ At("published", m)
    /\ Becomes(m, "cleanup_pending")
    /\ Go("verify")
    /\ UNCHANGED <<latest, files, mishaps>>

(* A slip: the output of a recovered cleanup is not looked at again.       *)
VerifyUnchecked(m) ==
    /\ At("verify", m)
    /\ Go("purge")
    /\ UNCHANGED <<row, latest, files, mishaps>>

(* _complete_cleanup: with the output verified, the pending directory goes *)
(* file by file, then the staging of an earlier crash.                     *)
Verify(m) ==
    /\ At("verify", m) /\ Expected(m, output[row[m].key])
    /\ Go("purge")
    /\ UNCHANGED <<row, latest, files, mishaps>>

Purge(m) ==
    /\ At("purge", m)
    /\ \/ /\ pending[m].whole
          /\ pending' = [pending EXCEPT ![m] = IF Trees THEN Part(@) ELSE NoTree]
          /\ marker' \in {marker, [marker EXCEPT ![m] = 0]}
          /\ UNCHANGED <<staging, part, control>>
       \/ /\ pending' = [pending EXCEPT ![m] = NoTree]
          /\ marker' = [marker EXCEPT ![m] = 0]
          /\ part' = [part EXCEPT ![m] = NoTree]
          /\ staging' = [staging EXCEPT ![m] = NoProduct]
          /\ Go("complete")
    /\ UNCHANGED <<row, source, latest, quarantine, output, mishaps>>

Complete(m) ==
    /\ At("complete", m)
    /\ Becomes(m, "completed")
    /\ Rest
    /\ UNCHANGED <<latest, files, mishaps>>

-----------------------------------------------------------------------------
(***************************************************************************)
(* Failure.                                                                *)
(***************************************************************************)

(* The condition under which the step m is about to take does not raise.   *)
Succeeds(m) ==
    CASE pc = "ingest" -> IF pending[m] # NoTree THEN Adoptable(m)
                          ELSE quarantine[m] # NoTree \/ source[m] # 0
      [] pc = "take" -> part[m] = quarantine[m]
      [] pc = "stage" -> /\ Actual[m] # row[m].key => ~Reserved(m, Actual[m])
                         /\ Free(Actual[m])
      [] pc = "publish" -> Expected(m, IF Free(row[m].key) THEN staging[m]
                                       ELSE output[row[m].key])
      [] pc = "rename" -> Free(row[m].key) \/ Replaces
      [] pc = "verify" -> Expected(m, output[row[m].key])
      [] OTHER -> TRUE

(* A failure of an older release is passed over when its ingestion raises; *)
(* the run ends when its claim does.                                       *)
PassOver(m) ==
    /\ row[m].status = "failed"
    /\ IF pc = "reclaim" THEN Rest ELSE Go("retry")
    /\ UNCHANGED <<row, staging>>

(* A slip: a cleanup is tried again whatever it met.                       *)
FailForEver(m) ==
    /\ pc \in Steps /\ job = m
    /\ \/ ~Succeeds(m) /\ UNCHANGED mishaps
       \/ Faults /\ mishaps < MaxMishap /\ mishaps' = mishaps + 1
    /\ \/ PassOver(m)
       \/ row[m].status = "cleanup_pending" /\ Rest /\ UNCHANGED <<row, staging>>
       \/ /\ row[m].status \notin {"failed", "cleanup_pending"}
          /\ Becomes(m, "failed") /\ Rest
          /\ staging' = [staging EXCEPT ![m] = NoProduct]
    /\ UNCHANGED <<source, latest, copies, output>>

(* A step that raises fails the mission, unless a cleanup meets an OSError *)
(* (only a mishap is one).  The staging is discarded if that succeeds.     *)
Fail(m) ==
    /\ pc \in Steps /\ job = m
    /\ \E mishap \in BOOLEAN :
         /\ \/ ~mishap /\ ~Succeeds(m) /\ UNCHANGED mishaps
            \/ mishap /\ Faults /\ mishaps < MaxMishap /\ mishaps' = mishaps + 1
         /\ \/ PassOver(m)
            \/ /\ row[m].status = "cleanup_pending" /\ mishap
               /\ Rest /\ UNCHANGED <<row, staging>>
            \/ /\ row[m].status # "failed"
               /\ Becomes(m, "failed") /\ Rest
               /\ staging' \in {[staging EXCEPT ![m] = NoProduct]}
                                \cup (IF mishap THEN {staging} ELSE {})
    /\ UNCHANGED <<source, latest, copies, output>>

-----------------------------------------------------------------------------
(***************************************************************************)
(* The environment.                                                        *)
(***************************************************************************)
Crash ==
    /\ pc # "idle" /\ mishaps < MaxMishap
    /\ mishaps' = mishaps + 1
    /\ Rest
    /\ UNCHANGED <<row, latest, files>>

(* The first version of a source always may arrive.                        *)
Arrive(m) ==
    /\ latest[m] = 0 \/ "replace" \in UserMay
    /\ latest[m] < MaxVersion
    /\ latest' = [latest EXCEPT ![m] = @ + 1]
    /\ source' = [source EXCEPT ![m] = latest[m] + 1]
    /\ UNCHANGED <<row, copies, staging, output, control, mishaps>>

Withdraw(m) ==
    /\ "withdraw" \in UserMay /\ source[m] # 0
    /\ source' = [source EXCEPT ![m] = 0]
    /\ UNCHANGED <<row, latest, copies, staging, output, control, mishaps>>

(* Nobody takes an output between its verification and the cleanup.        *)
TakeOutput(n) ==
    /\ "take" \in UserMay /\ ~Free(n)
    /\ ~(pc \in {"purge", "complete"} /\ row[job].key = n)
    /\ output' = [output EXCEPT ![n] = NoProduct]
    /\ UNCHANGED <<row, source, latest, copies, staging, control, mishaps>>

PlantOutput(n) ==
    /\ "plant" \in UserMay /\ Free(n)
    /\ output' = [output EXCEPT ![n] = Foreign]
    /\ UNCHANGED <<row, source, latest, copies, staging, control, mishaps>>

Job ==
    \/ Resume \/ Retry \/ RefreshWaiting \/ Claim \/ Register
    \/ \E m \in Mission :
         \/ Adopt(m) \/ Isolate(m) \/ Copy(m) \/ Take(m) \/ Mark(m) \/ Drop(m) \/ Accept(m)
         \/ Stage(m) \/ Staged(m) \/ Publish(m) \/ Rename(m) \/ Published(m)
         \/ Verify(m) \/ Purge(m) \/ Complete(m) \/ Fail(m)

Next ==
    \/ Job \/ Crash
    \/ \E m \in Mission : Arrive(m) \/ Withdraw(m)
    \/ \E n \in Name : TakeOutput(n) \/ PlantOutput(n)

Spec == Init /\ [][Next]_vars

(* The scheduler starts the job every 30 seconds, a crashed server is      *)
(* restarted, and users owe nothing.                                       *)
FairSpec == Spec /\ WF_vars(Job)

-----------------------------------------------------------------------------
(* The versions of a source of which the system or its path has a whole    *)
(* copy.                                                                   *)
Held(m) == {source[m], IF quarantine[m].whole THEN quarantine[m].of ELSE 0,
            IF pending[m].whole THEN pending[m].of ELSE 0} \ {0}

(* The job never destroys the last whole copy of a source, whatever failed *)
(* or crashed between isolating, copying, marking and removing it, unless  *)
(* its complete product is in the output directory at that moment.  Only   *)
(* users touch a source without its quarantine.                            *)
SourcesSurvive ==
    [][\A m \in Mission : \A v \in Held(m) \ Held(m)' :
          \/ source' # source /\ quarantine' = quarantine
          \/ \E n \in Name : output[n] = [of |-> v, by |-> m, whole |-> TRUE]]_vars

(* No file in the output directory is ever replaced or removed by the job. *)
(* The plan promises it for the loose files too, by a hard link that fails *)
(* when the name is taken; the code looks and then renames.                *)
OutputsStay ==
    [][\A n \in Name : output[n] # NoProduct /\ output'[n] # output[n] => control' = control]_vars

(* Two missions that have not failed never have the same name, although    *)
(* names are planned from the source, changed after the images were read   *)
(* and taken up again by retries.                                          *)
NamesAreReserved ==
    \A m, q \in Rows(Statuses \ {"none", "failed"}) : m # q => row[m].key # row[q].key

(* A mission that runs settles, whatever happens to the files: a cleanup   *)
(* that cannot succeed is not tried for ever.                              *)
ActiveSettles ==
    \A m \in Mission : row[m].status \in Active ~> row[m].status \in {"completed", "failed"}
=============================================================================
