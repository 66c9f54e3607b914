-------------------------- MODULE VideoCompression --------------------------
(***************************************************************************)
(* The video compression missions: one row of video_compression_mission    *)
(* per source file, moved by the 30 second job of                          *)
(* video_compression/schedules/compress_videos.py through the files of     *)
(* video_compression/service.py, and the lineage operation that            *)
(* media_lineage/integration.py keeps about each attempt.                  *)
(*                                                                         *)
(* One job runs at a time (max_instances and the advisory lock), so its    *)
(* program counter is global.  A step of it ends at a commit or at an      *)
(* effect on the file system, where a crash can leave the mission, while   *)
(* users and other programs replace and remove files at any moment.        *)
(*                                                                         *)
(* Abstracted: the bytes of a source are its version, which size,          *)
(* modification time and identity tell apart.  A product is told by the    *)
(* version it was made of, the attempt that made it and whether it is      *)
(* complete, which is what decoding it establishes.  Two paths hold the    *)
(* same file when they hold the same product.  output_path is either NULL  *)
(* or the only path mission_paths accepts.                                 *)
(***************************************************************************)
EXTENDS Integers, FiniteSets

CONSTANTS
    Mission,       \* ids of the rows, one per source path
    Lineage,       \* integration.enabled(): lineage is recorded and verified
    UserMay,       \* what people do to the files and the rows, out of Deeds
    Careful,       \* users stay out between the last check of a file and its use
    Faults,        \* any step may fail: an OSError, a timeout, a full disk
    MaxVersion,    \* bound: versions of one source file
    MaxAttempt,    \* bound: claims of one mission
    MaxCrash,      \* bound: crashes in a behaviour
    MaxRevision    \* bound: configurations published by the video filter

Deeds == {"replace", "withdraw", "take", "plant", "reset"}

ASSUME MissionAssumption ==
    /\ Mission \subseteq Nat /\ IsFiniteSet(Mission)
    /\ Lineage \in BOOLEAN /\ Careful \in BOOLEAN /\ Faults \in BOOLEAN
    /\ UserMay \subseteq Deeds

(* Bindings belong to the video filter, which implies lineage.             *)
ASSUME BoundAssumption ==
    /\ MaxVersion \in Nat \ {0} /\ MaxAttempt \in Nat
    /\ MaxCrash \in Nat /\ MaxRevision \in Nat \ {0}
    /\ MaxRevision > 1 => Lineage

(* A source is a version, 0 when the path is free.                         *)
Version == 0 .. MaxVersion
Product == [of : Version, by : 0 .. MaxAttempt, whole : BOOLEAN]
NoFile == [of |-> 0, by |-> 0, whole |-> FALSE]
Foreign == [of |-> 0, by |-> 0, whole |-> TRUE]

Statuses == {"unknown", "waiting_stable", "ready", "processing", "validating",
             "cleanup_pending", "completed", "failed"}
Row == [status : Statuses, stamp : Version, attempts : 0 .. MaxAttempt, claimed : BOOLEAN,
        revision : 0 .. MaxRevision]
Operation == [gen : 0 .. MaxAttempt, phase : {0, 1, 3, 4}, of : Version, product : Product]
Leftover == {"processing", "validating", "cleanup_pending"}

VARIABLES
    row,       \* the mission rows
    source,    \* the version at each source path
    latest,    \* the newest version each source path ever held
    staging,   \* .<name>.mission-<id>.part in the output directory
    work,      \* .mission-<id>.transcoding.mp4 in the cache
    output,    \* <name> in the output directory
    op,        \* the lineage operation of the latest generation of each mission
    pc, route, job,  \* the running job: its next step, why, and on which mission
    scope,     \* the revision the running job has read
    revision,  \* the directory revision of the published workflow binding
    crashes

files == <<source, staging, work, output>>
control == <<pc, route, job, scope>>
vars == <<row, files, latest, op, control, revision, crashes>>

(***************************************************************************)
(* Routes of a run of the job through its steps.                           *)
(***************************************************************************)
Path == [
  new |-> [begin |-> "prepare", encode |-> "stage", stage |-> "validate",
           copy |-> "validate", validate |-> "publish", publish |-> "record",
           record |-> "mark", mark |-> "recheck", recheck |-> "discard",
           discard |-> "unlink", unlink |-> "clean", clean |-> "complete"],
  cleanup |-> [verify |-> "confirm", confirm |-> "discard", discard |-> "unlink",
               unlink |-> "clean", clean |-> "complete"],
  gone |-> [verify |-> "confirm", confirm |-> "clean", clean |-> "discard",
            discard |-> "complete"],
  validating |-> [verify |-> "settle", publish |-> "settle", settle |-> "discard",
                  discard |-> "idle"],
  processing |-> [verify |-> "record", record |-> "mark", mark |-> "discard",
                  discard |-> "idle"]]

Steps == {"begin", "prepare", "encode", "stage", "copy", "validate", "publish",
          "record", "mark", "recheck", "discard", "unlink", "clean", "complete",
          "verify", "confirm", "settle", "judge"}

(* The steps that only commit: a database error there ends the run, which  *)
(* leaves what a crash leaves.                                             *)
Commits == {"validate", "mark", "complete"}
Preparing == {"begin", "prepare", "encode", "stage", "copy"}

At(s, m) == pc = s /\ job = m
Enter(s, r, m) == /\ pc' = s /\ route' = r /\ job' = m
                  /\ scope' = revision
Advance == /\ pc' = Path[route][pc]
           /\ UNCHANGED <<route, job, scope>>
Rest == /\ pc' = "idle" /\ route' = "none" /\ job' = 0
        /\ scope' = 0

Becomes(m, status) == row' = [row EXCEPT ![m].status = status]
First(missions) == CHOOSE m \in missions : \A n \in missions : m <= n

(* mission_query: only the rows of the current binding.                    *)
Found(statuses) == {m \in Mission : /\ row[m].status \in statuses
                                    /\ row[m].revision = revision}

(***************************************************************************)
(* Lineage of the current attempt.  Phases: 1 planned, 3 published (with   *)
(* destination_verified in the same transaction), 4 source_cleaned.        *)
(***************************************************************************)
NoOp == [gen |-> 0, phase |-> 0, of |-> 0, product |-> NoFile]

Bound(m) == row[m].revision = revision
Registered(m) == op[m].phase > 0 /\ op[m].gen = row[m].attempts

(* Three plausible slips in the check below: it accepts any source, it     *)
(* trusts an earlier publication without looking at the output, or it      *)
(* publishes for a source that has gone.                                   *)
PublishableUnverified(m, allow_missing) ==
    /\ Bound(m)
    /\ Registered(m)
    /\ source[m] # 0 \/ (allow_missing /\ op[m].phase >= 3)
    /\ output[m] # NoFile
    /\ op[m].phase >= 3 => output[m] = op[m].product

PublishableUnlooked(m, allow_missing) ==
    /\ Bound(m)
    /\ Registered(m)
    /\ \/ source[m] = op[m].of
       \/ source[m] = 0 /\ allow_missing /\ op[m].phase >= 3
    /\ output[m] # NoFile

PublishableLate(m, allow_missing) ==
    /\ Bound(m)
    /\ Registered(m)
    /\ source[m] = op[m].of \/ (source[m] = 0 /\ allow_missing)
    /\ output[m] # NoFile
    /\ op[m].phase >= 3 => output[m] = op[m].product

(* verify_operation_source, then record_published.                         *)
Publishable(m, allow_missing) ==
    /\ Bound(m)
    /\ Registered(m)
    /\ \/ source[m] = op[m].of
       \/ source[m] = 0 /\ allow_missing /\ op[m].phase >= 3
    /\ output[m] # NoFile
    /\ op[m].phase >= 3 => output[m] = op[m].product

Publication(m) == IF op[m].phase >= 3 THEN op[m]
                  ELSE [op[m] EXCEPT !.phase = 3, !.product = output[m]]

(* record_source_removed.                                                  *)
Cleanable(m) ==
    /\ Bound(m)
    /\ Registered(m)
    /\ op[m].phase >= 3
    /\ op[m].phase = 4 \/ (source[m] = 0 /\ output[m] = op[m].product)

(***************************************************************************)
(* What each step needs to succeed.  A step that cannot succeed raises.    *)
(***************************************************************************)
Verified(m) == /\ output[m].whole
               /\ staging[m] # NoFile => staging[m] = output[m]

Succeeds(s, m) ==
    CASE s = "begin" -> /\ source[m] # 0
                        /\ Lineage => Bound(m)
                        /\ Lineage /\ Registered(m) => source[m] = op[m].of
      [] s = "prepare" -> /\ source[m] # 0
                          /\ {output[m], staging[m], work[m]} = {NoFile}
      [] s = "publish" -> staging[m].whole /\ output[m] = NoFile
      [] s = "verify" -> Verified(m)
      [] s \in {"record", "recheck", "settle"} -> Lineage => Publishable(m, FALSE)
      [] s = "confirm" -> Lineage => Publishable(m, TRUE)
      [] s = "clean" -> Lineage => Cleanable(m)
      [] OTHER -> TRUE

TypeOK ==
    /\ row \in [Mission -> Row] /\ op \in [Mission -> Operation]
    /\ source \in [Mission -> Version] /\ latest \in [Mission -> Version]
    /\ staging \in [Mission -> Product] /\ work \in [Mission -> Product]
    /\ output \in [Mission -> Product]
    /\ pc \in Steps \cup {"idle", "claim"}
    /\ pc \in Steps => route \in DOMAIN Path /\ job \in Mission
    /\ scope \in 0 .. MaxRevision /\ revision \in 1 .. MaxRevision
    /\ crashes \in 0 .. MaxCrash

Init ==
    /\ row = [m \in Mission |-> [status |-> "unknown", stamp |-> 0, attempts |-> 0,
                                claimed |-> FALSE, revision |-> 0]]
    /\ source = [m \in Mission |-> 0] /\ latest = source
    /\ staging = [m \in Mission |-> NoFile]
    /\ work = staging /\ output = staging
    /\ op = [m \in Mission |-> NoOp]
    /\ pc = "idle" /\ route = "none" /\ job = 0 /\ scope = 0
    /\ revision = 1 /\ crashes = 0

-----------------------------------------------------------------------------
(***************************************************************************)
(* A run of the job: what an earlier run left behind comes first.          *)
(***************************************************************************)
FinishCleanup ==
    /\ pc = "idle" /\ Found({"cleanup_pending"}) # {}
    /\ Enter("verify", "cleanup", First(Found({"cleanup_pending"})))
    /\ UNCHANGED <<row, files, latest, op, revision, crashes>>

(* The source has gone: only a published output can account for it.        *)
SourceGone(m) ==
    /\ source[m] = 0
    /\ \/ /\ output[m] = NoFile
          /\ Becomes(m, "failed") /\ Rest
       \/ /\ output[m] # NoFile
          /\ Enter("verify", "gone", m) /\ UNCHANGED row
    /\ UNCHANGED files

(* An output without the staging file cannot be shown to be the mission's. *)
Unowned(m) ==
    /\ source[m] # 0 /\ staging[m] = NoFile /\ output[m] # NoFile
    /\ Becomes(m, "failed") /\ Rest
    /\ UNCHANGED files

(* A slip: what the interrupted encoder wrote is left in the cache.        *)
RequeueKeepingWork(m) ==
    /\ source[m] # 0 /\ staging[m] = NoFile /\ output[m] = NoFile
    /\ Becomes(m, "ready") /\ Rest
    /\ UNCHANGED files

Requeue(m) ==
    /\ source[m] # 0 /\ staging[m] = NoFile /\ output[m] = NoFile
    /\ work' = [work EXCEPT ![m] = NoFile]
    /\ Becomes(m, "ready") /\ Rest
    /\ UNCHANGED <<source, staging, output>>

RecoverValidating ==
    /\ pc = "idle" /\ Found({"cleanup_pending"}) = {}
    /\ Found({"validating"}) # {}
    /\ LET m == First(Found({"validating"})) IN
         \/ SourceGone(m)
         \/ Unowned(m)
         \/ Requeue(m)
         \/ /\ source[m] # 0 /\ staging[m] # NoFile
            /\ Enter(IF output[m] = NoFile THEN "publish" ELSE "verify", "validating", m)
            /\ UNCHANGED <<row, files>>
    /\ UNCHANGED <<latest, op, revision, crashes>>

RecoverProcessing ==
    /\ pc = "idle" /\ Found({"cleanup_pending", "validating"}) = {}
    /\ Found({"processing"}) # {}
    /\ LET m == First(Found({"processing"})) IN
         \/ SourceGone(m)
         \/ Unowned(m)
         \/ Requeue(m)
         \/ /\ source[m] # 0 /\ staging[m] # NoFile
            /\ Enter(IF output[m] = NoFile THEN "judge" ELSE "verify", "processing", m)
            /\ UNCHANGED <<row, files>>
    /\ UNCHANGED <<latest, op, revision, crashes>>

(* A staging file that cannot be decoded is thrown away.                   *)
Judge(m) ==
    /\ At("judge", m)
    /\ work' = [work EXCEPT ![m] = NoFile]
    /\ \/ /\ staging[m].whole
          /\ Becomes(m, "validating") /\ UNCHANGED staging
       \/ /\ Faults \/ ~staging[m].whole
          /\ Becomes(m, "ready") /\ staging' = [staging EXCEPT ![m] = NoFile]
    /\ Rest
    /\ UNCHANGED <<source, output, latest, op, revision, crashes>>

(***************************************************************************)
(* With nothing left behind, look at the source directory and claim.       *)
(***************************************************************************)
Waiting(m) == [row[m] EXCEPT !.status = "waiting_stable", !.stamp = source[m]]

Refreshed(m) ==
    CASE source[m] = 0 -> row[m]
      [] source[m] # 0 /\ row[m].status = "unknown" ->
            [Waiting(m) EXCEPT !.revision = revision]
      [] source[m] # 0 /\ row[m].status = "completed" ->
            [Waiting(m) EXCEPT !.revision = revision, !.claimed = FALSE]
      [] /\ source[m] # 0 /\ row[m].stamp # source[m]
         /\ m \in Found({"waiting_stable", "ready", "failed"}) -> Waiting(m)
      [] /\ source[m] # 0 /\ row[m].stamp = source[m]
         /\ m \in Found({"waiting_stable"}) -> [row[m] EXCEPT !.status = "ready"]
      [] OTHER -> row[m]

Refresh ==
    /\ pc = "idle" /\ Found(Leftover) = {}
    /\ row' = [m \in Mission |-> Refreshed(m)]
    /\ Enter("claim", "none", 0)
    /\ UNCHANGED <<files, latest, op, revision, crashes>>

Claimable == {m \in Mission : /\ row[m].status = "ready" /\ row[m].revision = scope
                              /\ row[m].attempts < MaxAttempt}

Claim ==
    /\ pc = "claim"
    /\ \/ Claimable = {} /\ Rest /\ UNCHANGED row
       \/ /\ Claimable # {}
          /\ LET m == First(Claimable) IN
               \/ /\ row' = [row EXCEPT ![m].status = "processing",
                                        ![m].attempts = @ + 1, ![m].claimed = TRUE]
                  /\ pc' = "begin" /\ route' = "new" /\ job' = m
                  /\ UNCHANGED scope
               \/ Faults /\ Becomes(m, "failed") /\ Rest
    /\ UNCHANGED <<files, latest, op, revision, crashes>>

-----------------------------------------------------------------------------
(***************************************************************************)
(* Preparing a product: register the operation, then copy the source, or   *)
(* encode it in the cache and copy the result, into the staging file.      *)
(***************************************************************************)
Begin(m) ==
    /\ At("begin", m) /\ Succeeds("begin", m)
    /\ op' = IF Lineage /\ ~Registered(m)
             THEN [op EXCEPT ![m] = [gen |-> row[m].attempts, phase |-> 1,
                                     of |-> source[m], product |-> NoFile]]
             ELSE op
    /\ Advance
    /\ UNCHANGED <<row, files, latest, revision, crashes>>

Prepare(m) ==
    /\ At("prepare", m) /\ Succeeds("prepare", m)
    /\ LET part == [of |-> source[m], by |-> row[m].attempts, whole |-> FALSE] IN
         \/ /\ work' = [work EXCEPT ![m] = part]
            /\ pc' = "encode" /\ UNCHANGED staging
         \/ /\ staging' = [staging EXCEPT ![m] = part]
            /\ pc' = "copy" /\ UNCHANGED work
    /\ UNCHANGED <<row, source, output, latest, op, route, job, scope, revision, crashes>>

Encode(m) ==
    /\ At("encode", m)
    /\ work' = [work EXCEPT ![m].whole = TRUE]
    /\ staging' = [staging EXCEPT ![m] = work[m]]
    /\ Advance
    /\ UNCHANGED <<row, source, output, latest, op, revision, crashes>>

FinishCopy(m) ==
    /\ At("stage", m) \/ At("copy", m)
    /\ staging' = [staging EXCEPT ![m].whole = TRUE]
    /\ work' = [work EXCEPT ![m] = NoFile]
    /\ Advance
    /\ UNCHANGED <<row, source, output, latest, op, revision, crashes>>

SaveValidating(m) ==
    /\ At("validate", m)
    /\ Becomes(m, "validating")
    /\ Advance
    /\ UNCHANGED <<files, latest, op, revision, crashes>>

(* A slip: publish with a rename, which replaces an existing file.         *)
PublishByRename(m) ==
    /\ At("publish", m) /\ staging[m].whole
    /\ output' = [output EXCEPT ![m] = staging[m]]
    /\ Advance
    /\ UNCHANGED <<row, source, staging, work, latest, op, revision, crashes>>

(* publish_prepared: os.link never replaces a file.                        *)
Publish(m) ==
    /\ At("publish", m) /\ Succeeds("publish", m)
    /\ output' = [output EXCEPT ![m] = staging[m]]
    /\ Advance
    /\ UNCHANGED <<row, source, staging, work, latest, op, revision, crashes>>

Verify(m) ==
    /\ At("verify", m) /\ Succeeds("verify", m)
    /\ Advance
    /\ UNCHANGED <<row, files, latest, op, revision, crashes>>

(* compression_published.  Its commit in recover_validating_mission also   *)
(* saves the status set just before it.                                    *)
RecordPublished(m) ==
    /\ pc \in {"record", "recheck", "confirm", "settle"} /\ job = m
    /\ Succeeds(pc, m)
    /\ op' = IF Lineage THEN [op EXCEPT ![m] = Publication(m)] ELSE op
    /\ IF pc = "settle" THEN Becomes(m, "cleanup_pending") ELSE UNCHANGED row
    /\ Advance
    /\ UNCHANGED <<files, latest, revision, crashes>>

SaveCleanup(m) ==
    /\ At("mark", m)
    /\ Becomes(m, "cleanup_pending")
    /\ Advance
    /\ UNCHANGED <<files, latest, op, revision, crashes>>

(* The recovery of a publication stops here and leaves the source to the   *)
(* next run.                                                               *)
Discard(m) ==
    /\ At("discard", m)
    /\ staging' = [staging EXCEPT ![m] = NoFile]
    /\ work' = [work EXCEPT ![m] = NoFile]
    /\ IF Path[route].discard = "idle" THEN Rest ELSE Advance
    /\ UNCHANGED <<row, source, output, latest, op, revision, crashes>>

RemoveSource(m) ==
    /\ At("unlink", m)
    /\ source' = [source EXCEPT ![m] = 0]
    /\ Advance
    /\ UNCHANGED <<row, staging, work, output, latest, op, revision, crashes>>

(* A slip: replaying the event of an operation that has it appends again.  *)
RecordCleanedTwice(m) ==
    /\ At("clean", m) /\ Succeeds("clean", m)
    /\ op' = IF Lineage THEN [op EXCEPT ![m].phase = @ + 1] ELSE op
    /\ Advance
    /\ UNCHANGED <<row, files, latest, revision, crashes>>

RecordCleaned(m) ==
    /\ At("clean", m) /\ Succeeds("clean", m)
    /\ op' = IF Lineage THEN [op EXCEPT ![m].phase = 4] ELSE op
    /\ Advance
    /\ UNCHANGED <<row, files, latest, revision, crashes>>

Complete(m) ==
    /\ At("complete", m)
    /\ row' = [row EXCEPT ![m].status = "completed", ![m].claimed = TRUE]
    /\ Rest
    /\ UNCHANGED <<files, latest, op, revision, crashes>>

(* An exception fails the mission.  While it was preparing, what it made   *)
(* is discarded first, and a discard that fails is only logged.            *)
Fail(m) ==
    /\ pc \in Steps \ Commits /\ job = m
    /\ Faults \/ ~Succeeds(pc, m)
    /\ Becomes(m, "failed")
    /\ IF pc \in Preparing
       THEN \E stuck \in SUBSET {"staging", "work"} :
              /\ stuck # {} => Faults
              /\ staging' = IF "staging" \in stuck THEN staging
                            ELSE [staging EXCEPT ![m] = NoFile]
              /\ work' = IF "work" \in stuck THEN work ELSE [work EXCEPT ![m] = NoFile]
       ELSE UNCHANGED <<staging, work>>
    /\ Rest
    /\ UNCHANGED <<source, output, latest, op, revision, crashes>>

-----------------------------------------------------------------------------
(***************************************************************************)
(* The environment.                                                        *)
(***************************************************************************)
Crash ==
    /\ pc # "idle" /\ crashes < MaxCrash
    /\ crashes' = crashes + 1
    /\ Rest
    /\ UNCHANGED <<row, files, latest, op, revision>>

SourceAtRisk(m) == Careful /\ job = m /\ pc \in {"discard", "unlink"}
OutputAtRisk(m) ==
    /\ Careful /\ job = m
    /\ \/ pc \in {"record", "settle", "discard", "unlink", "clean", "complete"}
       \/ ~Lineage /\ pc \in {"mark", "recheck", "confirm"}

(* The first version of a file always may arrive.                          *)
Arrive(m) ==
    /\ latest[m] = 0 \/ "replace" \in UserMay
    /\ latest[m] < MaxVersion /\ ~SourceAtRisk(m)
    /\ latest' = [latest EXCEPT ![m] = @ + 1]
    /\ source' = [source EXCEPT ![m] = latest[m] + 1]
    /\ UNCHANGED <<row, staging, work, output, op, control, revision, crashes>>

Withdraw(m) ==
    /\ "withdraw" \in UserMay /\ source[m] # 0 /\ ~SourceAtRisk(m)
    /\ source' = [source EXCEPT ![m] = 0]
    /\ UNCHANGED <<row, staging, work, output, latest, op, control, revision, crashes>>

TakeOutput(m) ==
    /\ "take" \in UserMay /\ output[m] # NoFile /\ ~OutputAtRisk(m)
    /\ output' = [output EXCEPT ![m] = NoFile]
    /\ UNCHANGED <<row, source, staging, work, latest, op, control, revision, crashes>>

PlantOutput(m) ==
    /\ "plant" \in UserMay /\ output[m] = NoFile /\ ~OutputAtRisk(m)
    /\ output' = [output EXCEPT ![m] = Foreign]
    /\ UNCHANGED <<row, source, staging, work, latest, op, control, revision, crashes>>

(* reset_failed_transcoding.sql, run while the server is stopped.          *)
ResetFailed(m) ==
    /\ "reset" \in UserMay /\ pc = "idle"
    /\ row[m].status = "failed" /\ Bound(m)
    /\ Becomes(m, IF row[m].claimed THEN "processing" ELSE "waiting_stable")
    /\ UNCHANGED <<files, latest, op, control, revision, crashes>>

(* The video filter publishes a new directory revision for the binding.    *)
Reconfigure ==
    /\ revision < MaxRevision
    /\ revision' = revision + 1
    /\ UNCHANGED <<row, files, latest, op, control, crashes>>

Job == \/ FinishCleanup \/ RecoverValidating \/ RecoverProcessing \/ Refresh \/ Claim
       \/ \E m \in Mission :
            \/ Judge(m) \/ Begin(m) \/ Prepare(m) \/ Encode(m) \/ FinishCopy(m)
            \/ SaveValidating(m) \/ Publish(m) \/ Verify(m) \/ RecordPublished(m)
            \/ SaveCleanup(m) \/ Discard(m) \/ RemoveSource(m) \/ RecordCleaned(m)
            \/ Complete(m) \/ Fail(m)

Environment == \/ Crash \/ Reconfigure
               \/ \E m \in Mission : \/ Arrive(m) \/ Withdraw(m) \/ TakeOutput(m)
                                     \/ PlantOutput(m) \/ ResetFailed(m)

Next == Job \/ Environment

Spec == Init /\ [][Next]_vars

-----------------------------------------------------------------------------
(* A source the job removes has been compressed: its complete product is   *)
(* at the output path at that moment, whatever crashed, failed or changed  *)
(* in between (unlink at compress_videos.py:299 and 636).                  *)
NothingLost ==
    [][\A m \in Mission : source[m] # 0 /\ source'[m] = 0 /\ pc' # pc
          => output[m].whole /\ output[m].of = source[m]]_vars

(* The part of it that holds: a source is removed only for a complete      *)
(* product of this mission, and of this very source when the product is    *)
(* that of the attempt under way, although the source may change between   *)
(* its registration, its reading and its removal.                          *)
AttemptNeverLosesItsSource ==
    [][\A m \in Mission : source[m] # 0 /\ source'[m] = 0 /\ pc' # pc
          => /\ output[m].whole /\ output[m].by > 0
             /\ output[m].by = row[m].attempts => output[m].of = source[m]]_vars

(* Only a product of the mission's own completes it: a file of the same    *)
(* name that somebody else put there is never adopted (files_are_same,     *)
(* record_published and record_source_removed).                            *)
OwnProductOnly ==
    [][\A m \in Mission : row'[m].status = "completed" /\ row[m].status # "completed"
          => output[m].whole /\ output[m].by > 0]_vars

(* A published operation names a complete product, of exactly the source   *)
(* it registered when its own attempt made it, although the source is      *)
(* hashed at one time and read at another (compression_begin, prepare,     *)
(* compression_published), and later phases never turn to another product. *)
LineageIsTrue ==
    \A m \in Mission : op[m].phase >= 3 =>
        /\ op[m].product.whole /\ op[m].product.by > 0
        /\ op[m].product.by = op[m].gen => op[m].product.of = op[m].of

(* The job never replaces or removes a file at an output path, its own or  *)
(* a foreign one (os.link at service.py:257).                              *)
OutputsStay ==
    [][\A m \in Mission : output[m] # NoFile /\ output'[m] # output[m] => pc' = pc]_vars
=============================================================================
