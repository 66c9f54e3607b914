# Automation-flow: a TLA+ model of its job processing

`automation-flow` is one Flask process with an APScheduler. It watches
directories, re-encodes videos and images, trains and applies a classifier that
sorts videos, and keeps rows in PostgreSQL about all of it. Every job mixes
database commits with effects on the file system and shares one GPU, so what
can go wrong is the order of those steps when users, crashes and other servers
act in between. That is what these modules are about.

All paths below are under `src/automation-server/` unless they start with `src/`.

## 1. Inventory

| Component | State | Operations | Talks to | Hard behaviour | What makes it correct |
|---|---|---|---|---|---|
| GPU leases: `media_lineage/resources.py`, `process_tree.py` | rows of `ResourceLease` (status, queue order, budget, observation, heartbeat), the driver's view of memory | `request_lease`, `heartbeat`, `record_oom`, `release` | every GPU user | two servers, owners that die, probes that fail, driver samples taken while processes grow, starvation | training is exclusive, limits, a lease outlives its work, the reserve stays free, nobody waits for ever |
| Video compression: `video_compression/schedules/compress_videos.py`, `service.py`, `transcoder.py` | `CompressionMission` rows; source, staging, work and output files | a 30 s job: clean up, recover, refresh, claim, prepare, publish, clean | leases, lineage, users | crash at each step, failures of discards, replaced files, retries | no source is lost, no foreign file is adopted or overwritten, leftovers converge |
| Media lineage: `media_lineage/integration.py`, `service.py`, `workflows.py`, `files.py` | append-only `LineageEvent` rows, `WorkflowBinding` | begin, published, cleaned (each replayable) | compression writes, the filter reads | replay after a crash, a source that changes between hashes | what an event says about files is true |
| Image compression: `image_compression/schedules/process_images.py`, `service.py`, `naming.py`, `manifest.py`, `archive.py` | `Mission` and group rows; cache, staging and destination trees | register, wait for stability, claim, ingest, prepare, stage, publish, clean; retries | users | as for videos, with whole trees and archives; name allocation | publication is all or nothing, a source goes only after its result |
| Filter tasks: `video_filter/tasks.py`, `supervisor.py`, `runtime.py`, `worker_client.py` | `Task` rows (queued, running, done), in-memory `_running` | enqueue, claim, dispatch, GPU phases, cancel, retry, finish | leases, tracking, control API | cancellation against completion, restart with running rows, one slot per kind | at most one run of a task, results only from current inputs |
| Filter transfer: `video_filter/transfer.py` | transfer rows with phases, files in two directories | gate, classify, advance | tracking, users | crash between copy, verify and delete | exactly one authoritative copy |
| Filter tracking: `video_filter/tracking.py`, `media.py`, `identity.py` | video and label records, lineage cursor | reconcile directories, consume lineage | lineage | events before files and files before events | a record follows the file through a compression |
| Filter feedback: `video_filter/feedback.py` | a journal file and label rows | append, apply, replay | users | crash between journal and commit | every label is applied once |
| Worker pool: `video_filter/persistent_client.py`, `persistent_worker.py`, `worker_gate.py`, `model_cache.py` | pool of processes, cached models | acquire, run, retire | supervisor | cancellation against reuse | one request per worker |
| Feature store: `video_filter/feature_store.py` | feature files and manifests | write, publish, read | extraction | crash while publishing | readers see complete files |
| Learning: `video_filter/learning.py`, `prediction.py`, `mil.py`, `evaluation.py` | `ModelRun` and prediction rows; tensors | train, activate, predict | feedback, feature store, worker | rows change while models are fitted and scores computed; row locks of three kinds of transactions | stale models are flagged, predictions are of the moment, no circle of locks |
| Configuration, control API, reports, dashboard, logging | settings; read-only views | parse, show, enqueue | all | little | not modelled, except the directory revision |
| iwara downloads: `iwara/` | `DownloadMission` rows 0, 1, 2, 9, 4 | import, prepare, push | browser plug-in, aria2 | two prepares of one mission | each download is pushed once |
| JD scores, VPS backup | rows; none | single requests | | | not modelled |
| Reset tool: `src/tools/reset_failed_media.py` | compression and image rows | reset failed missions | an operator | run against a live server | a reset mission starts anew and harms no other |

`PROJECT.json` lists each with its status and the hazards at their lines.

## 2. Plan

In the order of what hurts most when it is wrong. Done:

1. **GpuLease**, the one resource everything shares: safety, memory accounting,
   progress, proofs, and the abstract lock `DeviceLock` it implements.
2. **VideoCompression** with the lineage of its attempts.
3. **ImageCompression**, from registration to cleanup, with proofs.
4. **FilterTransfer**, the job of the filter that removes files, with
   **FilterTransferProofs**.
5. **FilterTasks** and **WorkerPool**: task rows against threads, threads against
   processes.
6. **FilterTracking**: scans, lineage events and the decisions they make.
7. **FilterModels**: training, prediction and feedback over shared rows.
8. Proofs of the safety of 2, 3 and 5 to 7 (**VideoCompressionProofs**,
   **FilterTasksProofs**, **WorkerPoolProofs**, **FilterTrackingProofs**,
   **FilterModelsProofs**).

Left:

* the composition of FilterTasks, WorkerPool and GpuLease, which meet in
  `_running`, in cancellation and in leases: each module takes the promise of the
  other as its environment, and nothing checks the three at once;
* `naming.py` as operators checked against "distinct, portable, stable", and one
  abstract publication (absent, published, cleaned) for both compressions and the
  transfer.

## 3. What is modelled

### GpuLease

`status`, `ahead`, `budget`, `measured`, `reported` and `stale` are a row of
`ResourceLease`: its status, its position by creation time, its memory budget,
whether an observation was recorded by OOM or the driver, whether the parent
reported the processes, whether its heartbeat is older than 300 s. `work` and
`used` are the client and its processes. An admission is the transaction of
`request_lease` in two steps, because the driver is asked twice in it:

| Action | Code |
|---|---|
| `BeginAdmission` | lock, probes of every row (`Gone`), first driver query |
| `EndAdmission` | swept rows (`Swept`), queue (`QueueOf`), `Admitted`, budgets (`Wanted`, `Raised`), `Fits`, grant or wait, commit |
| `Heartbeat`, `OutOfMemory`, `Release`, `GiveUp` | `heartbeat`, `record_oom`, `release` and a client that stops asking |
| `LoseLease` | the encoder that finds its lease lost and ends its tree |
| `Grow`, `Finish` | the processes on the device |
| `Stall`, `Crash` | a client that does not poll for 300 s; a server that dies |

`KillOnClose` is the Windows Job Object of `process_tree.py`: the workers die
with their server. Without it a POSIX process group runs on, the probe looks at the
server's process and not at the encoder's, and the row of an encoder that is still on
the device is reclaimed: everything below is checked and proved with it.

**DeviceLock** is what the leases promise: a lock on the device, entered in one
step, alone or with others of a bounded number. `GpuLease!ImplementsDeviceLock`
maps `using` to the clients that may use the device.

### VideoCompression

`row` is the mission row, `source`, `staging`, `work` and `output` the four files
of a mission, `op` the lineage events of its latest attempt. The job is one
program counter (`pc`, `route`, `job`), since `max_instances` and the advisory
lock admit one run at a time. A step ends where a crash could leave a
trace: at a commit or at an effect on a file. `Path` gives the order of the steps
on each route: `new` is the normal run, `cleanup` is `finish_cleanup_pending`,
`gone` the recoveries whose source has disappeared, `validating` and `processing`
the other recoveries. `Succeeds` holds the condition under which a step does not
raise, `Fail` what an exception does then, or at any time when `Faults` is TRUE.

A file is a record: the version of the source it was made of, the attempt that
made it and whether it is complete. Hard links (`os.link`) are equal records.

What people do is a constant, `UserMay`: replace or withdraw a source, take an
output away, put a foreign file in its place, run the reset script. `Careful`
keeps them out of the windows the code cannot close itself: between the last
hash of a file and `unlink` (`compress_videos.py:633-636`), and between the check of
an output and the commit that relies on it. `Reconfigure` is `publish_binding` with
a new directory revision, `scope` the revision the run has read. `MCVideoCompression` adds `calm`, whether anything but crashes has disturbed
the job so far, which `CrashesNeverStrand` needs.

### ImageCompression

`row` is a mission row: its status, the version its snapshot was taken of, its
normalized name, the version in its recorded manifest, and `legacy` for a failure
with the error message of an older release (`LEGACY_*`). `quarantine`, `part`,
`pending`, `marker`, `staging` and `output` are the paths of `service.py`. As above
one job runs at a time (`pc`, `job`) and a step ends at a commit or an effect
on files. Copying and removing a tree take two steps when sources are directories
(`Trees`), so that a crash leaves a part.

| Action | Code |
|---|---|
| `Resume`, `Retry`, `RefreshWaiting`, `Claim`, `Register` | the order of `process_one_mission`: active mission, old failure, waiting, ready, next source |
| `Adopt`, `Isolate`, `Copy`, `Take`, `Mark`, `Drop` | `ensure_ingested`: taking over a pending source, or quarantine, copy, compare, marker, removal |
| `Accept` | the commit after an ingestion: MOVING to PROCESSING, or a retry claimed |
| `Stage`, `Staged`, `Publish`, `Rename`, `Published` | the real name, the copy in the output directory, its manifest; the look at the output, the rename, the commit |
| `Verify`, `Purge`, `Complete` | `_complete_cleanup` |
| `Fail` | the exception handler of `process_mission`, where `Succeeds` does not hold or `Faults` allows a mishap |

A tree is the version it was copied from and whether it is whole. `Planned` is the
name of a source by its extension, `Actual` the name once its format is known
(`prepare_batch`). Which missions an older release has failed is chosen in `Init`.
`TakeOutput` keeps out of the window between the verification of an output and the
cleanup that relies on it, which the code cannot close itself. The look of `publish` at
the output directory (`service.py:722`) and its rename (739) are two steps, between which
a file may appear (`PlantOutput`). `Posix` says what the rename does then: a file is
replaced without a word (`Replaces`), while a directory that is not empty, and anything
on Windows, makes it fail.

### FilterTransfer

`op` is the status of a `TransferOperation` row, `noted` what `begin_operation` saw at
the source, `lineage` the last phase on record, `wit` the hidden witness beside the
target, `src` and `tgt` the visible files, `lock` the row lock of the asset. `task` and
`home` are the classify tasks and the inputs they were frozen on. `act` says where each
actor is: the executor thread of every task, and the control round, which takes up
operations whose task is not running. After a reconfiguration both can be at one.

| Action | Code |
|---|---|
| `Examine`, `HashSource`, `Plan` | `classify`: gate, hash and second gate, planning |
| `Advance`, `Stage`, `Copy`, `Reload` | `advance_transfer` up to `verified` |
| `Publish`, `Record` | link, `record_published`, commit, under the row lock |
| `Confirm`, `Final`, `Remove`, `Removed`, `Sweep` | hashes, last gate with the row lock, unlink, `record_source_removed`, end of the witness |
| `Fail`, `GiveUp`, `Finish`, `IoFail` | how a run ends: what the executor and what the control round write then |
| `Start`, `Recover`, `Cancel`, `Interrupt`, `Retry`, `Enqueue` | `supervisor.py`, `runtime.py`, `control.py` |
| `Decide`, `Apply`, `Unlink` | the feedback journal |
| `Retrain`, `Reconfigure`, `Activate`, `Crash`, `MoveSource`, `MoveTarget` | the world |

`Careful` keeps people from replacing the source between `Confirm`'s hash and the
unlink, a window the code cannot close. A crash between the last commit and
`witness.unlink` leaves the witness for ever (`wit` stays `whole`): no property asks
that it goes. Settings are those an actor was started with (`cfg`).

### FilterTasks

`row` is a task row with the owner that claimed it, `thread` the executors by claim
token, `item` the dictionary `_running`, `limit` the lowered number of extractions,
`transfer` the status of the operation a classification has planned, `journal` whether
feedback waits to be replayed.
One control round is `Open`, `Mind` for every entry of `_running`, `Recover` for the tasks
of dead processes, `Resume` for every open transfer whose task is not running
(`supervisor.py:512-529`), `Claim` and `Submit` while there is room (`Dispatched`),
interleaved with executors (`Begin`, `Move`, `Work`, `Close`), with requests (`Enqueue`, `RetryRequest`, `ResetFailed`) and
with `Stop`, `Crash`, `Restart`, `Reconfigure`, `Outage`, `Feedback` and `Replay`. A transfer
here is `none`, `open`, `done` or in `conflict`: its phases, files and gate are
FilterTransfer's. `Resume` writes `succeeded` whatever has become of the task, as the code
does, so that a cancelled classification may succeed after all, and a queued one may be
done before anybody claims it. A classification waits while feedback is not replayed
(322-323), and one that meets such feedback while it runs is queued again without
having used up an attempt (`Deferred`). The lowered `limit` is read by
`_control` when a GPU lease is asked for (237) and not by the dispatch, so nothing here depends
on it. `Outage` is a database that
fails under the commit of a result; then the row stays running under a live owner until
the server is restarted, and the liveness properties leave that out by name. So does a
crash between the commit of a claim and the commit of its owner
(`supervisor.py:361`): the row has no owner, and the recovery at 508 skips it
(`OwnedRunEnds` is about rows with an owner).

### WorkerPool

`worker` is a `PersistentWorker` with its process, its place in the pool and the step of
the task it works on, `run` an executor thread inside `run`, `tree` the entry of
`_trees` through which a cancellation kills, `lease` the tasks that hold a lease.

| Action | Code |
|---|---|
| `Enter`, `Acquire`, `Start`, `Overdue` | `_run_worker`, `_acquire` (reuse, eviction, waiting at capacity), first use |
| `Answer`, `Hangup`, `Refused` | the parent's side of a run and `gpu_control` |
| `Process`, `Raise`, `Dies`, `Vanish` | the worker's loop, `gpu_phase`, the end of a process |
| `Wait`, `Forget`, `Settle` | `close`, and the two `finally` blocks |
| `ReapIdle`, `Cancel`, `Stop`, `ClosePool`, `PoolClosed` | idle reaping, cancellation, shutdown |

`close()` always succeeds here. In the code it may raise, and then the entry of `_trees`
and the worker's place in the pool stay as they are. A cancellation that comes after
a worker has answered and before `_trees.pop` kills a worker that is about to be idle.

### FilterTracking

`obs` are the observations, `loc` the location rows, `label` and `rev` the label of the
one asset, `journal` the deletions a scan has recorded, `marked` the lineage watermark,
`scan` the scan under way: `Begin` (list), `Open` (configuration, `Consumed` lineage),
`File` for each file met, then `Conclude` or `Incomplete`, and `Submit`. `Compress` is the
compressor's attempt with its events, `Person` what people do, `Overflow` a lost
notification. Time is a number of ticks in each row that stops at its threshold.

`shown` says whether the output ever had a location row: lineage asks for a row of its
content in any state, also one that was retired or renamed since (`tracking.py:143-145`).

`took`, `hurried` and `last` are ghosts: whether a person has ever taken a file, whether
something moved on before the scans had settled, and the one act the liveness properties
follow. `took` is set by `Take`, and by `Rename` to a place outside the directories, and by nothing
else. `hurried` is set in three cases, all of which are things nobody should be blamed for:

* a video is renamed again while a row is missing, while the rows do not yet show what is
  there (`Unsettled`), or before the running scan has listed it: the second move hides
  where the first one went;
* a compression is planned for a video that the rows still show at another place
  (`Overtakes`): the compressor takes any complete file at the source path and never asks what the
  scans know of it (`compress_videos.py:553-560`, `integration.py:51-64`,
  `media_lineage/service.py:88-99`);
* the directories are reconfigured while the rows are unsettled.

`Free` and `Calm` say when a person acts: on a path
nobody else uses at the time, and for `last` on a group the scans have settled.
Outside them the code may decide otherwise: a copy put at the source path of a
compression between listing and consumption, a file moved twice within
`missing_seconds`, a compressor that died between its link and its event. A mount
point that is empty counts as readable. A baseline that crashes after it took the
active slot (`tracking.py:401`) is not repeated, so that the next scan counts what
happened before as arrivals and deletions. Every step of a scan is committed in the model. In the
code a file that is lost under the scan rolls back what was not committed yet
(`tracking.py:369`), new observations of a baseline included, which the next scan then
makes without `baseline_entry`; no property depends on it.

### FilterModels

`hist` is the list of labels of an asset, one per revision, `ready` its summary, `model`
the model runs with the label revisions they were trained on (`snap`), `task` the
tasks by their inputs, `pred` the predictions. `run`, `train` and `vote` are the three kinds
of transactions, `held` and `want` their row locks: `Lock` takes the next one when it is
free, in the order of identifiers (`First`). `Freeze`, `Score`, `CheckAsset`,
`CheckModels` and `Write` are `predict_both`; `Stage`, `Load`, `Fit`, `CheckTraining` and
`Activate` are `train`; `Decide`, `Judge` and `Apply` are a feedback.

Transactions read what others have committed (READ COMMITTED). The order of creation
stands for that of the UUIDs. Tasks that ended without success are never repeated with
equal inputs (`Ended`); the log messages at `supervisor.py:278` and `runtime.py:97`, which
promise that they are discovered again, hold when their inputs have changed for good.

## 4. Runs

| Run | Question | Instance | Distinct states |
|---|---|---|---|
| `gpu_lease_safety` | do leased work, reclaim and the implementation of the lock survive faults, and does a grant keep the reserve? | 4 requests of 3 workloads on 2 servers, a card of 3 units, one extraction that would take 4, 2 faults | 1,273,871 |
| `gpu_lease_liveness` | are requests served? | 4 requests, 1 server, a card that fits two, 1 fault | 31,954 |
| `compression_safety` | can files be adopted, replaced, or lineage be false, and does the mission complete whatever crashes? | 1 mission, 3 versions, 4 attempts, 3 crashes, 2 revisions, all deeds and failures | 951,287 |
| `compression_loss` | (violation) is a source removed only when compressed? | 1 mission, 2 versions, 1 crash | 560 until it is found |
| `image_safety` | does a whole copy always remain, do names stay distinct, does every started mission settle? | 2 directories with crossing names, one perhaps an old failure, 2 versions, 2 crashes or failures, all deeds | 999,946 |
| `image_overwrite` | (violation) are outputs left alone? | 2 loose files with crossing names on POSIX, no crashes | about 1,400 until it is found |
| `filter_transfer` | is the video ever lost, or removed on an old decision; does every operation settle? | 1 task and the control round, 1 decision, 2 models, 2 attempts, 1 fault, 1 move, 2 reconfigurations | 362,357 |
| `filter_tasks` | one thread per task, capacity, results that stay, progress | 1 extraction, 1 classification with its transfer, 2 tokens, 2 attempts, 1 trouble | 650,148 |
| `filter_tracking` | what counts as a decision of the user, and is every decision heard? | 3 places, 2 acts, 1 fault, 1 reconfiguration, at most 4 in all where an act counts 2 | 1,017,763 |
| `filter_tracking_moves` | (violation) is nothing rejected that nobody took? | 4 places in one configuration, 1 act, no faults | about 16,000 until it is found |
| `worker_pool` | processes, leases and shutdown | 2 threads, 2 keys, 3 workers of capacity 2, 1 lease, 1 fault | 526,614 |
| `filter_models` | stale models, lock order, current predictions, progress | 3 assets, 1 executor, 1 voter, 1 trainer, 2 models, 2 decisions, 1 disturbance | 778,404 |

**The bounds.** Admission compares a request with the holders and the waiting rows
of its own and of other workloads; a trainer, an encoder and two extractions
give each of these comparisons both outcomes, and two servers let one die while
the other goes on. On a card of three units with a reserve of one, an extraction that
asks for one and takes all keeps the others waiting and runs out of memory. Two faults
are what it takes to confuse a probe and then to lose the owner. `Peak` is zero where
only the queue matters: work that outgrows its budget again and again may keep an
encoder from the memory, so that `RequestsAreServed` needs budgets that are kept.
For a mission, four attempts
are a failed one, one that meets its leftovers, one that meets the
leftovers of both, and one more; three crashes hit an attempt, its recovery and the
recovery of that. Missions share nothing but the job and its order, so one of them is checked; the
proofs are about any number. Image missions meet in their names alone: two of
them, each ending with the name planned for the other, make every conflict, at
registration, after the formats are known and at a retry; two mishaps are a crash and
another in the recovery from it.

A transfer has two actors at most, its executor and the control round, so one task
shows their races, and the proofs cover several tasks; two attempts are the first
and the one that meets its leftovers; two reconfigurations bring back the
directories a stale actor still works for. An extraction and a classification show
every kind of step there is, with two tokens for a late thread and its successor; two
tasks of one kind at a full capacity, with a classification beside them, were too large (ten
million states and more): that they keep it is left to the proof of `CapacityIsKept`. With a third worker name a new process can start
while two are dying. Three places are those a liked video passes through. In `filter_tracking`
two acts are what it takes to take a file and put another in its place; with `MaxSpent` two
acts come alone and one act meets a fault and a reconfiguration, since all of them
together were too large to finish. Any number of all is
what the proof of `SettledMovesAreKept` covers. The
models need one asset of each label to be trained at all, and a third one to be
judged. Two kinds of classifier or two voters at once were too large to finish.

`CHECK_DEADLOCK FALSE` is set where the system may stop: the GPU runs, when every
server has died; the transfer, tasks and scans, when the budgets are used and nothing is
left to do; the pool, when it has been shut down.

**Fairness.** A GPU client polls every few seconds and a worker or encoder ends
within its timeout, so `ClientStep` and `Finish` are fair. The fairness
of `ClientStep` is strong, because PostgreSQL grants the advisory lock in the
order it is asked for, so that a client that asks again and again gets it; a row in
conflict makes its client give up by its deadline. `FairCalmSpec` of MCVideoCompression and `FairSpec`
of ImageCompression are weak fairness of the job alone: the scheduler starts it every
30 seconds and an operator restarts a crashed server. In FilterTransfer the steps
of an actor are strongly fair, since a row lock is given back again and again and
PostgreSQL serves those who wait in order; so are the control round, which is
triggered every two seconds, and the replay of the journal. In FilterTasks rounds,
threads, the restart and the replay of the journal are weakly fair (every scan replays it, and
so does every feedback), in FilterTracking scans are, and the clock
strongly, because it stands still during a scan. In WorkerPool threads, their
deadlines, the end of a killed process and the shutdown are weakly fair; workers
themselves are not, they may hang, and it is the deadline that ends them. In
FilterModels transactions, tasks and scans are. People owe nothing anywhere.

**What the code does not do.** `compression_loss` finds what contradicts a
document: after `compression_published` fails, the attempt leaves its
staging file linked to the output. The next attempt, for a replaced source,
crashes before `prepare` refuses the output; the recovery takes the old
output for its own and the new source is removed. `AttemptNeverLosesItsSource` is the
part of `NothingLost` that the lineage does guarantee: the product of the attempt
under way is of the source that is removed.

`image_overwrite` finds the window between the look at the output name and the rename. The
plan of the component promises more for loose files: a hard link that does not overwrite
(`src/plan/image_compression/PSD.md:241`), no overwriting of an existing target at any time (243), and
publication without overwriting as the last line of defence (270). `publish` renames
(`service.py:739`), which on POSIX replaces a file that has appeared since 722. Compare
the videos, which are published by `os.link` (`video_compression/service.py:257`):
there `OutputsStay` holds and is proved.

`filter_tracking_moves` finds rejections nobody made, although the plan promises that moves
and compressions are not rejected (`src/plan/video_filter/codingplan.md:25`, `:198`). Two
mechanisms reach one with a single move, in equally many steps, so that TLC may show either:

* *The overtaken scan.* A person moves a video to the liked source, and the compression
  is done before a complete scan has registered it there. The row of the old place is
  missing; lineage finds no row of the source to retire (`tracking.py:133-139`), and no file of
  the source's version arrives anywhere to explain it (391-393). The row matures (422) and the
  asset is rejected (426).
* *The overtaken listing.* A scan lists the files; meanwhile the compression publishes; the same
  scan consumes the event (381), gives the output a row and, since the output is not in its
  listing, marks that row missing at once (393-411). If the next scan comes late and
  finds the output not stable yet (275-277), its row is mature without ever having been
  absent.

`SettledMovesAreKept` is what does hold: nothing of the kind happens while nothing is
hurried, except from states in which a file stands where a row is missing (`Back`). That
exception is the second mechanism and one more: a person who puts a file back where one is missing has
the same effect. `DeletionsAreTaken` is the claim of the plan without the exceptions.

Six more behaviours the models
have, which a reader should know:

* an observation a baseline made keeps `baseline_entry` when its file is taken and another
  one comes to the path (`tracking.py:264-273`), so that this arrival is never
  confirmed again (349-350), although `src/plan/video_filter/grouped-implementation.md:61` says that what
  people bring to `liked` or `liked_source` counts as 1. `ArrivalIsHeard` holds for all
  other paths, and for a second arrival at those as well;
* the round writes `succeeded` for the task of a transfer it has finished, also when the
  task was cancelled or is queued for another attempt (`supervisor.py:519-520`);
* without lineage, a playable file of another origin is proof enough for the
  cleanup (`compress_videos.py:287`);
* `mission_query` (`compress_videos.py:697`) asks for the current directory revision, and
  only completed rows move to it, so that the leftovers of a crash before a
  reconfiguration are never taken up;
* after a crash between renaming the copy and writing `ingest.json`, the recovery of an
  image mission removes the quarantine before it writes the marker; a crash in that
  removal leaves a part that differs from the pending source, and the mission fails with
  a complete source in its hands (`image_compression/service.py:276`);
* an executor whose closing raises (`release` in the `finally` block,
  `supervisor.py:295-298`, when the database fails) leaves a future whose `result()`
  raises in every control round (446) before the entry of `_running` is removed, and
  the rest of each round with it, although `src/README.md:42` relies on the two-second
  round as the fallback; a `ValueError` for one lease in conflict (467) ends a round
  in the same way.

## 5. Proofs

`GpuLeaseProofs` proves, for all values of the constants that satisfy the
assumptions in `GpuLease`:

* `TypeCorrect`: `Spec => []TypeOK`.
* `WorkStaysLeased`, `TrainingExclusion`, `LimitsHold`, `LiveRowsAreKept` and
  `LeasesAreALock` (`Spec => ImplementsDeviceLock`), all under `KillOnClose`.

None of these is inductive. `TrainingIsExclusive` speaks of clients, while
admission reads rows and, in the second half of its transaction, relies on
probes made in the first. The inductive invariant `LeaseInv` adds what ties them
together: clients have a live server (`ClientsAreAlive`), whoever may use the device
has an active or conflicting row (`HoldersAreLeased`), and what an open
transaction took for abandoned still is, since a stalled row stays waiting while
the transaction holds it and the dead stay dead (`GoneStayGone`). From it
`HoldersAreSeen`: every other client on the device is among the holders an
admission counts. `Outcome` says what an admission does without its budgets, and
`OnlyGrantsAddHolders` that no other step puts a client on the device; the
theorems combine the three.

`ImageCompressionProofs` proves `TypeCorrect` and `NamesStayDistinct`
(`Spec => []NamesAreReserved`) from the
assumptions of `ImageCompression`. `NamesAreReserved` alone is not inductive: a name is
looked up in one step and taken in a later one. `JobFits` says which status the
running mission has at each step, and `LookedUp` that a name the job has looked
up, for a retry or for the real format, is still nobody else's; it is kept because no
other row changes while the job runs, which is what the advisory lock and
`max_instances` give. `OneChanges` is the argument every commit uses: one row
changes, and fails, keeps its name or takes a name nobody has.

`SourcesAreKept` (`Spec => SourcesSurvive`) asks in addition what the copies of a mission
are worth at the step that destroys one. `CopiesInv`: two copies of a mission are of the
same version, and a quarantine that is whole is only given up when the pending copy is
whole too, which covers the second crash in the removal of the quarantine. `ProductsInv`:
only a product of a mission describes a version. `PublicationInv`: what is at the name of
a mission that is being published is no other mission's (`NamesAreOurs`, from
`NamesAreReserved`), the row knows the version that is pending (`Recorded`), and at the
purge its complete product is in the output directory (`Verified`). The model lets
people take the product up to the check before the purge and not between the two.

`FilterTransferProofs` proves, from `TransferAssumption`, for any number of tasks,
decisions, directories, models, faults and moves:

* `TypeCorrect`: `Spec => []TypeOK`, with the bound on attempts;
* `VideoIsKept`: `Spec => []VideoSurvives`;
* `RemovalsAreCurrent`: `Spec => CurrentBasisOnly`;
* `RemovalsAreOfThePlanned`: `Careful` implies `Spec => RemovesOnlyItsSource`.

The argument has four layers, each inductive given those before it.

1. *Types* (`TypeInv`). Attempts are counted when a task starts and taken back when it
   is deferred, so their range needs `Attempts`: who is queued has one left, who is
   running has used one. `Engaged`: an actor at work has a task that was enqueued.
2. *Order* (`OrderInv`). Only the executor plans, and nobody else is at an operation
   that does not exist (`Ordered`); an operation that is published has a lineage that
   says so (`Recorded`), and so does the status an actor read before it came to the
   cleanup (`Informed`). Without it a second actor could plan over a removed source.
3. *Survival* (`SurvivalInv`). `VideoSurvives` is not inductive: a removal keeps the
   video only because the witness is whole. `LinkedWhole` says that nobody links a
   part of a copy, so that `samefile` in `Final` is a proof of completeness; `Secured`
   keeps it up to the removal; `CleanedShown` says that once the lineage says cleaned
   the video was seen at a target after the source had gone, so the witness may go.
4. *Basis* (`BasisInv`). Who is about to remove holds the row lock since its last look
   at the gate (`Based`), and the source was hashed before (`Checked`).

An instance with two tasks and two directories was searched by TLC for counterexamples
to every part of these invariants first.

`VideoCompressionProofs` proves, from `MissionAssumption` and `BoundAssumption`:

* `TypeCorrect` (`Spec => []TypeOK`) and `OutputsAreLeftAlone` (`Spec => OutputsStay`),
  whatever users do and with or without lineage;
* under `Lineage` and `Careful`, the hypotheses of the runs too: `PublicationsAreTrue`
  (`LineageIsTrue`), `SourceRemovedForItsProduct` (`AttemptNeverLosesItsSource`) and
  `OwnProductCompletes` (`OwnProductOnly`).

`OnRoute` ties the step of the job to its route, so that a step knows which came before
it (`NextStep`). `LineageInv` is about one mission at a time: `Origins` says what the
staging, work and output files can be made of (the attempt that made each, and the
version it was made of while that attempt runs), `PublishedRight` what the operation
says of its product, and `Established` what each step of the job has seen and may still
rely on, which is where `Careful` is needed: between a hash and the use of it nobody
but the job changes the file. `NothingLost` is false (the run `compression_loss`).

`FilterTasksProofs` proves, from `TasksAssumption`, `CapacityIsKept` (`CapacityKept`),
`EndedIsFinal` (`EndedStaysEnded`) and `TypeCorrect`. Types and invariant are inductive
only together: a task is queued again only where it has an attempt left, which
`RowInv` says. `ThreadInv` is the heart: an executor at work is the one whose token
`_running` holds, and its row is its own unless it was cancelled under it; so a
retry cannot start a second one, since a claim finds the entry of `_running` still
there. `ClaimInv` covers the gap between claim and dispatch, and `ListedInv` counts the
entries, not the threads: closing threads are in it as long as the round has not
collected them. `EndedStaysEnded` needs the transfers: only a classification has one, it is
done before the task succeeds, and no request, thread or round touches a row that
succeeded; the one step that changes a cancelled row is `Resume`, on a transfer that is
done.

`WorkerPoolProofs` proves, from `PoolAssumption`, `RunsOwnTheirWorkers`
(`WorkIsItsOwn`), `DeviceNeedsLease` (`GpuNeedsLease`), `NoProcessSurvives`
(`NoneSurvives`) and `CapacityHolds` (`ProcessesWithinCapacity`), and `TypeCorrect` and
`OwnershipHolds`, which they rest on. `HolderState` says what a run knows of
the worker it holds at each step of `run` and `close`, `WorkerState` that a process
which does anything does it for the run that holds it, and that a process which
lives has its place in the pool; capacity then is a matter of the pool alone
(`PoolBounded`).

`FilterTrackingProofs` proves, from `TrackingAssumption`, `DeletionsAreRecorded`
(`SettledMovesAreKept`), `PublicationsAreKnown` (`PublishedIsKnown`) and `TypeCorrect`.

For `PublishedIsKnown`: the watermark moves only in `Conclude`, to
what `Open` has consumed, and consumption gives the output a row (`ConsumedKeeps`); no
step of a scan, no replay and no decision takes a row away again (`KeepsRows`, one lemma
for each operator on rows). The counters of `TypeOK` need `Counters`, which ties them to
the faults and reconfigurations that moved them.

`SettledMovesAreKept` says nothing about where files are, so its invariant (`MovesInv`) has
to: as long as nobody took a file and nothing was hurried, every row whose file has left its place, but for the
source the compressor removed, has its file somewhere else (`GoneAreFound`). There the
file is either `Pending`, that is the scans will take it for an arrival, or it `Came`,
that is they have. `Timely` relates two clocks: the file is observed at least since
its old row is missing, so that it is stable when the row is mature, because
`stable_seconds` is at most `missing_seconds`. `SeenAreRegistered` gives the order
inside a scan: what is stable is registered before the rows are judged. `Listed` and
`MissingAreKnown` compare the running scan with the rows, since it judges by the
listing of its beginning; the source is retired by lineage before it is judged (`Cleaned`,
with `SourceIsIts` and `SourceIsAlone`); and an output that was moved before any scan
heard of it is where the scan that hears of it has listed it (`UnheardIsFound`). TLC
searched the parts on an instance of four places with up to three acts, with faults
and with a reconfiguration. Neither exception of the theorem can be dropped:
`filter_tracking_moves` shows it for `hurried`, and with a second act the overtaken listing
comes without anything hurried, from a state with `Back`.

`FilterModelsProofs` proves, from `ModelsAssumption`, for any assets, kinds, executors,
voters and budgets:

* `TypeCorrect` (`TypeOK`), in which the bounds on revisions and models follow from who
  is still under way (`BudgetInv`: a vote pending on an asset has been paid for, a
  training run has a model run reserved);
* `StaleModelsAreFlagged` (`StaleModelIsFlagged`), `NoTransactionWaitsForItself`
  (`LocksNeverCycle`), `PredictionsAreOfTheMoment` (`PredictionsAreCurrent`).

`LocksInv` says that locks are exclusive, but for models two predictions share, and
that a transaction holds only rows below those it still wants: whoever waits for the
greatest row waits for one that waits for nothing. `TransactionsInv` is what each
transaction knows by its locks. A vote that is about to be applied holds the asset,
and holds or awaits the row of every active model that has learned from it
(`VoterInv`); a prediction holds its asset at its revision and in the end the models
it used (`RunnerInv`); a training run holds what it learned from, unchanged, and the
versions it retires (`TrainInv`). Each part is kept by the steps of others because what
it is about can only change under a lock that is held (`HeldLabel`, `VoterKeeps`,
`RunnerKeeps`, `TrainKeeps`). `StaleStep` then has two cases that matter: a label
applied while a model serves, and a model activated.

Each inductive invariant was searched for counterexamples by TLC, as an invariant of
the component's run, before it was proved; for FilterModels on two executors and two
voters as well. The proofs needed names for the record types of some modules
(`Row`, `Thread`, `Model` and so on in `TypeOK`) and facts the code gives, now among the
assumptions: there is a task to count, the extractions have a capacity, and executors,
voters and the trainer are different transactions.

The theorems `TrainingExclusion` and `LimitsHold` of `GpuLeaseProofs` have no run of their
own: `gpu_lease_safety` checks `ImplementsDeviceLock`, which implies both. The
`TypeCorrect` of WorkerPool, FilterTasks and FilterTracking have none either: there the
other invariants are worth more of the time of a run.

Model-checked only: liveness (out of the prover's reach) and `GrantLeavesReserve` (its sum
over the holders is a fold, which would need induction).

## 6. Not modelled

Components marked `not_modelled` in `PROJECT.json`. Of the others:

* compression: ffmpeg's command line and progress, the codec policy, the direct path
  `service.process`, which no schedule calls, a second server running the job
  after the connection of its advisory lock broke, files still being written when two
  scans find them equal, image sources refused as unsafe, what happens to images
  inside a tree;
* tasks: `process_round` of the ungrouped mode (`runtime.py:411-478`), notifications,
  a control round that an exception keeps ending;
* workers: the one-shot path of `worker_client.py` (73-163), a `close()` that
  raises, the cache of models inside a worker;
* tracking: several assets with equal content, duplicates within a scan, the
  probing of media, the file lock of the ungrouped mode;
* models: tensors, metrics (`evaluation.py`, `mil.py`), chunks and digests of feature
  files; what a model learns is numerical. The final snapshot of a training run and
  its commit are one step;
* configuration, pages, reports, dashboard and logs: parsing and read-only views;
  the iwara queue, JD scores and the VPS backup: single requests on one status column or
  on none.
