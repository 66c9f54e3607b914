--------------------------- MODULE FilterTransfer ---------------------------
(***************************************************************************)
(* Moving one classified video out of the unclassified directory:          *)
(* video_filter/transfer.py, the feedback journal of feedback.py, and the  *)
(* two actors that run a transfer.  The executor thread of a classify task *)
(* plans the operation and advances it; the control round                  *)
(* (supervisor.py:512-529) advances operations whose task is not running.  *)
(* After a reconfiguration both may be at work on the same operation.      *)
(*                                                                         *)
(* An operation copies the source to a hidden witness beside the target,   *)
(* links the witness to the target name, records both, removes the source  *)
(* and drops the witness.  A step here ends at a commit, at an effect on   *)
(* the file system, or where the asset's row lock is taken or given back.  *)
(*                                                                         *)
(* Abstracted: a task's frozen inputs are its configuration, the label     *)
(* revision and the model.  Bytes are the video or something else.  A      *)
(* target is told by the task whose witness it is a link to.  Nobody       *)
(* touches witnesses, edits a file in place or puts the video back.        *)
(***************************************************************************)
EXTENDS Naturals

CONSTANTS
    Tasks,       \* classify tasks of the one video
    Feedbacks,   \* decisions of the user about it
    Dirs,        \* predicted_like and predicted_dislike
    Verdict,     \* the directory each model predicts for the video
    Control,     \* the control round
    MaxLabel,    \* bound: label revisions
    MaxModel,    \* bound: models trained after the first
    MaxTries,    \* attempts < 3 of the retry request
    MaxFaults,   \* bound: crashes and failed operations of the system
    MaxMoves,    \* bound: what people do to the files
    MaxFlips,    \* bound: reconfigurations
    Careful      \* the source is not replaced between its last check and unlink

ASSUME TransferAssumption ==
    /\ Control \notin Tasks /\ "none" \notin Tasks \cup {Control}
    /\ "foreign" \notin Tasks
    /\ {MaxLabel, MaxModel, MaxTries, MaxFaults, MaxMoves, MaxFlips} \subseteq Nat /\ MaxTries > 0
    /\ Verdict \in [0 .. MaxModel -> Dirs]
    /\ Careful \in BOOLEAN

Actors == Tasks \cup {Control}
Unfinished == {"planned", "verified", "published"}
Statuses == {"none", "cleaned", "conflict"} \cup Unfinished
Steps == {"idle", "examine", "hash", "plan", "advance", "stage", "copy", "reload",
          "check", "record", "confirm", "final", "remove", "removed", "sweep"}

VARIABLES
    task,      \* status of the task rows; "none" before they are enqueued
    home,      \* configuration, label revision and model it was enqueued for
    tries,     \* attempts of each task
    op,        \* status of each task's TransferOperation
    noted,     \* what the lineage event saw at the source when it was planned
    lineage,   \* the last phase the lineage of the operation has
    act,       \* what each actor is doing
    lock,      \* who holds the asset row
    src,       \* the file at the source path
    tgt,       \* the file of that name in each destination
    wit,       \* the witness of each task
    journal,   \* the feedback journal and its events
    label,     \* label revision of the asset
    model,     \* the active model
    config,    \* the configured directories
    active,    \* the configuration revision in the active slot
    gone,      \* a person removed the last visible copy of the video
    spent      \* budgets used: faults, moves, flips

rows == <<task, home, tries, op, noted, lineage>>
files == <<src, tgt, wit, gone>>
world == <<journal, label, model, config, active>>
vars == <<rows, act, lock, files, world, spent>>

Idle(a) == [step |-> "idle", on |-> a, st |-> "none", cfg |-> 0]

TypeOK ==
    /\ task \in [Tasks -> {"none", "queued", "running", "succeeded", "failed", "cancelled"}]
    /\ home \in [Tasks -> [cfg : {0, 1}, label : 0 .. MaxLabel, model : 0 .. MaxModel]]
    /\ tries \in [Tasks -> 0 .. MaxTries]
    /\ op \in [Tasks -> Statuses]
    /\ noted \in [Tasks -> {"none", "video", "other"}]
    /\ lineage \in [Tasks -> {"none", "planned", "published", "misfiled", "cleaned"}]
    /\ act \in [Actors -> [step : Steps, on : Actors, st : Statuses, cfg : {0, 1}]]
    /\ lock \in Actors \cup {"none"}
    /\ src \in {"none", "video", "other"}
    /\ tgt \in [Dirs -> Tasks \cup {"none", "foreign"}]
    /\ wit \in [Tasks -> {"none", "partial", "whole"}]
    /\ journal \in [Feedbacks -> [st : {"none", "written", "applied", "gone"}, expected : 0 .. MaxLabel]]
    /\ label \in 0 .. MaxLabel /\ model \in 0 .. MaxModel /\ config \in {0, 1} /\ active \in {0, 1}
    /\ gone \in BOOLEAN
    /\ spent \in [faults : 0 .. MaxFaults, moves : 0 .. MaxMoves, flips : 0 .. MaxFlips]

Init ==
    /\ task = [t \in Tasks |-> "none"]
    /\ home = [t \in Tasks |-> [cfg |-> 0, label |-> 0, model |-> 0]]
    /\ tries = [t \in Tasks |-> 0]
    /\ op = [t \in Tasks |-> "none"]
    /\ noted = [t \in Tasks |-> "none"]
    /\ lineage = [t \in Tasks |-> "none"]
    /\ act = [a \in Actors |-> Idle(a)]
    /\ lock = "none"
    /\ src = "video"
    /\ tgt = [d \in Dirs |-> "none"]
    /\ wit = [t \in Tasks |-> "none"]
    /\ journal = [f \in Feedbacks |-> [st |-> "none", expected |-> 0]]
    /\ label = 0 /\ model = 0 /\ config = 0 /\ active = 0
    /\ gone = FALSE
    /\ spent = [faults |-> 0, moves |-> 0, flips |-> 0]

(***************************************************************************)
(* The gate.  It compares the settings the actor was started with, the     *)
(* active revision, the journal directory and, once it has the asset's row *)
(* lock, the task's snapshot.                                              *)
(***************************************************************************)
Pending == \E f \in Feedbacks : journal[f].st \in {"written", "applied"}
Configured(a) == act[a].cfg = home[act[a].on].cfg /\ act[a].cfg = active
Gate(a) ==
    /\ Configured(a) /\ ~Pending
    /\ label = home[act[a].on].label /\ model = home[act[a].on].model
Refusal(a) == IF Configured(a) /\ Pending THEN "deferred" ELSE "changed"

Dest(t) == Verdict[home[t].model]
Samefile(t) == wit[t] # "none" /\ tgt[Dest(t)] = t

Go(a, step) == act' = [act EXCEPT ![a].step = step]

(* A commit or a rollback gives the row lock back.                         *)
Unlocked(a) == IF lock = a THEN "none" ELSE lock

(***************************************************************************)
(* The end of an executor's run updates its task only while it is running, *)
(* the control round's in any case.  A failure leaves the operation of an  *)
(* executor as it is, and makes the control round give it up unless it is  *)
(* deferred.                                                               *)
(***************************************************************************)
Outcome == [deferred |-> "queued", changed |-> "cancelled", error |-> "failed"]

Fail(a, why) ==
    LET t == act[a].on IN
    /\ act' = [act EXCEPT ![a] = Idle(a)]
    /\ lock' = Unlocked(a)
    /\ IF a = Control
       THEN /\ op' = [op EXCEPT ![t] = IF why = "deferred" THEN @ ELSE "conflict"]
            /\ UNCHANGED <<task, tries>>
       ELSE /\ task' = [task EXCEPT ![t] = IF @ = "running" THEN Outcome[why] ELSE @]
            /\ tries' = [tries EXCEPT ![t] =
                           IF task[t] = "running" /\ why = "deferred" THEN @ - 1 ELSE @]
            /\ UNCHANGED op
    /\ UNCHANGED <<home, noted, lineage, files, world, spent>>

Finish(a) ==
    LET t == act[a].on IN
    /\ act' = [act EXCEPT ![a] = Idle(a)]
    /\ task' = [task EXCEPT ![t] = IF a = Control \/ @ = "running" THEN "succeeded" ELSE @]

(* The operation is found in a state that cannot be continued.             *)
GiveUp(a, why) ==
    LET t == act[a].on IN
    /\ act' = [act EXCEPT ![a] = Idle(a)]
    /\ op' = [op EXCEPT ![t] = "conflict"]
    /\ task' = [task EXCEPT ![t] = IF a # Control /\ @ = "running" THEN Outcome[why] ELSE @]
    /\ UNCHANGED <<home, tries, noted, lineage, lock, files, world, spent>>

(***************************************************************************)
(* Planning, by the executor of a task that has no operation yet.          *)
(***************************************************************************)
(* Both looks at the gate end in a commit, so they keep no lock.           *)
Examine(a) ==
    /\ act[a].step = "examine" /\ lock = "none"
    /\ IF Gate(a)
       THEN Go(a, "hash") /\ UNCHANGED <<rows, lock, files, world, spent>>
       ELSE Fail(a, Refusal(a))

HashSource(a) ==
    /\ act[a].step = "hash" /\ lock = "none"
    /\ CASE src # "video" -> Fail(a, "changed")
         [] src = "video" /\ ~Gate(a) -> Fail(a, Refusal(a))
         [] OTHER -> Go(a, "plan") /\ UNCHANGED <<rows, lock, files, world, spent>>

(* begin_operation reads the source once more and takes what it finds.     *)
Plan(a) ==
    LET t == act[a].on IN
    /\ act[a].step = "plan"
    /\ IF tgt[Dest(t)] # "none" \/ src = "none"
       THEN Fail(a, "error")
       ELSE /\ op' = [op EXCEPT ![t] = "planned"]
            /\ noted' = [noted EXCEPT ![t] = src]
            /\ lineage' = [lineage EXCEPT ![t] = "planned"]
            /\ act' = [act EXCEPT ![a].step = "advance", ![a].st = "planned"]
            /\ UNCHANGED <<task, home, tries, lock, files, world, spent>>

(***************************************************************************)
(* advance_transfer.                                                       *)
(***************************************************************************)
Entry == [planned |-> "stage", verified |-> "check", published |-> "confirm"]

Advance(a) ==
    /\ act[a].step = "advance"
    /\ CASE act[a].st = "cleaned" ->
              Finish(a) /\ UNCHANGED <<home, tries, op, noted, lineage, lock, files, world, spent>>
         [] act[a].st = "conflict" -> Fail(a, "error")
         [] OTHER ->
              /\ lock = "none"
              /\ IF Gate(a)
                 THEN Go(a, Entry[act[a].st]) /\ UNCHANGED <<rows, lock, files, world, spent>>
                 ELSE Fail(a, Refusal(a))

Stage(a) ==
    LET t == act[a].on IN
    /\ act[a].step = "stage"
    /\ CASE src # noted[t] \/ tgt[Dest(t)] # "none" -> Fail(a, "error")
         [] src = noted[t] /\ tgt[Dest(t)] = "none" /\ wit[t] # "none" -> GiveUp(a, "error")
         [] OTHER -> /\ wit' = [wit EXCEPT ![t] = "partial"]
                     /\ Go(a, "copy")
                     /\ UNCHANGED <<rows, lock, src, tgt, gone, world, spent>>

(* The copy is complete, synced and its digest is the one classified.      *)
Copy(a) ==
    LET t == act[a].on IN
    /\ act[a].step = "copy"
    /\ IF src # "video" \/ noted[t] # "video"
       THEN Fail(a, "error")
       ELSE /\ wit' = [wit EXCEPT ![t] = "whole"]
            /\ op' = [op EXCEPT ![t] = "verified"]
            /\ Go(a, "reload")
            /\ UNCHANGED <<task, home, tries, noted, lineage, lock, src, tgt, gone, world, spent>>

(* After a commit the row is read again, as another session may have left  *)
(* it; a status no branch knows ends the call without an error.            *)
Reload(a) ==
    LET t == act[a].on IN
    /\ act[a].step = "reload"
    /\ IF op[t] \in {"verified", "published"}
       THEN /\ act' = [act EXCEPT ![a].step = Entry[op[t]], ![a].st = op[t]]
            /\ UNCHANGED <<rows, lock, files, world, spent>>
       ELSE Finish(a) /\ UNCHANGED <<home, tries, op, noted, lineage, lock, files, world, spent>>

(* The lock taken by this look at the gate is kept until the publication   *)
(* is committed.  os.link fails on an existing name.                       *)
Publish(a) ==
    LET t == act[a].on IN
    /\ act[a].step = "check" /\ lock = "none"
    /\ CASE wit[t] # "whole" -> Fail(a, "error")
         [] wit[t] = "whole" /\ ~Gate(a) -> Fail(a, Refusal(a))
         [] wit[t] = "whole" /\ Gate(a) /\ tgt[Dest(t)] \notin {"none", t} -> Fail(a, "error")
         [] OTHER -> /\ lock' = a
                     /\ tgt' = [tgt EXCEPT ![Dest(t)] = t]
                     /\ Go(a, "record")
                     /\ UNCHANGED <<rows, src, wit, gone, world, spent>>

(* record_published and the Location of the target, in one transaction.    *)
(* The first call takes the file it finds at the target, a later one asks  *)
(* for the same file.                                                      *)
Record(a) ==
    LET t == act[a].on IN
    /\ act[a].step = "record"
    /\ IF \/ src \notin {"none", noted[t]} \/ tgt[Dest(t)] = "none"
          \/ src = "none" /\ lineage[t] = "planned"
          \/ lineage[t] # "planned" /\ (lineage[t] = "misfiled" \/ tgt[Dest(t)] # t)
       THEN Fail(a, "error")
       ELSE /\ op' = [op EXCEPT ![t] = "published"]
            /\ lineage' = [lineage EXCEPT ![t] =
                              IF @ # "planned" THEN @
                              ELSE IF tgt[Dest(t)] = t THEN "published" ELSE "misfiled"]
            /\ lock' = Unlocked(a)
            /\ Go(a, "reload")
            /\ UNCHANGED <<task, home, tries, noted, files, world, spent>>

(* A slip: cleanup does not hash the source again.                       *)
ConfirmTarget(a) ==
    LET t == act[a].on IN
    /\ act[a].step = "confirm" /\ lock = "none"
    /\ CASE ~Gate(a) -> Fail(a, Refusal(a))
         [] Gate(a) /\ ~Samefile(t) -> GiveUp(a, "changed")
         [] OTHER -> Go(a, "final") /\ UNCHANGED <<rows, lock, files, world, spent>>

(* The gate at the start of the branch, then the hashes without the lock.  *)
Confirm(a) ==
    LET t == act[a].on IN
    /\ act[a].step = "confirm" /\ lock = "none"
    /\ CASE ~Gate(a) -> Fail(a, Refusal(a))
         [] Gate(a) /\ ~Samefile(t) -> GiveUp(a, "changed")
         [] Gate(a) /\ Samefile(t) /\ src \notin {"none", noted[t]} -> Fail(a, "error")
         [] OTHER -> Go(a, "final") /\ UNCHANGED <<rows, lock, files, world, spent>>

(* A slip: the second look at the gate commits before the removal.       *)
FinalUnlocked(a) ==
    LET t == act[a].on IN
    /\ act[a].step = "final" /\ lock = "none"
    /\ CASE ~Gate(a) -> Fail(a, Refusal(a))
         [] Gate(a) /\ ~Samefile(t) -> Fail(a, "changed")
         [] OTHER -> Go(a, "remove") /\ UNCHANGED <<rows, lock, files, world, spent>>

Final(a) ==
    LET t == act[a].on IN
    /\ act[a].step = "final" /\ lock = "none"
    /\ CASE ~Gate(a) -> Fail(a, Refusal(a))
         [] Gate(a) /\ ~Samefile(t) -> Fail(a, "changed")
         [] OTHER -> Go(a, "remove") /\ lock' = a /\ UNCHANGED <<rows, files, world, spent>>

(* A slip: the witness is dropped with the source.                       *)
RemoveBoth(a) ==
    /\ act[a].step = "remove"
    /\ src' = "none"
    /\ wit' = [wit EXCEPT ![act[a].on] = "none"]
    /\ Go(a, "removed")
    /\ UNCHANGED <<rows, lock, tgt, gone, world, spent>>

Remove(a) ==
    /\ act[a].step = "remove"
    /\ src' = "none"
    /\ Go(a, "removed")
    /\ UNCHANGED <<rows, lock, tgt, wit, gone, world, spent>>

(* record_source_removed hashes the target once more before the commit,    *)
(* unless the lineage is complete already.                                 *)
Removed(a) ==
    LET t == act[a].on IN
    /\ act[a].step = "removed"
    /\ IF lineage[t] # "cleaned" /\ (src # "none" \/ lineage[t] # "published" \/ tgt[Dest(t)] # t)
       THEN Fail(a, "error")
       ELSE /\ op' = [op EXCEPT ![t] = "cleaned"]
            /\ lineage' = [lineage EXCEPT ![t] = "cleaned"]
            /\ lock' = Unlocked(a)
            /\ Go(a, "sweep")
            /\ UNCHANGED <<task, home, tries, noted, files, world, spent>>

Sweep(a) ==
    LET t == act[a].on IN
    /\ act[a].step = "sweep"
    /\ wit' = [wit EXCEPT ![t] = "none"]
    /\ Finish(a)
    /\ UNCHANGED <<home, tries, op, noted, lineage, lock, src, tgt, gone, world, spent>>

Step(a) ==
    \/ Examine(a) \/ HashSource(a) \/ Plan(a)
    \/ Advance(a) \/ Stage(a) \/ Copy(a) \/ Reload(a)
    \/ Publish(a) \/ Record(a) \/ Confirm(a) \/ Final(a)
    \/ Remove(a) \/ Removed(a) \/ Sweep(a)

(* A file or the database fails under an actor.                            *)
IoFail(a) ==
    /\ act[a].step # "idle" /\ spent.faults < MaxFaults
    /\ LET t == act[a].on IN
       /\ act' = [act EXCEPT ![a] = Idle(a)]
       /\ lock' = Unlocked(a)
       /\ op' = [op EXCEPT ![t] = IF a = Control THEN "conflict" ELSE @]
       /\ task' = [task EXCEPT ![t] = IF a # Control /\ @ = "running" THEN "failed" ELSE @]
    /\ spent' = [spent EXCEPT !.faults = @ + 1]
    /\ UNCHANGED <<home, tries, noted, lineage, files, world>>

(***************************************************************************)
(* What starts and ends a run.                                             *)
(***************************************************************************)
(* The same inputs give the task that is there.                            *)
Enqueue(t) ==
    LET inputs == [cfg |-> config, label |-> label, model |-> model] IN
    /\ task[t] = "none" /\ config = active /\ src = "video"
    /\ \A u \in Tasks : task[u] # "none" => home[u] # inputs
    /\ task' = [task EXCEPT ![t] = "queued"]
    /\ home' = [home EXCEPT ![t] = inputs]
    /\ UNCHANGED <<tries, op, noted, lineage, act, lock, files, world, spent>>

Start(t) ==
    /\ task[t] = "queued" /\ act[t].step = "idle" /\ act[Control].step = "idle" /\ ~Pending
    /\ tries' = [tries EXCEPT ![t] = @ + 1]
    /\ IF home[t].cfg # config
       THEN /\ task' = [task EXCEPT ![t] = "cancelled"]
            /\ UNCHANGED act
       ELSE /\ task' = [task EXCEPT ![t] = "running"]
            /\ act' = [act EXCEPT ![t] = [step |-> IF op[t] = "none" THEN "examine" ELSE "advance",
                                         on |-> t, st |-> op[t], cfg |-> config]]
    /\ UNCHANGED <<home, op, noted, lineage, lock, files, world, spent>>

(* A slip: recovery is only for what has been published.                 *)
RecoverPublished(t) ==
    /\ act[Control].step = "idle" /\ op[t] = "published" /\ task[t] # "running"
    /\ act' = [act EXCEPT ![Control] = [step |-> "advance", on |-> t, st |-> op[t], cfg |-> config]]
    /\ UNCHANGED <<rows, lock, files, world, spent>>

Recover(t) ==
    /\ act[Control].step = "idle" /\ op[t] \in Unfinished /\ task[t] # "running"
    /\ act' = [act EXCEPT ![Control] = [step |-> "advance", on |-> t, st |-> op[t], cfg |-> config]]
    /\ UNCHANGED <<rows, lock, files, world, spent>>

(* The control round finds the configuration of a running task replaced,   *)
(* or the process that ran it dead.                                        *)
Cancel(t) ==
    /\ task[t] = "running" /\ act[t].step # "idle" /\ act[t].cfg # config
    /\ act[Control].step = "idle"
    /\ task' = [task EXCEPT ![t] = "cancelled"]
    /\ UNCHANGED <<home, tries, op, noted, lineage, act, lock, files, world, spent>>

Interrupt(t) ==
    /\ task[t] = "running" /\ act[t].step = "idle" /\ act[Control].step = "idle"
    /\ task' = [task EXCEPT ![t] = "failed"]
    /\ UNCHANGED <<home, tries, op, noted, lineage, act, lock, files, world, spent>>

(* A slip: attempts are not limited.                                     *)
RetryAlways(t) ==
    /\ task[t] = "failed" /\ op[t] # "conflict" /\ home[t].cfg = config
    /\ task' = [task EXCEPT ![t] = "queued"]
    /\ UNCHANGED <<home, tries, op, noted, lineage, act, lock, files, world, spent>>

Retry(t) ==
    /\ task[t] = "failed" /\ op[t] # "conflict" /\ tries[t] < MaxTries /\ home[t].cfg = config
    /\ task' = [task EXCEPT ![t] = "queued"]
    /\ UNCHANGED <<home, tries, op, noted, lineage, act, lock, files, world, spent>>

(***************************************************************************)
(* Feedback, models, configuration, faults and people.                     *)
(***************************************************************************)
Journal(f, st) == journal' = [journal EXCEPT ![f].st = st]
Decide(f) ==
    /\ journal[f].st = "none"
    /\ journal' = [journal EXCEPT ![f] = [st |-> "written", expected |-> label]]
    /\ UNCHANGED <<rows, act, lock, files, label, model, config, active, spent>>

(* submit and replay: the asset's row is locked and its revision compared. *)
Apply(f) ==
    /\ journal[f].st = "written" /\ lock = "none" /\ journal[f].expected = label
    /\ label < MaxLabel
    /\ label' = label + 1
    /\ Journal(f, "applied")
    /\ UNCHANGED <<rows, act, lock, files, model, config, active, spent>>
Unlink(f) ==
    /\ \/ journal[f].st = "applied"
       \/ journal[f].st = "written" /\ journal[f].expected < label
    /\ Journal(f, "gone")
    /\ UNCHANGED <<rows, act, lock, files, label, model, config, active, spent>>

(* Training locks the assets it was trained on, which the gate locks too.  *)
Retrain ==
    /\ model < MaxModel /\ lock = "none"
    /\ model' = model + 1
    /\ UNCHANGED <<rows, act, lock, files, journal, label, config, active, spent>>

Reconfigure ==
    /\ spent.flips < MaxFlips
    /\ config' = 1 - config
    /\ spent' = [spent EXCEPT !.flips = @ + 1]
    /\ UNCHANGED <<rows, act, lock, files, journal, label, model, active>>

(* A scan of the new directories activates the revision.                   *)
Activate ==
    /\ active # config
    /\ active' = config
    /\ task' = [t \in Tasks |-> IF task[t] = "queued" /\ home[t].cfg # config
                                THEN "cancelled" ELSE task[t]]
    /\ UNCHANGED <<home, tries, op, noted, lineage, act, lock, files, journal, label, model, config, spent>>

Faulty == spent.faults < MaxFaults /\ spent' = [spent EXCEPT !.faults = @ + 1]
Crash ==
    /\ Faulty
    /\ \E a \in Actors : act[a].step # "idle"
    /\ act' = [a \in Actors |-> Idle(a)]
    /\ lock' = "none"
    /\ UNCHANGED <<rows, files, world>>

Move ==
    /\ spent.moves < MaxMoves
    /\ spent' = [spent EXCEPT !.moves = @ + 1]
    /\ UNCHANGED <<rows, act, lock, wit, world>>
Visible == src = "video" \/ \E d \in Dirs : tgt[d] \in Tasks
MoveSource(c) ==
    /\ c # src
    /\ Careful => \A a \in Actors : act[a].step \notin {"final", "remove"}
    /\ src' = c
    /\ gone' = (gone \/ (src = "video" /\ \A d \in Dirs : tgt[d] \notin Tasks))
    /\ UNCHANGED tgt
    /\ Move
MoveTarget(d, c) ==
    /\ c # tgt[d]
    /\ tgt' = [tgt EXCEPT ![d] = c]
    /\ gone' = (gone \/ (Visible /\ src # "video" /\ \A e \in Dirs \ {d} : tgt[e] \notin Tasks))
    /\ UNCHANGED src
    /\ Move

Next ==
    \/ \E a \in Actors : Step(a) \/ IoFail(a)
    \/ \E t \in Tasks : \/ Enqueue(t) \/ Start(t) \/ Recover(t)
                        \/ Cancel(t) \/ Interrupt(t) \/ Retry(t)
    \/ \E f \in Feedbacks : Decide(f) \/ Apply(f) \/ Unlink(f)
    \/ Retrain \/ Reconfigure \/ Activate \/ Crash
    \/ \E c \in {"none", "other"} : MoveSource(c)
    \/ \E d \in Dirs, c \in {"none", "foreign"} : MoveTarget(d, c)

Spec == Init /\ [][Next]_vars

(* Threads run, a wait for the row lock ends when it keeps being given     *)
(* back, and the control round comes every two seconds.                    *)
Fairness ==
    /\ \A a \in Actors : SF_vars(Step(a))
    /\ \A t \in Tasks : SF_vars(Recover(t) \/ Interrupt(t))
    /\ \A f \in Feedbacks : SF_vars(Apply(f) \/ Unlink(f))
FairSpec == Spec /\ Fairness
-----------------------------------------------------------------------------
(***************************************************************************)
(* Properties.                                                             *)
(***************************************************************************)

(* However copies, links, commits and removals interleave with crashes,    *)
(* with a second actor and with people who take the target away at the     *)
(* worst moment, the system never removes the last copy of the video: one  *)
(* is at the source or a target or in a complete witness (transfer.py:     *)
(* 189-211), unless a person took the last one that could be seen.         *)
VideoSurvives == Visible \/ gone \/ \E t \in Tasks : wit[t] = "whole"

(* A source is removed on the label and the model it was classified with,  *)
(* though feedback and training go on meanwhile: between the last look at  *)
(* the gate and the removal the row lock keeps both from changing          *)
(* (transfer.py:200-204).                                                  *)
Removes(a) == act[a].step = "remove" /\ act'[a].step = "removed"
CurrentBasisOnly ==
    [][\A a \in Actors : Removes(a) => LET h == home[act[a].on] IN
         label = h.label /\ model = h.model]_vars

(* The file removed at the source is the one that was planned, its         *)
(* publication is on record, and the status the row shows for it is not    *)
(* one from before publication (transfer.py:189-204).                      *)
RemovesOnlyItsSource ==
    [][\A a \in Actors : Removes(a) => LET t == act[a].on IN
         src \in {"none", noted[t]} /\ lineage[t] # "planned"]_vars

(* Every operation ends cleaned or in conflict for a person to look at:    *)
(* what an executor leaves half done the control round takes up, and what  *)
(* it defers for feedback goes on when the journal is replayed             *)
(* (supervisor.py:512-529).                                                *)
OperationsSettle == \A t \in Tasks : (op[t] \in Unfinished) ~> (op[t] \notin Unfinished)
=============================================================================
