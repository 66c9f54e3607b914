------------------------ MODULE FilterTransferProofs ------------------------
(***************************************************************************)
(* A transfer never loses the video and removes its source only on the     *)
(* label and the model it was classified with, for any number of tasks,    *)
(* decisions, directories, models, faults and moves.                       *)
(***************************************************************************)
EXTENDS FilterTransfer, TLAPS

(***************************************************************************)
(* Types.  An actor at work has a task that was enqueued, and attempts     *)
(* are counted when a task starts and taken back when it is deferred.      *)
(***************************************************************************)
Engaged ==
    \A a \in Actors : act[a].step # "idle" =>
        /\ act[a].on \in Tasks /\ task[act[a].on] # "none"
        /\ act[a].step = "advance" => act[a].st # "none"
Untouched == \A t \in Tasks : task[t] = "none" => op[t] = "none" /\ wit[t] = "none"
Attempts ==
    \A t \in Tasks : /\ task[t] \in {"none", "queued"} => tries[t] < MaxTries
                     /\ task[t] = "running" => tries[t] > 0
TypeInv == TypeOK /\ Engaged /\ Untouched /\ Attempts

LEMMA Bounds ==
    /\ Control \in Actors /\ Tasks \subseteq Actors /\ "none" \notin Actors
    /\ MaxLabel \in Nat /\ MaxModel \in Nat /\ MaxTries \in Nat \ {0}
    /\ MaxFaults \in Nat /\ MaxMoves \in Nat /\ MaxFlips \in Nat
BY TransferAssumption DEF Actors

LEMMA DestinationExists ==
    ASSUME TypeOK, NEW t \in Tasks
    PROVE  Dest(t) \in Dirs
BY TransferAssumption DEF TypeOK, Dest

LEMMA FailKeepsTypes ==
    ASSUME TypeInv, NEW a \in Actors, act[a].step # "idle",
           NEW why \in {"deferred", "changed", "error"}, Fail(a, why)
    PROVE  TypeInv'
<1> USE DEF TypeInv, TypeOK, rows, files, world
<1>1. act[a].on \in Tasks /\ task[act[a].on] # "none"
  BY DEF Engaged
<1>2. /\ act' \in [Actors -> [step : Steps, on : Actors, st : Statuses, cfg : {0, 1}]]
      /\ lock' \in Actors \cup {"none"} /\ op' \in [Tasks -> Statuses]
  BY <1>1 DEF Fail, Idle, Unlocked, Steps, Statuses, Unfinished
<1>3. /\ task' \in [Tasks -> {"none", "queued", "running", "succeeded", "failed", "cancelled"}]
      /\ tries' \in [Tasks -> 0 .. MaxTries] /\ Attempts'
  <2>1. CASE a = Control
    BY <2>1 DEF Fail, Attempts
  <2>2. CASE a # Control
    <3> DEFINE t == act[a].on
    <3>1. task[t] = "running" => tries[t] \in 1 .. MaxTries
      BY <1>1, Bounds DEF Attempts
    <3>2. \E s \in {"queued", "running", "succeeded", "failed", "cancelled"}, n \in 0 .. MaxTries :
             /\ task' = [task EXCEPT ![t] = s] /\ tries' = [tries EXCEPT ![t] = n]
             /\ s = "queued" => n < MaxTries
             /\ s = "running" => n > 0
      <4>1. CASE task[t] # "running"
        <5>1. task' = [task EXCEPT ![t] = task[t]] /\ tries' = [tries EXCEPT ![t] = tries[t]]
          BY <2>2, <4>1 DEF Fail
        <5>2. task[t] \in {"queued", "succeeded", "failed", "cancelled"} /\ tries[t] \in 0 .. MaxTries
          BY <1>1, <4>1
        <5>3. task[t] = "queued" => tries[t] < MaxTries
          BY <1>1 DEF Attempts
        <5>4. QED
          BY <4>1, <5>1, <5>2, <5>3
      <4>2. CASE task[t] = "running" /\ why = "deferred"
        <5>1. task' = [task EXCEPT ![t] = "queued"] /\ tries' = [tries EXCEPT ![t] = tries[t] - 1]
          BY <2>2, <4>2 DEF Fail, Outcome
        <5>2. tries[t] - 1 \in 0 .. MaxTries /\ tries[t] - 1 < MaxTries
          BY <3>1, <4>2, Bounds
        <5>3. QED
          BY <5>1, <5>2
      <4>3. CASE task[t] = "running" /\ why # "deferred"
        BY <1>1, <2>2, <3>1, <4>3 DEF Fail, Outcome
      <4>4. QED
        BY <4>1, <4>2, <4>3
    <3>3. QED
      BY <1>1, <3>2 DEF Attempts
  <2>3. QED
    BY <2>1, <2>2
<1>4. \A t \in Tasks : task'[t] = "none" <=> task[t] = "none"
  BY <1>1 DEF Fail, Outcome
<1>5. Engaged'
  BY <1>1, <1>4 DEF Fail, Engaged, Idle
<1>6. Untouched'
  BY <1>1, <1>4 DEF Fail, Untouched
<1>7. QED
  BY <1>2, <1>3, <1>5, <1>6 DEF Fail

LEMMA GiveUpKeepsTypes ==
    ASSUME TypeInv, NEW a \in Actors, act[a].step # "idle",
           NEW why \in {"changed", "error"}, GiveUp(a, why)
    PROVE  TypeInv'
<1> USE DEF TypeInv, TypeOK, rows, files, world
<1>1. act[a].on \in Tasks /\ task[act[a].on] # "none"
  BY DEF Engaged
<1>2. /\ act' \in [Actors -> [step : Steps, on : Actors, st : Statuses, cfg : {0, 1}]]
      /\ op' \in [Tasks -> Statuses]
  BY <1>1 DEF GiveUp, Idle, Steps, Statuses, Unfinished
<1>3. /\ task' \in [Tasks -> {"none", "queued", "running", "succeeded", "failed", "cancelled"}]
      /\ Attempts'
  BY <1>1, Bounds DEF GiveUp, Outcome, Attempts
<1>4. \A t \in Tasks : task'[t] = "none" <=> task[t] = "none"
  BY <1>1 DEF GiveUp, Outcome
<1>5. Engaged'
  BY <1>1, <1>4 DEF GiveUp, Engaged, Idle
<1>6. Untouched'
  BY <1>1, <1>4 DEF GiveUp, Untouched
<1>7. QED
  BY <1>2, <1>3, <1>5, <1>6 DEF GiveUp

LEMMA GoKeepsTypes ==
    ASSUME TypeInv, NEW a \in Actors, act[a].step # "idle",
           NEW step \in Steps \ {"advance"}, Go(a, step), UNCHANGED task
    PROVE  /\ act' \in [Actors -> [step : Steps, on : Actors, st : Statuses, cfg : {0, 1}]]
           /\ Engaged'
<1>1. act' \in [Actors -> [step : Steps, on : Actors, st : Statuses, cfg : {0, 1}]]
  BY DEF TypeInv, TypeOK, Go
<1>2. Engaged'
  BY DEF TypeInv, TypeOK, Engaged, Go
<1>3. QED
  BY <1>1, <1>2

LEMMA FinishKeepsTypes ==
    ASSUME TypeInv, NEW a \in Actors, act[a].step # "idle", Finish(a), UNCHANGED <<op, tries>>
    PROVE  /\ act' \in [Actors -> [step : Steps, on : Actors, st : Statuses, cfg : {0, 1}]]
           /\ task' \in [Tasks -> {"none", "queued", "running", "succeeded", "failed", "cancelled"}]
           /\ Engaged' /\ Attempts'
           /\ \A t \in Tasks : task'[t] = "none" <=> task[t] = "none"
<1> USE DEF TypeInv, TypeOK
<1>1. act[a].on \in Tasks /\ task[act[a].on] # "none"
  BY DEF Engaged
<1>2. \A t \in Tasks : task'[t] = "none" <=> task[t] = "none"
  BY <1>1 DEF Finish
<1>3. act' \in [Actors -> [step : Steps, on : Actors, st : Statuses, cfg : {0, 1}]]
  BY DEF Finish, Idle, Steps, Statuses
<1>4. Engaged'
  BY <1>2 DEF Finish, Idle, Engaged
<1>5. /\ task' \in [Tasks -> {"none", "queued", "running", "succeeded", "failed", "cancelled"}]
      /\ Attempts'
  <2>1. \/ task' = [task EXCEPT ![act[a].on] = "succeeded"]
        \/ task' = [task EXCEPT ![act[a].on] = task[act[a].on]]
    BY DEF Finish
  <2>2. QED
    BY <1>1, <2>1 DEF Attempts
<1>6. QED
  BY <1>2, <1>3, <1>4, <1>5

LEMMA NewStep ==
    ASSUME TypeOK, NEW a \in Actors, NEW step \in Steps, NEW st \in Statuses,
           act' = [act EXCEPT ![a].step = step, ![a].st = st]
    PROVE  act' \in [Actors -> [step : Steps, on : Actors, st : Statuses, cfg : {0, 1}]]
<1> DEFINE Acting == [step : Steps, on : Actors, st : Statuses, cfg : {0, 1}]
           half == [act EXCEPT ![a].step = step]
<1>1. half \in [Actors -> Acting]
  BY DEF TypeOK
<1>2. act' = [half EXCEPT ![a].st = st]
  OBVIOUS
<1>3. ASSUME NEW f \in [Actors -> Acting]
      PROVE  [f EXCEPT ![a].st = st] \in [Actors -> Acting]
  OBVIOUS
<1> HIDE DEF half, Acting
<1>4. act' \in [Actors -> Acting]
  BY <1>1, <1>2, <1>3
<1>5. QED
  BY <1>4 DEF Acting

LEMMA RefusalKind ==
    \A a \in Actors : Refusal(a) \in {"deferred", "changed", "error"}
BY DEF Refusal

LEMMA RefusalsKeepTypes ==
    ASSUME TypeInv, NEW a \in Actors, act[a].step # "idle",
           \/ Fail(a, "error") \/ Fail(a, "changed") \/ Fail(a, Refusal(a))
           \/ GiveUp(a, "error") \/ GiveUp(a, "changed")
    PROVE  TypeInv'
BY FailKeepsTypes, GiveUpKeepsTypes, RefusalKind

LEMMA PlanningKeepsTypes ==
    ASSUME TypeInv, NEW a \in Actors, Examine(a) \/ HashSource(a) \/ Plan(a)
    PROVE  TypeInv'
<1>0. ASSUME \/ Fail(a, "error") \/ Fail(a, "changed") \/ Fail(a, Refusal(a))
             \/ GiveUp(a, "error") \/ GiveUp(a, "changed")
      PROVE  TypeInv'
  BY <1>0, RefusalsKeepTypes DEF Examine, HashSource, Plan
<1> USE DEF TypeInv, TypeOK, rows, files, world
<1>1. CASE Examine(a)
  <2>1. CASE Gate(a)
    BY <1>1, <2>1, GoKeepsTypes DEF Examine, Steps, Untouched, Attempts
  <2>2. CASE Fail(a, Refusal(a))
    BY <1>0, <2>2
  <2>3. QED
    BY <1>1, <2>1, <2>2 DEF Examine
<1>2. CASE HashSource(a)
  <2>1. CASE Fail(a, "changed") \/ Fail(a, Refusal(a))
    BY <1>0, <2>1
  <2>2. CASE Go(a, "plan") /\ UNCHANGED <<rows, lock, files, world, spent>>
    BY <1>2, <2>2, GoKeepsTypes DEF HashSource, Steps, Untouched, Attempts
  <2>3. QED
    BY <1>2, <2>1, <2>2 DEF HashSource
<1>3. CASE Plan(a)
  <2>1. CASE Fail(a, "error")
    BY <1>0, <2>1
  <2>2. CASE ~Fail(a, "error")
    <3>1. act[a].on \in Tasks /\ task[act[a].on] # "none"
      BY <1>3 DEF Plan, Engaged
    <3>2. /\ op' = [op EXCEPT ![act[a].on] = "planned"]
          /\ noted' = [noted EXCEPT ![act[a].on] = src]
          /\ lineage' = [lineage EXCEPT ![act[a].on] = "planned"]
          /\ act' = [act EXCEPT ![a].step = "advance", ![a].st = "planned"]
      BY <1>3, <2>2 DEF Plan
    <3>3. op' \in [Tasks -> Statuses] /\ noted' \in [Tasks -> {"none", "video", "other"}]
      BY <3>1, <3>2 DEF Statuses, Unfinished
    <3>6. lineage' \in [Tasks -> {"none", "planned", "published", "misfiled", "cleaned"}]
      BY <3>1, <3>2
    <3>7. act' \in [Actors -> [step : Steps, on : Actors, st : Statuses, cfg : {0, 1}]]
      BY <3>2, NewStep DEF Steps, Statuses, Unfinished
    <3>4. Engaged' /\ Untouched' /\ Attempts'
      <4>1. UNCHANGED <<task, tries, wit>>
        BY <1>3, <2>2 DEF Plan
      <4>2. Engaged'
        BY <3>1, <3>2, <4>1 DEF Engaged
      <4>3. Untouched' /\ Attempts'
        BY <3>1, <3>2, <4>1 DEF Untouched, Attempts
      <4>4. QED
        BY <4>2, <4>3
    <3>5. QED
      BY <1>3, <2>2, <3>3, <3>4, <3>6, <3>7 DEF Plan
  <2>3. QED
    BY <2>1, <2>2
<1>4. QED
  BY <1>1, <1>2, <1>3

LEMMA CopyingKeepsTypes ==
    ASSUME TypeInv, NEW a \in Actors, Advance(a) \/ Stage(a) \/ Copy(a) \/ Reload(a)
    PROVE  TypeInv'
<1>0. ASSUME \/ Fail(a, "error") \/ Fail(a, "changed") \/ Fail(a, Refusal(a))
             \/ GiveUp(a, "error") \/ GiveUp(a, "changed")
      PROVE  TypeInv'
  BY <1>0, RefusalsKeepTypes DEF Advance, Stage, Copy, Reload
<1> USE DEF TypeInv, TypeOK, rows, files, world
<1>1. CASE Advance(a)
  <2>1. CASE Fail(a, "error") \/ Fail(a, Refusal(a))
    BY <1>0, <2>1
  <2>2. CASE Finish(a) /\ UNCHANGED <<home, tries, op, noted, lineage, lock, files, world, spent>>
    BY <1>1, <2>2, FinishKeepsTypes DEF Advance, Untouched
  <2>3. CASE Go(a, Entry[act[a].st]) /\ UNCHANGED <<rows, lock, files, world, spent>>
             /\ act[a].st \notin {"cleaned", "conflict"}
    <3>1. act[a].st \in Unfinished
      BY <1>1, <2>3 DEF Advance, Engaged, Statuses
    <3>2. Entry[act[a].st] \in Steps \ {"advance"}
      BY <3>1 DEF Entry, Unfinished, Steps
    <3>3. QED
      BY <1>1, <2>3, <3>2, GoKeepsTypes DEF Advance, Untouched, Attempts
  <2>4. QED
    BY <1>1, <2>1, <2>2, <2>3 DEF Advance
<1>2. CASE Stage(a)
  <2>1. CASE Fail(a, "error")
    BY <1>0, <2>1
  <2>2. CASE GiveUp(a, "error")
    BY <1>0, <2>2
  <2>3. CASE /\ wit' = [wit EXCEPT ![act[a].on] = "partial"]
             /\ Go(a, "copy")
             /\ UNCHANGED <<rows, lock, src, tgt, gone, world, spent>>
    <3>1. act[a].on \in Tasks /\ task[act[a].on] # "none"
      BY <1>2 DEF Stage, Engaged
    <3>2. QED
      BY <1>2, <2>3, <3>1, GoKeepsTypes DEF Stage, Steps, Untouched, Attempts
  <2>4. QED
    BY <1>2, <2>1, <2>2, <2>3 DEF Stage
<1>3. CASE Copy(a)
  <2>1. CASE Fail(a, "error")
    BY <1>0, <2>1
  <2>2. CASE ~Fail(a, "error")
    <3>1. act[a].on \in Tasks /\ task[act[a].on] # "none"
      BY <1>3 DEF Copy, Engaged
    <3>2. /\ op' = [op EXCEPT ![act[a].on] = "verified"]
          /\ wit' = [wit EXCEPT ![act[a].on] = "whole"]
          /\ task' = task
      BY <1>3, <2>2 DEF Copy
    <3>3. op' \in [Tasks -> Statuses] /\ wit' \in [Tasks -> {"none", "partial", "whole"}]
      BY <3>1, <3>2 DEF Statuses, Unfinished
    <3>4. Untouched'
      BY <3>1, <3>2 DEF Untouched
    <3>5. QED
      BY <1>3, <2>2, <3>3, <3>4, GoKeepsTypes DEF Copy, Steps, Attempts
  <2>3. QED
    BY <2>1, <2>2
<1>4. CASE Reload(a)
  <2>1. CASE Finish(a) /\ UNCHANGED <<home, tries, op, noted, lineage, lock, files, world, spent>>
    BY <1>4, <2>1, FinishKeepsTypes DEF Reload, Untouched
  <2>2. CASE /\ op[act[a].on] \in {"verified", "published"}
             /\ act' = [act EXCEPT ![a].step = Entry[op[act[a].on]], ![a].st = op[act[a].on]]
             /\ UNCHANGED <<rows, lock, files, world, spent>>
    <3>1. Entry[op[act[a].on]] \in {"check", "confirm"}
      BY <2>2 DEF Entry
    <3>2. act' \in [Actors -> [step : Steps, on : Actors, st : Statuses, cfg : {0, 1}]]
      BY <2>2, <3>1, NewStep DEF Steps, Statuses, Unfinished
    <3>3. Engaged'
      BY <1>4, <2>2, <3>1 DEF Reload, Engaged
    <3>4. QED
      BY <2>2, <3>2, <3>3 DEF Untouched, Attempts
  <2>3. QED
    BY <1>4, <2>1, <2>2 DEF Reload
<1>5. QED
  BY <1>1, <1>2, <1>3, <1>4

LEMMA PublishingKeepsTypes ==
    ASSUME TypeInv, NEW a \in Actors, Publish(a) \/ Record(a)
    PROVE  TypeInv'
<1>0. ASSUME \/ Fail(a, "error") \/ Fail(a, "changed") \/ Fail(a, Refusal(a))
             \/ GiveUp(a, "error") \/ GiveUp(a, "changed")
      PROVE  TypeInv'
  BY <1>0, RefusalsKeepTypes DEF Publish, Record
<1> USE DEF TypeInv, TypeOK, rows, files, world
<1>1. CASE Publish(a)
  <2>1. CASE Fail(a, "error") \/ Fail(a, Refusal(a))
    BY <1>0, <2>1
  <2>2. CASE /\ lock' = a
             /\ tgt' = [tgt EXCEPT ![Dest(act[a].on)] = act[a].on]
             /\ Go(a, "record")
             /\ UNCHANGED <<rows, src, wit, gone, world, spent>>
    <3>1. act[a].on \in Tasks
      BY <1>1 DEF Publish, Engaged
    <3>2. QED
      BY <1>1, <2>2, <3>1, GoKeepsTypes DEF Publish, Steps, Untouched, Attempts
  <2>3. QED
    BY <1>1, <2>1, <2>2 DEF Publish
<1>2. CASE Record(a)
  <2>1. CASE Fail(a, "error")
    BY <1>0, <2>1
  <2>2. CASE ~Fail(a, "error")
    <3>1. act[a].on \in Tasks /\ task[act[a].on] # "none"
      BY <1>2 DEF Record, Engaged
    <3>2. op' \in [Tasks -> Statuses] /\ Untouched'
      BY <1>2, <2>2, <3>1 DEF Record, Statuses, Unfinished, Untouched
    <3>3. lineage' \in [Tasks -> {"none", "planned", "published", "misfiled", "cleaned"}]
      BY <1>2, <2>2, <3>1 DEF Record
    <3>4. lock' \in Actors \cup {"none"}
      BY <1>2, <2>2 DEF Record, Unlocked
    <3>5. QED
      BY <1>2, <2>2, <3>2, <3>3, <3>4, GoKeepsTypes DEF Record, Steps, Attempts
  <2>3. QED
    BY <2>1, <2>2
<1>3. QED
  BY <1>1, <1>2

LEMMA CleaningKeepsTypes ==
    ASSUME TypeInv, NEW a \in Actors,
           Confirm(a) \/ Final(a) \/ Remove(a) \/ Removed(a) \/ Sweep(a)
    PROVE  TypeInv'
<1>0. ASSUME \/ Fail(a, "error") \/ Fail(a, "changed") \/ Fail(a, Refusal(a))
             \/ GiveUp(a, "error") \/ GiveUp(a, "changed")
      PROVE  TypeInv'
  BY <1>0, RefusalsKeepTypes DEF Confirm, Final, Remove, Removed, Sweep
<1> USE DEF TypeInv, TypeOK, rows, files, world
<1>1. CASE Confirm(a)
  <2>1. CASE Fail(a, "error") \/ Fail(a, Refusal(a))
    BY <1>0, <2>1
  <2>2. CASE GiveUp(a, "changed")
    BY <1>0, <2>2
  <2>3. CASE Go(a, "final") /\ UNCHANGED <<rows, lock, files, world, spent>>
    BY <1>1, <2>3, GoKeepsTypes DEF Confirm, Steps, Untouched, Attempts
  <2>4. QED
    BY <1>1, <2>1, <2>2, <2>3 DEF Confirm
<1>2. CASE Final(a)
  <2>1. CASE Fail(a, "changed") \/ Fail(a, Refusal(a))
    BY <1>0, <2>1
  <2>2. CASE Go(a, "remove") /\ lock' = a /\ UNCHANGED <<rows, files, world, spent>>
    BY <1>2, <2>2, GoKeepsTypes DEF Final, Steps, Untouched, Attempts
  <2>3. QED
    BY <1>2, <2>1, <2>2 DEF Final
<1>3. CASE Remove(a)
  BY <1>3, GoKeepsTypes DEF Remove, Steps, Untouched, Attempts
<1>4. CASE Removed(a)
  <2>1. CASE Fail(a, "error")
    BY <1>0, <2>1
  <2>2. CASE ~Fail(a, "error")
    <3>1. act[a].on \in Tasks /\ task[act[a].on] # "none"
      BY <1>4 DEF Removed, Engaged
    <3>2. /\ op' = [op EXCEPT ![act[a].on] = "cleaned"]
          /\ lineage' = [lineage EXCEPT ![act[a].on] = "cleaned"]
          /\ lock' = Unlocked(a) /\ Go(a, "sweep")
          /\ UNCHANGED <<task, home, tries, noted, files, world, spent>>
      BY <1>4, <2>2 DEF Removed
    <3>3. op' \in [Tasks -> Statuses] /\ Untouched'
      BY <3>1, <3>2 DEF Statuses, Untouched
    <3>4. /\ lineage' \in [Tasks -> {"none", "planned", "published", "misfiled", "cleaned"}]
          /\ lock' \in Actors \cup {"none"}
      BY <3>1, <3>2 DEF Unlocked
    <3>5. QED
      BY <1>4, <3>2, <3>3, <3>4, GoKeepsTypes DEF Removed, Steps, Attempts
  <2>3. QED
    BY <2>1, <2>2
<1>5. CASE Sweep(a)
  <2>1. act[a].on \in Tasks
    BY <1>5 DEF Sweep, Engaged
  <2>2. QED
    BY <1>5, <2>1, FinishKeepsTypes DEF Sweep, Untouched
<1>6. QED
  BY <1>1, <1>2, <1>3, <1>4, <1>5

LEMMA RunsKeepTypes ==
    ASSUME TypeInv,
           NEW t \in Tasks,
           \/ Enqueue(t) \/ Start(t) \/ Recover(t)
           \/ Cancel(t) \/ Interrupt(t) \/ Retry(t)
    PROVE  TypeInv'
<1> USE DEF TypeInv, TypeOK, rows, files, world
<1>1. CASE Enqueue(t)
  <2>1. tries[t] < MaxTries
    BY <1>1 DEF Enqueue, Attempts
  <2>2. QED
    BY <1>1, <2>1 DEF Enqueue, Engaged, Untouched, Attempts
<1>2. CASE Start(t)
  <2>1. tries[t] \in 0 .. MaxTries /\ tries[t] < MaxTries /\ tries' = [tries EXCEPT ![t] = tries[t] + 1]
    BY <1>2 DEF Start, Attempts
  <2>2. tries' \in [Tasks -> 0 .. MaxTries]
    BY <2>1, Bounds
  <2>3. CASE task' = [task EXCEPT ![t] = "cancelled"] /\ UNCHANGED act
    BY <1>2, <2>2, <2>1, <2>3 DEF Start, Engaged, Untouched, Attempts
  <2>4. CASE /\ task' = [task EXCEPT ![t] = "running"]
             /\ act' = [act EXCEPT ![t] = [step |-> IF op[t] = "none" THEN "examine" ELSE "advance",
                                           on |-> t, st |-> op[t], cfg |-> config]]
    <3>1. act' \in [Actors -> [step : Steps, on : Actors, st : Statuses, cfg : {0, 1}]]
      BY <2>4, Bounds DEF Steps
    <3>2. Engaged'
      BY <1>2, <2>4, Bounds DEF Start, Engaged
    <3>3. Untouched' /\ Attempts'
      BY <1>2, <2>1, <2>4 DEF Start, Untouched, Attempts
    <3>4. QED
      BY <1>2, <2>2, <2>4, <3>1, <3>2, <3>3 DEF Start
  <2>5. QED
    BY <1>2, <2>3, <2>4 DEF Start
<1>3. CASE Recover(t)
  <2>1. task[t] # "none" /\ op[t] \in Unfinished
    BY <1>3 DEF Recover, Untouched, Unfinished
  <2>2. act' \in [Actors -> [step : Steps, on : Actors, st : Statuses, cfg : {0, 1}]]
    BY <1>3, Bounds DEF Recover, Steps
  <2>3. Engaged'
    BY <1>3, <2>1, Bounds DEF Recover, Engaged, Unfinished
  <2>4. QED
    BY <1>3, <2>2, <2>3 DEF Recover, Untouched, Attempts
<1>4. CASE Cancel(t)
  BY <1>4 DEF Cancel, Engaged, Untouched, Attempts
<1>5. CASE Interrupt(t)
  BY <1>5 DEF Interrupt, Engaged, Untouched, Attempts
<1>6. CASE Retry(t)
  BY <1>6 DEF Retry, Engaged, Untouched, Attempts
<1>7. QED
  BY <1>1, <1>2, <1>3, <1>4, <1>5, <1>6

LEMMA WorldKeepsTypes ==
    ASSUME TypeInv,
           \/ \E f \in Feedbacks : Decide(f) \/ Apply(f) \/ Unlink(f)
           \/ Retrain \/ Reconfigure \/ Activate \/ Crash
           \/ \E c \in {"none", "other"} : MoveSource(c)
           \/ \E d \in Dirs, c \in {"none", "foreign"} : MoveTarget(d, c)
    PROVE  TypeInv'
<1> USE DEF TypeInv, TypeOK, rows, files, world
<1>1. ASSUME NEW f \in Feedbacks, Decide(f)
      PROVE  TypeInv'
  BY <1>1 DEF Decide, Engaged, Untouched, Attempts
<1>2. ASSUME NEW f \in Feedbacks, Apply(f)
      PROVE  TypeInv'
  <2>1. label' \in 0 .. MaxLabel
    BY <1>2, Bounds DEF Apply
  <2>2. journal' \in [Feedbacks -> [st : {"none", "written", "applied", "gone"}, expected : 0 .. MaxLabel]]
    BY <1>2 DEF Apply, Journal
  <2>3. QED
    BY <1>2, <2>1, <2>2 DEF Apply, Engaged, Untouched, Attempts
<1>3. ASSUME NEW f \in Feedbacks, Unlink(f)
      PROVE  TypeInv'
  BY <1>3 DEF Unlink, Journal, Engaged, Untouched, Attempts
<1>4. CASE Retrain
  BY <1>4, Bounds DEF Retrain, Engaged, Untouched, Attempts
<1>5. CASE Reconfigure
  <2>1. spent' \in [faults : 0 .. MaxFaults, moves : 0 .. MaxMoves, flips : 0 .. MaxFlips]
    BY <1>5, Bounds DEF Reconfigure
  <2>2. config' \in {0, 1}
    BY <1>5 DEF Reconfigure
  <2>3. QED
    BY <1>5, <2>1, <2>2 DEF Reconfigure, Engaged, Untouched, Attempts
<1>6. CASE Activate
  BY <1>6 DEF Activate, Engaged, Untouched, Attempts
<1>7. CASE Crash
  <2>1. spent' \in [faults : 0 .. MaxFaults, moves : 0 .. MaxMoves, flips : 0 .. MaxFlips]
    BY <1>7, Bounds DEF Crash, Faulty
  <2>2. act' \in [Actors -> [step : Steps, on : Actors, st : Statuses, cfg : {0, 1}]] /\ Engaged'
    BY <1>7 DEF Crash, Idle, Steps, Statuses, Engaged
  <2>3. QED
    BY <1>7, <2>1, <2>2 DEF Crash, Untouched, Attempts
<1>8. ASSUME Move
      PROVE  spent' \in [faults : 0 .. MaxFaults, moves : 0 .. MaxMoves, flips : 0 .. MaxFlips]
  BY <1>8, Bounds DEF Move
<1>9. ASSUME NEW c \in {"none", "other"}, MoveSource(c)
      PROVE  TypeInv'
  BY <1>8, <1>9 DEF MoveSource, Move, Engaged, Untouched, Attempts
<1>10. ASSUME NEW d \in Dirs, NEW c \in {"none", "foreign"}, MoveTarget(d, c)
       PROVE  TypeInv'
  BY <1>8, <1>10 DEF MoveTarget, Visible, Move, Engaged, Untouched, Attempts
<1>11. QED
  BY <1>1, <1>2, <1>3, <1>4, <1>5, <1>6, <1>7, <1>9, <1>10

LEMMA IoFailKeepsTypes ==
    ASSUME TypeInv, NEW a \in Actors, IoFail(a)
    PROVE  TypeInv'
<1> USE DEF TypeInv, TypeOK, rows, files, world
<1>1. act[a].on \in Tasks /\ task[act[a].on] # "none"
  BY DEF IoFail, Engaged
<1>2. spent' \in [faults : 0 .. MaxFaults, moves : 0 .. MaxMoves, flips : 0 .. MaxFlips]
  BY Bounds DEF IoFail
<1>3. /\ act' \in [Actors -> [step : Steps, on : Actors, st : Statuses, cfg : {0, 1}]]
      /\ lock' \in Actors \cup {"none"}
  BY DEF IoFail, Idle, Unlocked, Steps, Statuses
<1>4. op' \in [Tasks -> Statuses] /\ Untouched'
  BY <1>1 DEF IoFail, Statuses, Untouched
<1>5. /\ task' \in [Tasks -> {"none", "queued", "running", "succeeded", "failed", "cancelled"}]
      /\ Attempts' /\ Engaged'
  BY <1>1 DEF IoFail, Attempts, Engaged, Idle
<1>6. QED
  BY <1>2, <1>3, <1>4, <1>5 DEF IoFail

(***************************************************************************)
(* Tasks, operations, actors and files keep their types, and no task has   *)
(* more attempts than allowed, whatever is deferred, retried or crashes.   *)
(***************************************************************************)
THEOREM TypesFit == Spec => []TypeInv
<1>1. Init => TypeInv
  <2> SUFFICES ASSUME Init
               PROVE  TypeInv
    OBVIOUS
  <2>1. /\ 0 \in 0 .. MaxLabel /\ 0 \in 0 .. MaxModel /\ 0 \in 0 .. MaxTries
        /\ 0 \in 0 .. MaxFaults /\ 0 \in 0 .. MaxMoves /\ 0 \in 0 .. MaxFlips
    BY Bounds
  <2>2. act \in [Actors -> [step : Steps, on : Actors, st : Statuses, cfg : {0, 1}]]
    BY DEF Init, Idle, Steps, Statuses
  <2>3. /\ home \in [Tasks -> [cfg : {0, 1}, label : 0 .. MaxLabel, model : 0 .. MaxModel]]
        /\ journal \in [Feedbacks -> [st : {"none", "written", "applied", "gone"}, expected : 0 .. MaxLabel]]
        /\ spent \in [faults : 0 .. MaxFaults, moves : 0 .. MaxMoves, flips : 0 .. MaxFlips]
    BY <2>1 DEF Init
  <2>4. /\ tries \in [Tasks -> 0 .. MaxTries] /\ Attempts
    BY <2>1, Bounds DEF Init, Attempts
  <2>5. Engaged /\ Untouched
    BY DEF Init, Engaged, Untouched, Idle
  <2>6. QED
    BY <2>1, <2>2, <2>3, <2>4, <2>5 DEF Init, TypeInv, TypeOK, Statuses
<1>2. TypeInv /\ [Next]_vars => TypeInv'
  <2> SUFFICES ASSUME TypeInv, [Next]_vars
               PROVE  TypeInv'
    OBVIOUS
  <2>1. ASSUME NEW a \in Actors, Step(a)
        PROVE  TypeInv'
    BY <2>1, PlanningKeepsTypes, CopyingKeepsTypes, PublishingKeepsTypes, CleaningKeepsTypes DEF Step
  <2>2. CASE UNCHANGED vars
    BY <2>2 DEF vars, rows, files, world, TypeInv, TypeOK, Engaged, Untouched, Attempts
  <2>3. QED
    BY <2>1, <2>2, IoFailKeepsTypes, RunsKeepTypes, WorldKeepsTypes DEF Next
<1>3. QED
  BY <1>1, <1>2, PTL DEF Spec

THEOREM TypeCorrect == Spec => []TypeOK
BY TypesFit, PTL DEF TypeInv

(***************************************************************************)
(* Order.  Only the executor of a task plans its operation, and nobody     *)
(* else is at an operation that does not exist; who cleans up found it     *)
(* published, and then the lineage has been told.                          *)
(***************************************************************************)
Planning == {"idle", "examine", "hash", "plan"}
Told == {"published", "misfiled", "cleaned"}
Ordered ==
    \A a \in Actors :
        /\ act[a].step \in Planning \ {"idle"} => act[a].on = a /\ op[act[a].on] = "none"
        /\ act[a].step \notin Planning => op[act[a].on] # "none"
Recorded ==
    \A t \in Tasks : /\ op[t] # "none" => lineage[t] # "none"
                     /\ op[t] = "published" => lineage[t] \in Told
Informed ==
    \A a \in Actors :
        /\ act[a].step \notin Planning /\ act[a].st = "published" => lineage[act[a].on] \in Told
        /\ act[a].step \in {"confirm", "final", "remove"} => act[a].st = "published"
OrderInv == Ordered /\ Recorded /\ Informed

(* Who is at work on an operation, seen from its task.                     *)
LEMMA WorkingOn ==
    ASSUME TypeInv, OrderInv, NEW a \in Actors, act[a].step # "idle"
    PROVE  /\ act[a].on \in Tasks
           /\ act[a].step \in Planning => op[act[a].on] = "none" /\ a # Control
           /\ act[a].step \notin Planning =>
                \A b \in Actors : act[b].step # "idle" /\ act[b].on = act[a].on => act[b].step \notin Planning
           /\ act[a].step \in Planning =>
                \A b \in Actors \ {a} : act[b].step # "idle" => act[b].on # act[a].on
BY TransferAssumption DEF TypeInv, OrderInv, Engaged, Ordered, Planning

(* An actor that stops, whatever it makes of an operation that exists.     *)
LEMMA StoppingKeepsOrder ==
    ASSUME TypeInv, OrderInv, NEW a \in Actors, act[a].step # "idle",
           act' = [act EXCEPT ![a] = Idle(a)], lineage' = lineage,
           NEW st \in {"conflict", op[act[a].on]},
           act[a].step \in Planning => st = op[act[a].on],
           op' = [op EXCEPT ![act[a].on] = st]
    PROVE  OrderInv'
<1> USE DEF TypeInv, TypeOK
<1>1. act[a].on \in Tasks
  BY DEF Engaged
<1>2. op'[act[a].on] = "none" <=> op[act[a].on] = "none"
  BY <1>1 DEF OrderInv, Ordered
<1>3. \A t \in Tasks : op'[t] = "none" <=> op[t] = "none"
  BY <1>1, <1>2
<1>4. Recorded'
  BY <1>1, <1>2 DEF OrderInv, Recorded
<1>5. Ordered'
  BY <1>3 DEF OrderInv, Ordered, Idle, Planning, Engaged
<1>6. Informed'
  BY DEF OrderInv, Informed, Idle, Planning
<1>7. QED
  BY <1>4, <1>5, <1>6 DEF OrderInv

(* An actor that goes on with an operation that exists.                    *)
LEMMA GoingOnKeepsOrder ==
    ASSUME TypeInv, OrderInv, NEW a \in Actors, act[a].step # "idle",
           NEW step \in Steps, NEW st \in Statuses,
           act' = [act EXCEPT ![a].step = step, ![a].st = st],
           UNCHANGED <<op, lineage>>,
           step \in Planning => act[a].step \in Planning,
           act[a].step \in Planning => step \in Planning \ {"idle"},
           step \notin Planning /\ st = "published" => lineage[act[a].on] \in Told,
           step \in {"confirm", "final", "remove"} => st = "published"
    PROVE  OrderInv'
<1> USE DEF TypeInv, TypeOK
<1>1. act'[a].step = step /\ act'[a].st = st /\ act'[a].on = act[a].on
  OBVIOUS
<1>2. \A b \in Actors \ {a} : act'[b] = act[b]
  OBVIOUS
<1>3. Ordered'
  BY <1>1, <1>2 DEF OrderInv, Ordered, Planning
<1>4. Informed'
  BY <1>1, <1>2 DEF OrderInv, Informed
<1>5. QED
  BY <1>3, <1>4 DEF OrderInv, Recorded

LEMMA EndsKeepOrder ==
    ASSUME TypeInv, OrderInv, NEW a \in Actors, act[a].step # "idle",
           \/ \E why \in {"deferred", "changed", "error"} : Fail(a, why)
           \/ act[a].step \notin Planning /\ \E why \in {"changed", "error"} : GiveUp(a, why)
           \/ act[a].step \notin Planning /\ Finish(a) /\ UNCHANGED <<op, lineage>>
           \/ IoFail(a)
    PROVE  OrderInv'
<1> USE DEF TypeInv, TypeOK
<1>1. act[a].step \in Planning => a # Control
  BY WorkingOn DEF TypeInv, TypeOK
<1>2. act[a].on \in Tasks
  BY DEF Engaged
<1>3. act' = [act EXCEPT ![a] = Idle(a)] /\ lineage' = lineage
  BY DEF Fail, GiveUp, Finish, IoFail
<1>4. \E st \in {"conflict", op[act[a].on]} :
         /\ act[a].step \in Planning => st = op[act[a].on]
         /\ op' = [op EXCEPT ![act[a].on] = st]
  <2>1. op = [op EXCEPT ![act[a].on] = op[act[a].on]]
    BY <1>2
  <2>2. CASE \E why \in {"deferred", "changed", "error"} : Fail(a, why)
    BY <1>1, <2>1, <2>2 DEF Fail
  <2>3. CASE act[a].step \notin Planning /\ \E why \in {"changed", "error"} : GiveUp(a, why)
    BY <2>3 DEF GiveUp
  <2>4. CASE act[a].step \notin Planning /\ Finish(a) /\ UNCHANGED <<op, lineage>>
    BY <2>1, <2>4
  <2>5. CASE IoFail(a)
    BY <1>1, <2>1, <2>5 DEF IoFail
  <2>6. QED
    BY <2>2, <2>3, <2>4, <2>5
<1>5. QED
  BY <1>3, <1>4, StoppingKeepsOrder

LEMMA GoKeepsOrder ==
    ASSUME TypeInv, OrderInv, NEW a \in Actors, act[a].step # "idle",
           NEW step \in Steps, Go(a, step), UNCHANGED <<op, lineage>>,
           step \in Planning => act[a].step \in Planning,
           act[a].step \in Planning => step \in Planning \ {"idle"},
           step \in {"confirm", "final", "remove"} => act[a].st = "published"
    PROVE  OrderInv'
<1>1. act[a].st \in Statuses
  BY DEF TypeInv, TypeOK
<1>2. act' = [act EXCEPT ![a].step = step, ![a].st = act[a].st]
  BY DEF Go, TypeInv, TypeOK
<1>3. step \notin Planning /\ act[a].st = "published" => lineage[act[a].on] \in Told
  BY DEF OrderInv, Informed
<1>4. QED
  BY <1>1, <1>2, <1>3, GoingOnKeepsOrder

LEMMA PlanKeepsOrder ==
    ASSUME TypeInv, OrderInv, NEW a \in Actors, Plan(a)
    PROVE  OrderInv'
<1> DEFINE t == act[a].on
<1> USE DEF TypeInv, TypeOK
<1>1. CASE Fail(a, "error")
  BY <1>1, EndsKeepOrder DEF Plan
<1>2. CASE ~Fail(a, "error")
  <2>1. /\ op' = [op EXCEPT ![t] = "planned"]
        /\ lineage' = [lineage EXCEPT ![t] = "planned"]
        /\ act' = [act EXCEPT ![a].step = "advance", ![a].st = "planned"]
    BY <1>2 DEF Plan
  <2>2. t \in Tasks /\ \A b \in Actors \ {a} : act[b].step # "idle" => act[b].on # t
    BY WorkingOn DEF Plan, Planning
  <2>3. Ordered'
    BY <2>1, <2>2 DEF OrderInv, Ordered, Planning
  <2>4. Recorded'
    BY <2>1, <2>2 DEF OrderInv, Recorded, Told
  <2>5. Informed'
    BY <2>1, <2>2 DEF OrderInv, Informed, Planning, Told
  <2>6. QED
    BY <2>3, <2>4, <2>5 DEF OrderInv
<1>3. QED
  BY <1>1, <1>2

(* The commits of a running operation write its status and its lineage.    *)
LEMMA CommitKeepsOrder ==
    ASSUME TypeInv, OrderInv, NEW a \in Actors, act[a].step \notin Planning,
           NEW st \in Unfinished \cup {"cleaned"}, NEW phase \in Told \cup {lineage[act[a].on]},
           op' = [op EXCEPT ![act[a].on] = st],
           lineage' = [lineage EXCEPT ![act[a].on] = phase],
           st = "published" => phase \in Told,
           NEW step \in Steps \ {"confirm", "final", "remove", "idle", "examine", "hash", "plan"},
           Go(a, step)
    PROVE  OrderInv'
<1> DEFINE t == act[a].on
<1> USE DEF TypeInv, TypeOK
<1>1. t \in Tasks /\ \A b \in Actors : act[b].step # "idle" /\ act[b].on = t => act[b].step \notin Planning
  BY WorkingOn DEF Planning
<1>2. lineage[t] # "none" /\ "none" \notin Told /\ "none" \notin Unfinished
  BY <1>1 DEF OrderInv, Ordered, Recorded, Told, Unfinished
<1>3. act'[a].step = step /\ act'[a].st = act[a].st /\ act'[a].on = t
      /\ \A b \in Actors \ {a} : act'[b] = act[b]
  BY DEF Go
<1>4. step \notin Planning /\ step \notin {"confirm", "final", "remove"}
  BY DEF Planning
<1>5. Ordered'
  BY <1>1, <1>2, <1>3, <1>4 DEF OrderInv, Ordered
<1>6. Recorded'
  BY <1>1, <1>2 DEF OrderInv, Recorded
<1>7. Informed'
  BY <1>1, <1>2, <1>3, <1>4 DEF OrderInv, Informed
<1>8. QED
  BY <1>5, <1>6, <1>7 DEF OrderInv

LEMMA StepsKeepOrder ==
    ASSUME TypeInv, OrderInv, NEW a \in Actors, Step(a)
    PROVE  OrderInv'
<1> DEFINE t == act[a].on
<1>0. act[a].step # "idle"
  BY DEF Step, Examine, HashSource, Plan, Advance, Stage, Copy, Reload, Publish, Record,
         Confirm, Final, Remove, Removed, Sweep
<1>1. t \in Tasks /\ act[a].st \in Statuses /\ op[t] \in Statuses
  BY <1>0 DEF TypeInv, TypeOK, Engaged
<1>2. CASE Examine(a)
  <2>1. CASE Go(a, "hash") /\ UNCHANGED <<op, lineage>>
    BY <1>2, <2>1, GoKeepsOrder DEF Examine, Steps, Planning
  <2>2. QED
    BY <1>0, <1>2, <2>1, RefusalKind, EndsKeepOrder DEF Examine, rows
<1>3. CASE HashSource(a)
  <2>1. CASE Go(a, "plan") /\ UNCHANGED <<op, lineage>>
    BY <1>3, <2>1, GoKeepsOrder DEF HashSource, Steps, Planning
  <2>2. QED
    BY <1>0, <1>3, <2>1, RefusalKind, EndsKeepOrder DEF HashSource, rows
<1>4. CASE Advance(a)
  <2>1. CASE Go(a, Entry[act[a].st]) /\ UNCHANGED <<op, lineage>> /\ act[a].st \notin {"cleaned", "conflict"}
    <3>1. act[a].st \in Unfinished
      BY <1>1, <1>4, <2>1 DEF Advance, TypeInv, Engaged, Statuses
    <3>2. /\ Entry[act[a].st] \in Steps /\ Entry[act[a].st] \notin Planning
          /\ Entry[act[a].st] \in {"confirm", "final", "remove"} => act[a].st = "published"
      BY <3>1 DEF Entry, Unfinished, Steps, Planning
    <3>3. act[a].step \notin Planning
      BY <1>4 DEF Advance, Planning
    <3>4. QED
      BY <1>0, <2>1, <3>2, <3>3, GoKeepsOrder
  <2>2. CASE Fail(a, "error") \/ Fail(a, Refusal(a))
    BY <1>0, <2>2, RefusalKind, EndsKeepOrder
  <2>3. CASE Finish(a) /\ UNCHANGED <<op, lineage>>
    BY <1>0, <1>4, <2>3, EndsKeepOrder DEF Advance, Planning
  <2>4. QED
    BY <1>4, <2>1, <2>2, <2>3 DEF Advance, rows
<1>5. CASE Stage(a)
  <2>1. act[a].step \notin Planning
    BY <1>5 DEF Stage, Planning
  <2>2. CASE Go(a, "copy") /\ UNCHANGED <<op, lineage>>
    BY <1>0, <2>1, <2>2, GoKeepsOrder DEF Steps, Planning
  <2>3. QED
    BY <1>0, <1>5, <2>1, <2>2, EndsKeepOrder DEF Stage, rows
<1>6. CASE Copy(a)
  <2>1. CASE Fail(a, "error")
    BY <1>0, <2>1, EndsKeepOrder
  <2>2. CASE op' = [op EXCEPT ![t] = "verified"] /\ Go(a, "reload") /\ UNCHANGED lineage
    <3>1. lineage' = [lineage EXCEPT ![t] = lineage[t]]
      BY <1>1, <2>2 DEF TypeInv, TypeOK
    <3>2. act[a].step \notin Planning /\ "verified" \in Unfinished
      BY <1>6 DEF Copy, Planning, Unfinished
    <3>3. /\ "reload" \in Steps \ {"confirm", "final", "remove", "idle", "examine", "hash", "plan"}
          /\ "verified" \in Unfinished \cup {"cleaned"} /\ "verified" # "published"
      BY DEF Steps, Unfinished
    <3>4. lineage[t] \in Told \cup {lineage[t]}
      OBVIOUS
    <3>5. QED
      BY <2>2, <3>1, <3>2, <3>3, <3>4, CommitKeepsOrder
  <2>3. QED
    BY <1>6, <2>1, <2>2 DEF Copy
<1>7. CASE Reload(a)
  <2>1. act[a].step \notin Planning
    BY <1>7 DEF Reload, Planning
  <2>2. CASE Finish(a) /\ UNCHANGED <<op, lineage>>
    BY <1>0, <2>1, <2>2, EndsKeepOrder
  <2>3. CASE /\ op[t] \in {"verified", "published"}
             /\ act' = [act EXCEPT ![a].step = Entry[op[t]], ![a].st = op[t]]
             /\ UNCHANGED <<op, lineage>>
    <3>1. /\ Entry[op[t]] \in {"check", "confirm"}
          /\ Entry[op[t]] = "confirm" => op[t] = "published"
      BY <2>3 DEF Entry
    <3>2. op[t] = "published" => lineage[t] \in Told
      BY <1>1 DEF OrderInv, Recorded
    <3>3. /\ Entry[op[t]] \in Steps /\ Entry[op[t]] \notin Planning
          /\ Entry[op[t]] \in {"confirm", "final", "remove"} => op[t] = "published"
      BY <3>1 DEF Steps, Planning
    <3>4. \E step \in Steps, st \in Statuses :
             /\ act' = [act EXCEPT ![a].step = step, ![a].st = st]
             /\ step \notin Planning /\ act[a].step \notin Planning
             /\ st = "published" => lineage[t] \in Told
             /\ step \in {"confirm", "final", "remove"} => st = "published"
      BY <1>1, <2>1, <2>3, <3>2, <3>3
    <3>5. QED
      BY <1>0, <2>3, <3>4, GoingOnKeepsOrder
  <2>4. QED
    BY <1>7, <2>2, <2>3 DEF Reload, rows
<1>8. CASE Publish(a)
  <2>1. CASE Fail(a, "error") \/ Fail(a, Refusal(a))
    BY <1>0, <2>1, RefusalKind, EndsKeepOrder
  <2>2. CASE Go(a, "record") /\ UNCHANGED <<op, lineage>>
    BY <1>0, <1>8, <2>2, GoKeepsOrder DEF Publish, Steps, Planning
  <2>3. QED
    BY <1>8, <2>1, <2>2 DEF Publish, rows
<1>9. CASE Record(a)
  <2>1. CASE Fail(a, "error")
    BY <1>0, <2>1, EndsKeepOrder
  <2>2. CASE ~Fail(a, "error")
    <3> DEFINE phase == IF lineage[t] # "planned" THEN lineage[t]
                        ELSE IF tgt[Dest(t)] = t THEN "published" ELSE "misfiled"
    <3>1. /\ op' = [op EXCEPT ![t] = "published"] /\ Go(a, "reload")
          /\ lineage' = [lineage EXCEPT ![t] = phase]
      BY <1>9, <2>2 DEF Record
    <3>2. act[a].step \notin Planning
      BY <1>9 DEF Record, Planning
    <3>3. phase \in Told
      BY <1>1, <3>2 DEF TypeInv, TypeOK, OrderInv, Ordered, Recorded, Told
    <3>4. QED
      BY <3>1, <3>2, <3>3, CommitKeepsOrder DEF Steps, Unfinished
  <2>3. QED
    BY <2>1, <2>2
<1>10. CASE Confirm(a)
  <2>1. act[a].step \notin Planning /\ act[a].st = "published"
    BY <1>10 DEF Confirm, Planning, OrderInv, Informed
  <2>2. CASE Fail(a, "error") \/ Fail(a, Refusal(a))
    BY <1>0, <2>2, RefusalKind, EndsKeepOrder
  <2>3. CASE GiveUp(a, "changed")
    BY <1>0, <2>1, <2>3, EndsKeepOrder
  <2>4. CASE Go(a, "final") /\ UNCHANGED <<op, lineage>>
    BY <1>0, <2>1, <2>4, GoKeepsOrder DEF Steps, Planning
  <2>5. QED
    BY <1>10, <2>2, <2>3, <2>4 DEF Confirm, rows
<1>11. CASE Final(a)
  <2>1. act[a].step \notin Planning /\ act[a].st = "published"
    BY <1>11 DEF Final, Planning, OrderInv, Informed
  <2>2. CASE Fail(a, "changed") \/ Fail(a, Refusal(a))
    BY <1>0, <2>2, RefusalKind, EndsKeepOrder
  <2>3. CASE Go(a, "remove") /\ UNCHANGED <<op, lineage>>
    BY <1>0, <2>1, <2>3, GoKeepsOrder DEF Steps, Planning
  <2>4. QED
    BY <1>11, <2>2, <2>3 DEF Final, rows
<1>12. CASE Remove(a)
  BY <1>0, <1>12, GoKeepsOrder DEF Remove, rows, Steps, Planning
<1>13. CASE Removed(a)
  <2>1. CASE Fail(a, "error")
    BY <1>0, <2>1, EndsKeepOrder
  <2>2. CASE ~Fail(a, "error")
    <3>1. /\ op' = [op EXCEPT ![t] = "cleaned"] /\ Go(a, "sweep")
          /\ lineage' = [lineage EXCEPT ![t] = "cleaned"]
      BY <1>13, <2>2 DEF Removed
    <3>2. act[a].step \notin Planning
      BY <1>13 DEF Removed, Planning
    <3>3. QED
      BY <3>1, <3>2, CommitKeepsOrder DEF Steps, Told
  <2>3. QED
    BY <2>1, <2>2
<1>14. CASE Sweep(a)
  BY <1>0, <1>14, EndsKeepOrder DEF Sweep, Planning
<1>15. QED
  BY <1>2, <1>3, <1>4, <1>5, <1>6, <1>7, <1>8, <1>9, <1>10, <1>11, <1>12, <1>13, <1>14,
     PlanKeepsOrder DEF Step

LEMMA RunsKeepOrder ==
    ASSUME TypeInv, OrderInv, NEW t \in Tasks, Start(t) \/ Recover(t)
    PROVE  OrderInv'
<1> USE DEF TypeInv, TypeOK, rows
<1>1. t \in Actors /\ Control \in Actors
  BY Bounds
<1>2. UNCHANGED <<op, lineage>> /\ \A a \in Actors : act[a].step # "idle" => act'[a] = act[a]
  BY DEF Start, Recover
<1>3. \A a \in Actors : act'[a] # act[a] =>
         /\ act'[a].on = t /\ act'[a].st = op[t]
         /\ \/ act'[a].step = "examine" /\ a = t /\ op[t] = "none"
            \/ act'[a].step = "advance" /\ op[t] # "none"
  BY <1>1 DEF Start, Recover, Unfinished
<1>4. Recorded'
  BY <1>2 DEF OrderInv, Recorded
<1>5. Ordered'
  BY <1>2, <1>3 DEF OrderInv, Ordered, Planning
<1>6. Informed'
  BY <1>2, <1>3 DEF OrderInv, Informed, Recorded, Planning
<1>7. QED
  BY <1>4, <1>5, <1>6 DEF OrderInv

THEOREM OrderIsKept == Spec => []OrderInv
<1>1. Init => OrderInv
  BY DEF Init, OrderInv, Ordered, Recorded, Informed, Idle, Planning
<1>2. TypeInv /\ OrderInv /\ [Next]_vars => OrderInv'
  <2> SUFFICES ASSUME TypeInv, OrderInv, [Next]_vars
               PROVE  OrderInv'
    OBVIOUS
  <2>1. ASSUME UNCHANGED <<op, lineage, act>>
        PROVE  OrderInv'
    BY <2>1 DEF OrderInv, Ordered, Recorded, Informed
  <2>2. ASSUME NEW a \in Actors, IoFail(a)
        PROVE  OrderInv'
    BY <2>2, EndsKeepOrder DEF IoFail
  <2>3. ASSUME NEW t \in Tasks, Enqueue(t) \/ Cancel(t) \/ Interrupt(t) \/ Retry(t)
        PROVE  OrderInv'
    BY <2>1, <2>3 DEF Enqueue, Cancel, Interrupt, Retry
  <2>4. CASE \/ \E f \in Feedbacks : Decide(f) \/ Apply(f) \/ Unlink(f)
             \/ Retrain \/ Reconfigure \/ Activate \/ UNCHANGED vars
    BY <2>1, <2>4 DEF Decide, Apply, Unlink, Retrain, Reconfigure, Activate, vars, rows
  <2>5. CASE Crash
    BY <2>5 DEF Crash, Idle, rows, OrderInv, Ordered, Recorded, Informed, Planning
  <2>6. CASE \/ \E c \in {"none", "other"} : MoveSource(c)
             \/ \E d \in Dirs, c \in {"none", "foreign"} : MoveTarget(d, c)
    BY <2>1, <2>6 DEF MoveSource, MoveTarget, Move, rows
  <2>7. QED
    BY <2>2, <2>3, <2>4, <2>5, <2>6, StepsKeepOrder, RunsKeepOrder DEF Next
<1>3. QED
  BY <1>1, <1>2, TypesFit, PTL DEF Spec

(***************************************************************************)
(* The video survives.  A target is linked only to a complete witness; a   *)
(* witness goes only when the lineage says cleaned, and then the target    *)
(* was there after the source had gone.                                    *)
(***************************************************************************)
LinkedWhole == \A t \in Tasks : wit[t] = "partial" => tgt[Dest(t)] # t
Shown == gone \/ \E d \in Dirs : tgt[d] \in Tasks
CleanedShown == (\E t \in Tasks : lineage[t] = "cleaned") => src # "video" /\ Shown
Secured ==
    \A a \in Actors :
        /\ act[a].step = "sweep" => lineage[act[a].on] = "cleaned"
        /\ act[a].step = "remove" => wit[act[a].on] = "whole" \/ lineage[act[a].on] = "cleaned"
SurvivalInv == VideoSurvives /\ LinkedWhole /\ CleanedShown /\ Secured

LEMMA TasksAreNoMarks ==
    "none" \notin Tasks /\ "foreign" \notin Tasks
BY TransferAssumption

(* A step that leaves files, lineage and destinations as they are and      *)
(* brings no actor to the removal or to the end.                           *)
LEMMA IdleStepsKeepVideo ==
    ASSUME TypeInv, SurvivalInv, UNCHANGED <<files, lineage>>,
           \A t \in Tasks : task[t] # "none" => home'[t] = home[t],
           \A a \in Actors : act'[a].step \in {"sweep", "remove"} => act'[a] = act[a]
    PROVE  SurvivalInv'
<1> USE DEF TypeInv, files
<1>1. \A t \in Tasks : wit[t] = "partial" => home'[t] = home[t]
  BY DEF Untouched
<1>2. LinkedWhole'
  BY <1>1 DEF SurvivalInv, LinkedWhole, Dest
<1>3. VideoSurvives' /\ CleanedShown' /\ Secured'
  BY DEF SurvivalInv, VideoSurvives, Visible, CleanedShown, Shown, Secured
<1>4. QED
  BY <1>2, <1>3 DEF SurvivalInv

LEMMA StepsKeepVideo ==
    ASSUME TypeInv, OrderInv, SurvivalInv, NEW a \in Actors, Step(a)
    PROVE  SurvivalInv'
<1> DEFINE t == act[a].on
<1> USE DEF TypeInv, TypeOK, rows, files, world
<1>0. act[a].step # "idle"
  BY DEF Step, Examine, HashSource, Plan, Advance, Stage, Copy, Reload, Publish, Record,
         Confirm, Final, Remove, Removed, Sweep
<1>1. t \in Tasks /\ Dest(t) \in Dirs
  BY <1>0, DestinationExists DEF Engaged
<1>2. ASSUME \/ \E why \in {"deferred", "changed", "error"} : Fail(a, why)
             \/ \E why \in {"changed", "error"} : GiveUp(a, why)
             \/ Finish(a) /\ UNCHANGED <<home, files, lineage>>
             \/ \E step \in Steps \ {"sweep", "remove"} : Go(a, step) /\ UNCHANGED <<home, files, lineage>>
      PROVE  SurvivalInv'
  BY <1>2, IdleStepsKeepVideo DEF Fail, GiveUp, Finish, Go, Idle
<1>3. CASE Examine(a) \/ HashSource(a)
  BY <1>2, <1>3, RefusalKind DEF Examine, HashSource, Steps
<1>4. CASE Plan(a)
  <2>1. CASE ~Fail(a, "error")
    <3>1. lineage' = [lineage EXCEPT ![t] = "planned"] /\ UNCHANGED <<home, files>>
          /\ act' = [act EXCEPT ![a].step = "advance", ![a].st = "planned"]
      BY <1>4, <2>1 DEF Plan
    <3>2. \A b \in Actors \ {a} : act[b].step # "idle" => act[b].on # t
      BY <1>4, WorkingOn DEF Plan, Planning
    <3>3. Secured'
      BY <3>1, <3>2 DEF SurvivalInv, Secured
    <3>4. VideoSurvives' /\ LinkedWhole' /\ CleanedShown'
      BY <1>1, <3>1 DEF SurvivalInv, VideoSurvives, Visible, LinkedWhole, Dest, CleanedShown, Shown
    <3>5. QED
      BY <3>3, <3>4 DEF SurvivalInv
  <2>2. QED
    BY <1>2, <2>1
<1>5. CASE Advance(a)
  <2>1. CASE Go(a, Entry[act[a].st]) /\ UNCHANGED <<rows, lock, files, world, spent>>
             /\ act[a].st \notin {"cleaned", "conflict"}
    <3>1. act[a].st \in Unfinished
      BY <1>5, <2>1 DEF Advance, Engaged, Statuses
    <3>2. Entry[act[a].st] \in Steps \ {"sweep", "remove"}
      BY <3>1 DEF Entry, Unfinished, Steps
    <3>3. QED
      BY <1>2, <2>1, <3>2
  <2>2. QED
    BY <1>2, <1>5, <2>1, RefusalKind DEF Advance
<1>6. CASE Stage(a)
  <2>1. CASE wit[t] = "none" /\ tgt[Dest(t)] = "none" /\ ~Fail(a, "error") /\ ~GiveUp(a, "error")
    <3>1. wit' = [wit EXCEPT ![t] = "partial"] /\ Go(a, "copy")
          /\ UNCHANGED <<home, lineage, src, tgt, gone>>
      BY <1>6, <2>1 DEF Stage
    <3>2. VideoSurvives' /\ CleanedShown'
      BY <1>1, <2>1, <3>1 DEF SurvivalInv, VideoSurvives, Visible, CleanedShown, Shown
    <3>3. LinkedWhole'
      BY <1>1, <2>1, <3>1, TasksAreNoMarks DEF SurvivalInv, LinkedWhole, Dest
    <3>4. Secured'
      BY <1>1, <2>1, <3>1 DEF SurvivalInv, Secured, Go
    <3>5. QED
      BY <3>2, <3>3, <3>4 DEF SurvivalInv
  <2>2. QED
    BY <1>2, <1>6, <2>1 DEF Stage
<1>7. CASE Copy(a)
  <2>1. CASE ~Fail(a, "error")
    <3>1. wit' = [wit EXCEPT ![t] = "whole"] /\ Go(a, "reload")
          /\ UNCHANGED <<home, lineage, src, tgt, gone>>
      BY <1>7, <2>1 DEF Copy
    <3>2. VideoSurvives' /\ CleanedShown'
      BY <1>1, <3>1 DEF SurvivalInv, VideoSurvives, Visible, CleanedShown, Shown
    <3>3. LinkedWhole'
      BY <1>1, <3>1 DEF SurvivalInv, LinkedWhole, Dest
    <3>4. Secured'
      BY <1>1, <3>1 DEF SurvivalInv, Secured, Go
    <3>5. QED
      BY <3>2, <3>3, <3>4 DEF SurvivalInv
  <2>2. QED
    BY <1>2, <2>1
<1>8. CASE Reload(a)
  <2>1. CASE /\ op[t] \in {"verified", "published"}
             /\ act' = [act EXCEPT ![a].step = Entry[op[t]], ![a].st = op[t]]
             /\ UNCHANGED <<rows, lock, files, world, spent>>
    <3>1. Entry[op[t]] \notin {"sweep", "remove"}
      BY <2>1 DEF Entry
    <3>2. \A b \in Actors : act'[b].step \in {"sweep", "remove"} => act'[b] = act[b]
      BY <2>1, <3>1
    <3>3. QED
      BY <2>1, <3>2, IdleStepsKeepVideo
  <2>2. QED
    BY <1>2, <1>8, <2>1 DEF Reload
<1>9. CASE Publish(a)
  <2>1. CASE ~Fail(a, "error") /\ ~Fail(a, Refusal(a))
    <3>1. wit[t] = "whole" /\ tgt[Dest(t)] \in {"none", t}
          /\ tgt' = [tgt EXCEPT ![Dest(t)] = t] /\ Go(a, "record")
          /\ UNCHANGED <<home, lineage, src, wit, gone>>
      BY <1>9, <2>1 DEF Publish
    <3>2. \A d \in Dirs : tgt'[d] = tgt[d] \/ tgt'[d] = t
      BY <1>1, <3>1
    <3>3. tgt'[Dest(t)] = t
      BY <1>1, <3>1
    <3>4. VideoSurvives' /\ CleanedShown'
      BY <1>1, <3>1, <3>2, <3>3 DEF SurvivalInv, VideoSurvives, Visible, CleanedShown, Shown
    <3>5. LinkedWhole'
      BY <1>1, <3>1, <3>2, DestinationExists DEF SurvivalInv, LinkedWhole, Dest
    <3>6. Secured'
      BY <3>1 DEF SurvivalInv, Secured, Go
    <3>7. QED
      BY <3>4, <3>5, <3>6 DEF SurvivalInv
  <2>2. QED
    BY <1>2, <2>1, RefusalKind
<1>10. CASE Record(a)
  <2>1. CASE ~Fail(a, "error")
    <3>1. /\ Go(a, "reload") /\ UNCHANGED <<home, src, tgt, wit, gone>>
          /\ \A u \in Tasks : lineage'[u] = "cleaned" <=> lineage[u] = "cleaned"
      BY <1>10, <2>1 DEF Record
    <3>2. VideoSurvives' /\ LinkedWhole' /\ CleanedShown'
      BY <3>1 DEF SurvivalInv, VideoSurvives, Visible, LinkedWhole, Dest, CleanedShown, Shown
    <3>3. Secured'
      BY <1>1, <3>1 DEF SurvivalInv, Secured, Go, Engaged
    <3>4. QED
      BY <3>2, <3>3 DEF SurvivalInv
  <2>2. QED
    BY <1>2, <2>1
<1>11. CASE Confirm(a)
  BY <1>2, <1>11, RefusalKind DEF Confirm, Steps
<1>12. CASE Final(a)
  <2>1. CASE ~Fail(a, "changed") /\ ~Fail(a, Refusal(a))
    <3>1. Samefile(t) /\ Go(a, "remove") /\ UNCHANGED <<home, files, lineage>>
      BY <1>12, <2>1 DEF Final
    <3>2. wit[t] = "whole"
      BY <1>1, <3>1 DEF Samefile, SurvivalInv, LinkedWhole
    <3>3. VideoSurvives' /\ LinkedWhole' /\ CleanedShown'
      BY <3>1 DEF SurvivalInv, VideoSurvives, Visible, LinkedWhole, Dest, CleanedShown, Shown
    <3>4. Secured'
      BY <3>1, <3>2 DEF SurvivalInv, Secured, Go
    <3>5. QED
      BY <3>3, <3>4 DEF SurvivalInv
  <2>2. QED
    BY <1>2, <2>1, RefusalKind
<1>13. CASE Remove(a)
  <2>1. src' = "none" /\ Go(a, "removed") /\ UNCHANGED <<home, lineage, tgt, wit, gone>>
    BY <1>13 DEF Remove
  <2>2. wit[t] = "whole" \/ lineage[t] = "cleaned"
    BY <1>13 DEF Remove, SurvivalInv, Secured
  <2>3. VideoSurvives'
    BY <1>1, <2>1, <2>2 DEF SurvivalInv, VideoSurvives, Visible, CleanedShown, Shown
  <2>4. LinkedWhole' /\ CleanedShown'
    BY <2>1 DEF SurvivalInv, LinkedWhole, Dest, CleanedShown, Shown
  <2>5. Secured'
    BY <2>1 DEF SurvivalInv, Secured, Go
  <2>6. QED
    BY <2>3, <2>4, <2>5 DEF SurvivalInv
<1>14. CASE Removed(a)
  <2>1. CASE ~Fail(a, "error")
    <3>1. /\ lineage' = [lineage EXCEPT ![t] = "cleaned"] /\ Go(a, "sweep")
          /\ UNCHANGED <<home, files>>
      BY <1>14, <2>1 DEF Removed
    <3>2. lineage[t] = "cleaned" \/ (src = "none" /\ tgt[Dest(t)] = t)
      BY <1>14, <2>1 DEF Removed
    <3>3. src # "video" /\ Shown
      BY <1>1, <3>2 DEF SurvivalInv, CleanedShown, Shown
    <3>4. VideoSurvives' /\ LinkedWhole' /\ CleanedShown'
      BY <3>1, <3>3 DEF SurvivalInv, VideoSurvives, Visible, LinkedWhole, Dest, CleanedShown, Shown
    <3>5. Secured'
      BY <1>1, <3>1 DEF SurvivalInv, Secured, Go, Engaged
    <3>6. QED
      BY <3>4, <3>5 DEF SurvivalInv
  <2>2. QED
    BY <1>2, <2>1
<1>15. CASE Sweep(a)
  <2>1. /\ wit' = [wit EXCEPT ![t] = "none"] /\ Finish(a)
        /\ UNCHANGED <<home, lineage, src, tgt, gone>>
    BY <1>15 DEF Sweep
  <2>2. lineage[t] = "cleaned" /\ Shown
    BY <1>1, <1>15 DEF Sweep, SurvivalInv, Secured, CleanedShown
  <2>3. VideoSurvives' /\ LinkedWhole' /\ CleanedShown'
    BY <1>1, <2>1, <2>2 DEF SurvivalInv, VideoSurvives, Visible, LinkedWhole, Dest, CleanedShown, Shown
  <2>4. Secured'
    BY <1>1, <2>1, <2>2 DEF SurvivalInv, Secured, Finish, Idle, Engaged
  <2>5. QED
    BY <2>3, <2>4 DEF SurvivalInv
<1>16. QED
  BY <1>3, <1>4, <1>5, <1>6, <1>7, <1>8, <1>9, <1>10, <1>11, <1>12, <1>13, <1>14, <1>15 DEF Step

LEMMA PeopleKeepVideo ==
    ASSUME TypeInv, SurvivalInv,
           \/ \E c \in {"none", "other"} : MoveSource(c)
           \/ \E d \in Dirs, c \in {"none", "foreign"} : MoveTarget(d, c)
    PROVE  SurvivalInv'
<1> USE DEF TypeInv, TypeOK, rows, world, Move
<1>1. ASSUME NEW c \in {"none", "other"}, MoveSource(c)
      PROVE  SurvivalInv'
  <2>1. /\ src' = c /\ UNCHANGED <<home, lineage, act, tgt, wit>>
        /\ gone' = (gone \/ (src = "video" /\ \A d \in Dirs : tgt[d] \notin Tasks))
    BY <1>1 DEF MoveSource
  <2>2. VideoSurvives' /\ CleanedShown'
    BY <2>1 DEF SurvivalInv, VideoSurvives, Visible, CleanedShown, Shown
  <2>3. LinkedWhole' /\ Secured'
    BY <2>1 DEF SurvivalInv, LinkedWhole, Dest, Secured
  <2>4. QED
    BY <2>2, <2>3 DEF SurvivalInv
<1>2. ASSUME NEW d \in Dirs, NEW c \in {"none", "foreign"}, MoveTarget(d, c)
      PROVE  SurvivalInv'
  <2>1. /\ tgt' = [tgt EXCEPT ![d] = c] /\ UNCHANGED <<home, lineage, act, src, wit>>
        /\ gone' = (gone \/ (Visible /\ src # "video" /\ \A e \in Dirs \ {d} : tgt[e] \notin Tasks))
    BY <1>2 DEF MoveTarget
  <2>2. c \notin Tasks
    BY TasksAreNoMarks
  <2>3. VideoSurvives' /\ CleanedShown'
    BY <2>1, <2>2 DEF SurvivalInv, VideoSurvives, Visible, CleanedShown, Shown
  <2>4. LinkedWhole' /\ Secured'
    BY <2>1, <2>2, DestinationExists DEF SurvivalInv, LinkedWhole, Dest, Secured
  <2>5. QED
    BY <2>3, <2>4 DEF SurvivalInv
<1>3. QED
  BY <1>1, <1>2

(***************************************************************************)
(* However many tasks, crashes and moves there are, the system never       *)
(* removes the last copy of the video (transfer.py:189-211).               *)
(***************************************************************************)
THEOREM VideoIsKept == Spec => []VideoSurvives
<1>1. Init => SurvivalInv
  BY DEF Init, Idle, SurvivalInv, VideoSurvives, Visible, LinkedWhole, CleanedShown, Secured
<1>2. TypeInv /\ OrderInv /\ SurvivalInv /\ [Next]_vars => SurvivalInv'
  <2> SUFFICES ASSUME TypeInv, OrderInv, SurvivalInv, [Next]_vars
               PROVE  SurvivalInv'
    OBVIOUS
  <2>1. ASSUME UNCHANGED <<home, files, lineage, act>>
        PROVE  SurvivalInv'
    BY <2>1, IdleStepsKeepVideo
  <2>2. ASSUME NEW a \in Actors, IoFail(a)
        PROVE  SurvivalInv'
    BY <2>2, IdleStepsKeepVideo DEF IoFail, Idle, TypeInv, TypeOK
  <2>3. ASSUME NEW t \in Tasks, Enqueue(t) \/ Start(t) \/ Recover(t) \/ Cancel(t) \/ Interrupt(t) \/ Retry(t)
        PROVE  SurvivalInv'
    <3>1. UNCHANGED <<files, lineage>> /\ \A u \in Tasks : task[u] # "none" => home'[u] = home[u]
      BY <2>3 DEF Enqueue, Start, Recover, Cancel, Interrupt, Retry, rows, TypeInv, TypeOK
    <3>2. \A a \in Actors : act'[a].step \in {"sweep", "remove"} => act'[a] = act[a]
      BY <2>3, Bounds DEF Enqueue, Start, Recover, Cancel, Interrupt, Retry, TypeInv, TypeOK
    <3>3. QED
      BY <3>1, <3>2, IdleStepsKeepVideo
  <2>4. CASE \/ \E f \in Feedbacks : Decide(f) \/ Apply(f) \/ Unlink(f)
             \/ Retrain \/ Reconfigure \/ Activate \/ UNCHANGED vars
    BY <2>1, <2>4 DEF Decide, Apply, Unlink, Retrain, Reconfigure, Activate, vars, rows
  <2>5. CASE Crash
    BY <2>5, IdleStepsKeepVideo DEF Crash, Idle, rows
  <2>6. QED
    BY <2>2, <2>3, <2>4, <2>5, StepsKeepVideo, PeopleKeepVideo DEF Next
<1>3. SurvivalInv => VideoSurvives
  BY DEF SurvivalInv
<1>4. QED
  BY <1>1, <1>2, <1>3, TypesFit, OrderIsKept, PTL DEF Spec

(***************************************************************************)
(* The basis.  Who is about to remove the source holds the row lock since  *)
(* it last looked at the gate, and feedback and training wait for it; and  *)
(* the source it removes is the one that was planned, if nobody replaces   *)
(* it after it was hashed.                                                 *)
(***************************************************************************)
Based ==
    \A a \in Actors : act[a].step = "remove" =>
        lock = a /\ label = home[act[a].on].label /\ model = home[act[a].on].model
Checked ==
    Careful => \A a \in Actors : act[a].step \in {"final", "remove"} => src \in {"none", noted[act[a].on]}
BasisInv == Based /\ Checked

(* What a step of one actor means to another: it takes the lock only when  *)
(* it is free and writes nothing a removal rests on but by planning.       *)
LEMMA StepEffects ==
    ASSUME TypeInv, NEW a \in Actors, Step(a)
    PROVE  /\ UNCHANGED <<home, label, model>> /\ \A b \in Actors \ {a} : act'[b] = act[b]
           /\ lock' = lock \/ lock \in {"none", a}
           /\ src' \in {src, "none"} /\ (noted' = noted \/ Plan(a))
           /\ act'[a].step = "remove" =>
                /\ act[a].step = "final" /\ act'[a].on = act[a].on
                /\ lock' = a /\ label = home[act[a].on].label /\ model = home[act[a].on].model
           /\ act'[a].step = "final" =>
                act'[a].on = act[a].on /\ src' \in {"none", noted'[act[a].on]}
<1> DEFINE t == act[a].on
           Effects == /\ UNCHANGED <<home, label, model>> /\ \A b \in Actors \ {a} : act'[b] = act[b]
                      /\ lock' = lock \/ lock \in {"none", a}
                      /\ src' \in {src, "none"} /\ (noted' = noted \/ Plan(a))
                      /\ act'[a].step = "remove" =>
                           /\ act[a].step = "final" /\ act'[a].on = act[a].on
                           /\ lock' = a /\ label = home[act[a].on].label /\ model = home[act[a].on].model
                      /\ act'[a].step = "final" =>
                           act'[a].on = act[a].on /\ src' \in {"none", noted'[act[a].on]}
<1> USE DEF TypeInv, TypeOK, rows, files, world, Unlocked
<1>1. ASSUME \/ \E why \in {"deferred", "changed", "error"} : Fail(a, why)
             \/ \E why \in {"changed", "error"} : GiveUp(a, why)
      PROVE  Effects
  BY <1>1 DEF Fail, GiveUp, Idle
<1>2. ASSUME NEW step \in Steps \ {"final", "remove"}, Go(a, step), UNCHANGED <<home, label, model, noted>>,
             src' \in {src, "none"}, lock' = lock \/ lock \in {"none", a}
      PROVE  Effects
  BY <1>2 DEF Go
<1>3. CASE Examine(a) \/ HashSource(a) \/ Stage(a) \/ Copy(a)
  BY <1>1, <1>2, <1>3, RefusalKind DEF Examine, HashSource, Stage, Copy, Steps
<1>4. CASE Plan(a)
  <2>1. CASE ~Fail(a, "error")
    <3>1. /\ act' = [act EXCEPT ![a].step = "advance", ![a].st = "planned"]
          /\ UNCHANGED <<home, label, model, src, lock>>
      BY <1>4, <2>1 DEF Plan
    <3>2. act'[a].step = "advance" /\ \A b \in Actors \ {a} : act'[b] = act[b]
      BY <3>1
    <3>3. QED
      BY <1>4, <3>1, <3>2
  <2>2. QED
    BY <1>1, <2>1
<1>5. CASE Advance(a)
  <2>1. CASE Finish(a) /\ UNCHANGED <<home, tries, op, noted, lineage, lock, files, world, spent>>
    BY <2>1 DEF Finish, Idle
  <2>2. CASE Go(a, Entry[act[a].st]) /\ UNCHANGED <<rows, lock, files, world, spent>>
    <3>1. ASSUME act[a].st \in Unfinished
          PROVE  Effects
      BY <1>2, <2>2, <3>1 DEF Entry, Unfinished, Steps
    <3>2. QED
      BY <1>5, <2>1, <3>1, <1>1 DEF Advance, Engaged, Statuses
  <2>3. QED
    BY <1>1, <1>5, <2>1, <2>2, RefusalKind DEF Advance
<1>6. CASE Reload(a)
  <2>1. CASE Finish(a) /\ UNCHANGED <<home, tries, op, noted, lineage, lock, files, world, spent>>
    BY <2>1 DEF Finish, Idle
  <2>2. CASE /\ op[t] \in {"verified", "published"}
             /\ act' = [act EXCEPT ![a].step = Entry[op[t]], ![a].st = op[t]]
             /\ UNCHANGED <<rows, lock, files, world, spent>>
    <3>1. Entry[op[t]] \notin {"final", "remove"}
      BY <2>2 DEF Entry
    <3>2. act'[a].step = Entry[op[t]] /\ \A b \in Actors \ {a} : act'[b] = act[b]
      BY <2>2
    <3>3. QED
      BY <2>2, <3>1, <3>2
  <2>3. QED
    BY <1>6, <2>1, <2>2 DEF Reload
<1>7. CASE Publish(a) \/ Record(a) \/ Remove(a) \/ Removed(a)
  BY <1>1, <1>2, <1>7, RefusalKind DEF Publish, Record, Remove, Removed, Steps
<1>8. CASE Confirm(a)
  <2>1. CASE Go(a, "final") /\ UNCHANGED <<rows, lock, files, world, spent>> /\ src \in {"none", noted[t]}
    BY <2>1 DEF Go
  <2>2. QED
    BY <1>1, <1>8, <2>1, RefusalKind DEF Confirm
<1>9. CASE Final(a)
  <2>1. CASE Go(a, "remove") /\ lock' = a /\ UNCHANGED <<rows, files, world, spent>> /\ Gate(a)
    BY <1>9, <2>1 DEF Go, Final, Gate
  <2>2. QED
    BY <1>1, <1>9, <2>1, RefusalKind DEF Final
<1>10. CASE Sweep(a)
  BY <1>10 DEF Sweep, Finish, Idle
<1>11. QED
  BY <1>3, <1>4, <1>5, <1>6, <1>7, <1>8, <1>9, <1>10 DEF Step

LEMMA StepsKeepBasis ==
    ASSUME TypeInv, OrderInv, BasisInv, NEW a \in Actors, Step(a)
    PROVE  BasisInv'
<1>1. "none" \notin Actors
  BY Bounds
<1>2. Based'
  BY <1>1, StepEffects DEF BasisInv, Based
<1>3. Checked'
  <2>1. ASSUME Careful, NEW b \in Actors, act'[b].step \in {"final", "remove"}
        PROVE  src' \in {"none", noted'[act'[b].on]}
    <3>1. CASE b = a /\ act'[b].step = "final"
      BY <3>1, StepEffects
    <3>2. CASE ~(b = a /\ act'[b].step = "final")
      <4>1. act[b].step \in {"final", "remove"} /\ act'[b].on = act[b].on
        BY <2>1, <3>2, StepEffects
      <4>2. noted'[act[b].on] = noted[act[b].on]
        <5>1. CASE Plan(a)
          <6>1. act[a].step = "plan" /\ (noted' = noted \/ noted' = [noted EXCEPT ![act[a].on] = src])
            BY <5>1 DEF Plan, Fail
          <6>2. act[b].on # act[a].on /\ act[b].on \in Tasks
            BY <4>1, <6>1, WorkingOn DEF Planning, TypeInv, Engaged
          <6>3. QED
            BY <6>1, <6>2 DEF TypeInv, TypeOK
        <5>2. QED
          BY <5>1, StepEffects
      <4>3. src \in {"none", noted[act[b].on]}
        BY <2>1, <4>1 DEF BasisInv, Checked
      <4>4. QED
        BY <4>1, <4>2, <4>3, StepEffects
    <3>3. QED
      BY <3>1, <3>2
  <2>2. QED
    BY <2>1 DEF Checked
<1>4. QED
  BY <1>2, <1>3 DEF BasisInv

THEOREM BasisIsKept == Spec => []BasisInv
<1>1. Init => BasisInv
  BY DEF Init, Idle, BasisInv, Based, Checked
<1>2. TypeInv /\ OrderInv /\ BasisInv /\ [Next]_vars => BasisInv'
  <2> SUFFICES ASSUME TypeInv, OrderInv, BasisInv, [Next]_vars
               PROVE  BasisInv'
    OBVIOUS
  <2>1. ASSUME UNCHANGED <<act, lock, label, model, home, src, noted>>
        PROVE  BasisInv'
    BY <2>1 DEF BasisInv, Based, Checked
  <2>2. ASSUME NEW a \in Actors, IoFail(a)
        PROVE  BasisInv'
    <3>1. act' = [act EXCEPT ![a] = Idle(a)] /\ lock' = Unlocked(a) /\ UNCHANGED <<label, model, home, src, noted>>
      BY <2>2 DEF IoFail, files, world
    <3>2. act'[a].step = "idle" /\ \A b \in Actors \ {a} : act'[b] = act[b]
      BY <3>1 DEF Idle, TypeInv, TypeOK
    <3>3. QED
      BY <3>1, <3>2 DEF BasisInv, Based, Checked, Unlocked
  <2>3. ASSUME NEW t \in Tasks, Enqueue(t)
        PROVE  BasisInv'
    <3>1. /\ \A u \in Tasks : task[u] # "none" => home'[u] = home[u]
          /\ UNCHANGED <<act, lock, label, model, src, noted>>
      BY <2>3 DEF Enqueue, files, world, TypeInv, TypeOK
    <3>2. QED
      BY <3>1 DEF BasisInv, Based, Checked, TypeInv, Engaged
  <2>4. ASSUME NEW t \in Tasks, Start(t) \/ Recover(t)
        PROVE  BasisInv'
    <3>1. /\ UNCHANGED <<lock, label, model, home, src, noted>>
          /\ \A a \in Actors : act'[a].step \in {"final", "remove"} => act'[a] = act[a]
      BY <2>4, Bounds DEF Start, Recover, rows, files, world, TypeInv, TypeOK
    <3>2. QED
      BY <3>1 DEF BasisInv, Based, Checked
  <2>5. ASSUME NEW t \in Tasks, Cancel(t) \/ Interrupt(t) \/ Retry(t)
        PROVE  BasisInv'
    BY <2>1, <2>5 DEF Cancel, Interrupt, Retry, files, world
  <2>6. ASSUME NEW f \in Feedbacks, Apply(f)
        PROVE  BasisInv'
    BY <2>6, Bounds DEF Apply, rows, files, BasisInv, Based, Checked
  <2>7. CASE Retrain
    BY <2>7, Bounds DEF Retrain, rows, files, BasisInv, Based, Checked
  <2>8. CASE Crash
    BY <2>8 DEF Crash, Idle, rows, files, world, BasisInv, Based, Checked
  <2>9. CASE \/ \E f \in Feedbacks : Decide(f) \/ Unlink(f)
             \/ Reconfigure \/ Activate \/ UNCHANGED vars
             \/ \E d \in Dirs, c \in {"none", "foreign"} : MoveTarget(d, c)
    BY <2>1, <2>9 DEF Decide, Unlink, Reconfigure, Activate, MoveTarget, Move, vars, rows, files, world
  <2>10. ASSUME NEW c \in {"none", "other"}, MoveSource(c)
         PROVE  BasisInv'
    <3>1. /\ UNCHANGED <<act, lock, label, model, home, noted>>
          /\ Careful => \A a \in Actors : act[a].step \notin {"final", "remove"}
      BY <2>10 DEF MoveSource, Move, rows, world
    <3>2. QED
      BY <3>1 DEF BasisInv, Based, Checked
  <2>11. QED
    BY <2>2, <2>3, <2>4, <2>5, <2>6, <2>7, <2>8, <2>9, <2>10, StepsKeepBasis DEF Next
<1>3. QED
  BY <1>1, <1>2, TypesFit, OrderIsKept, PTL DEF Spec

(***************************************************************************)
(* No source is removed on a label or a model that feedback or training    *)
(* has replaced since, however both race with the transfer                 *)
(* (transfer.py:200-204).                                                  *)
(***************************************************************************)
THEOREM RemovalsAreCurrent == Spec => CurrentBasisOnly
<1>1. BasisInv /\ [Next]_vars =>
        [\A a \in Actors : Removes(a) => LET h == home[act[a].on] IN
            label = h.label /\ model = h.model]_vars
  BY DEF BasisInv, Based, Removes
<1>2. QED
  BY <1>1, BasisIsKept, PTL DEF Spec, CurrentBasisOnly

(***************************************************************************)
(* If nobody replaces the source between its last hash and the removal,    *)
(* the file removed is the one that was planned, and its publication is on *)
(* record (transfer.py:189-204).                                           *)
(***************************************************************************)
THEOREM RemovalsAreOfThePlanned == ASSUME Careful PROVE Spec => RemovesOnlyItsSource
<1>1. TypeInv /\ OrderInv /\ BasisInv /\ [Next]_vars =>
        [\A a \in Actors : Removes(a) => LET t == act[a].on IN
            src \in {"none", noted[t]} /\ lineage[t] # "planned"]_vars
  <2> SUFFICES ASSUME TypeInv, OrderInv, BasisInv, NEW a \in Actors, Removes(a)
               PROVE  src \in {"none", noted[act[a].on]} /\ lineage[act[a].on] # "planned"
    OBVIOUS
  <2>1. act[a].step = "remove"
    BY DEF Removes
  <2>2. lineage[act[a].on] \in Told
    BY <2>1 DEF OrderInv, Informed, Planning
  <2>3. QED
    BY <2>1, <2>2 DEF BasisInv, Checked, Told
<1>2. QED
  BY <1>1, TypesFit, OrderIsKept, BasisIsKept, PTL DEF Spec, RemovesOnlyItsSource
============================================================================
