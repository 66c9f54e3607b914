---------------------------- MODULE FilterTasks ----------------------------
(***************************************************************************)
(* The life of a video_filter task: tasks.py, the control round, the       *)
(* executors of supervisor.py and the requests that queue a task again.    *)
(*                                                                         *)
(* A control round (tick) minds what is in _running, fails the tasks of    *)
(* dead processes, finishes the transfers that classifications have left,  *)
(* discovers new tasks and hands queued ones to executor threads.  The     *)
(* database row is the truth across crashes, _running only what this       *)
(* process remembers, and the two are written at different times.          *)
(* A step here ends at a commit, at a lock or at a change of the shared    *)
(* module state.                                                           *)
(*                                                                         *)
(* Abstracted: what a task computes; the GPU phases (GpuLease); how a file *)
(* is moved and what its gate looks at (FilterTransfer), of which only the *)
(* state of the operation is kept; scans (FilterTracking); one group.  A   *)
(* claim token is a name that nothing else bears; rows that ended forget   *)
(* theirs, their owner and, unless they failed, their code.                *)
(***************************************************************************)
EXTENDS Naturals, FiniteSets

CONSTANTS
    Tasks,        \* task rows, by their dedup key
    Older,        \* pairs: the first was created before the second
    Kind,         \* extract, train, predict or classify
    Revision,     \* the configuration revision of each task
    Capacity,     \* running tasks of each kind that dispatch allows
    Tokens,       \* bound: names of claim tokens and executors in use at a time
    MaxAttempts,  \* attempts after which nothing queues a failed task again
    MaxTrouble    \* bound: crashes, stops, reconfigurations, resets, outages, feedback

ASSUME TasksAssumption ==
    /\ Tasks # {}
    /\ MaxAttempts \in Nat \ {0} /\ MaxTrouble \in Nat
    /\ Tokens \subseteq Nat \ {0}
    /\ Revision \in [Tasks -> {0, 1}]
    /\ Capacity["extract"] \in Nat \ {0}
    /\ \A t \in Tasks : Capacity[Kind[t]] \in Nat \ {0}

VARIABLES
    row,        \* the task rows
    thread,     \* executors, by claim token
    item,       \* _running: token and configuration of each entry, token 0 for none
    limit,      \* _effective_limit, 0 for None
    pc,         \* where the control round is
    todo,       \* entries of _running, then transfers, it has not looked at yet
    claimed,    \* the task claimed but not handed out yet
    transfer,   \* the TransferOperation of each task
    journal,    \* some feedback is in the journal and not replayed
    config,     \* the configured directories
    stopping,   \* _stopping
    outage,     \* the database has failed under the end of a run
    trouble     \* budget used

volatile == <<thread, item, limit, pc, todo, claimed, stopping>>
world == <<journal, config, outage>>
vars == <<row, volatile, transfer, world, trouble>>

Trouble == trouble < MaxTrouble /\ trouble' = trouble + 1
Free == [on |-> CHOOSE t \in Tasks : TRUE, step |-> "free"]
NoItem == [token |-> 0, cfg |-> 0]
Extract == Capacity["extract"]

Row == [st : {"none", "queued", "running", "succeeded", "failed", "cancelled"},
        attempts : 0 .. MaxAttempts, token : {0} \cup Tokens,
        owner : {"none", "live", "dead"}, code : {"none", "oom", "database", "other"}]
Thread == [on : Tasks, step : {"free", "waiting", "working", "closing", "broken"}]
Entry == [token : {0} \cup Tokens, cfg : {0, 1}]

TypeOK ==
    /\ row \in [Tasks -> Row]
    /\ thread \in [Tokens -> Thread]
    /\ item \in [Tasks -> Entry]
    /\ limit \in 0 .. Extract
    /\ pc \in {"idle", "mind", "transfers", "dispatch", "claimed"}
    /\ todo \subseteq Tasks /\ claimed \subseteq Tasks
    /\ stopping \in BOOLEAN
    /\ transfer \in [Tasks -> {"none", "open", "done", "conflict"}]
    /\ journal \in BOOLEAN /\ config \in {0, 1} /\ outage \in BOOLEAN
    /\ trouble \in 0 .. MaxTrouble

Init ==
    /\ row = [t \in Tasks |-> [st |-> "none", attempts |-> 0, token |-> 0, owner |-> "none", code |-> "none"]]
    /\ thread = [k \in Tokens |-> Free]
    /\ item = [t \in Tasks |-> NoItem]
    /\ limit = 0 /\ pc = "idle" /\ todo = {} /\ claimed = {}
    /\ stopping = FALSE
    /\ transfer = [t \in Tasks |-> "none"]
    /\ journal = FALSE /\ config = 0 /\ outage = FALSE
    /\ trouble = 0

(***************************************************************************)
(* What queues a task.  _existing_task and task_result give up the owner   *)
(* with the claim; the retry request and the round after an out-of-memory  *)
(* keep it.                                                                *)
(***************************************************************************)
Queued(r) == [r EXCEPT !.st = "queued", !.token = 0, !.code = "none"]
Afresh(r) == [Queued(r) EXCEPT !.owner = "none"]
Failed(r, code) == [r EXCEPT !.st = "failed", !.token = 0, !.code = code]
Ended(r, st) == [Afresh(r) EXCEPT !.st = st]

(* enqueue_task, for discovery in a round and for a request: the same      *)
(* inputs give the same row, queued again after a conflict in the database.*)
Reusable(t) ==
    /\ row[t].st = "failed" /\ row[t].code = "database" /\ row[t].attempts < MaxAttempts
    /\ Kind[t] # "classify"
Enqueue(t) ==
    /\ Revision[t] = config
    /\ row[t].st = "none" \/ Reusable(t)
    /\ row' = [row EXCEPT ![t] = Afresh(@)]
    /\ UNCHANGED <<volatile, transfer, world, trouble>>

RetryRequest(t) ==
    /\ row[t].st = "failed" /\ row[t].attempts < MaxAttempts /\ Revision[t] = config
    /\ transfer[t] # "conflict"
    /\ row' = [row EXCEPT ![t] = Queued(@)]
    /\ UNCHANGED <<volatile, transfer, world, trouble>>

(* The reset tool starts the attempts anew for failed extractions.         *)
ResetFailed(t) ==
    /\ row[t].st = "failed" /\ Kind[t] = "extract" /\ Revision[t] = config
    /\ row' = [row EXCEPT ![t] = [Afresh(@) EXCEPT !.attempts = 0]]
    /\ Trouble
    /\ UNCHANGED <<volatile, transfer, world>>

(***************************************************************************)
(* An executor thread (_run).                                              *)
(***************************************************************************)
At(k, step) == thread' = [thread EXCEPT ![k].step = step]
Current(k) == LET r == row[thread[k].on] IN r.st = "running" /\ r.token = k

(* execute compares the configuration once, before it starts.              *)
Begin(k) ==
    LET t == thread[k].on IN
    /\ thread[k].step = "waiting"
    /\ At(k, IF Current(k) /\ Revision[t] = config THEN "working" ELSE "closing")
    /\ row' = [row EXCEPT ![t] = IF Current(k) /\ Revision[t] # config THEN Ended(@, "cancelled") ELSE @]
    /\ UNCHANGED <<item, limit, pc, todo, claimed, stopping, transfer, world, trouble>>

(* classify plans its transfer, then takes it to its end or to a conflict. *)
(* The gate was open when the run looked; the claim may be lost since.     *)
Move(k) ==
    LET t == thread[k].on IN
    /\ thread[k].step = "working" /\ Kind[t] = "classify"
    /\ \/ transfer[t] = "none" /\ transfer' = [transfer EXCEPT ![t] = "open"]
       \/ /\ transfer[t] = "open"
          /\ \E end \in {"done", "conflict"} : transfer' = [transfer EXCEPT ![t] = end]
    /\ UNCHANGED <<row, volatile, world, trouble>>

(* What the run comes to.  Inputs that changed cancel the task, a conflict *)
(* in the database queues it again while it has attempts left, feedback    *)
(* that waits for its replay does so without using one up.  The device is  *)
(* needed before a transfer is planned, and success is a transfer done.    *)
Deferred(r) == [Afresh(r) EXCEPT !.attempts = @ - 1]
Results(t) ==
    {Ended(row[t], "cancelled"), Failed(row[t], "other"),
     IF row[t].attempts < MaxAttempts THEN Afresh(row[t]) ELSE Failed(row[t], "database")}
    \cup (IF transfer[t] = "none" THEN {Failed(row[t], "oom")} ELSE {})
    \cup (IF Kind[t] = "classify" => transfer[t] = "done" THEN {Ended(row[t], "succeeded")} ELSE {})
    \cup (IF Kind[t] = "classify" /\ journal THEN {Deferred(row[t])} ELSE {})

(* A slip: the result is written whoever holds the task by then.           *)
WorkBlind(k) ==
    /\ thread[k].step = "working"
    /\ \E r \in Results(thread[k].on) : row' = [row EXCEPT ![thread[k].on] = r]
    /\ At(k, "closing")
    /\ UNCHANGED <<item, limit, pc, todo, claimed, stopping, transfer, world, trouble>>

Work(k) ==
    /\ thread[k].step = "working"
    /\ IF Current(k)
       THEN \E r \in Results(thread[k].on) : row' = [row EXCEPT ![thread[k].on] = r]
       ELSE UNCHANGED row
    /\ At(k, "closing")
    /\ UNCHANGED <<item, limit, pc, todo, claimed, stopping, transfer, world, trouble>>

(* The finally block.                                                      *)
Close(k) ==
    /\ thread[k].step = "closing"
    /\ thread' = [thread EXCEPT ![k] = Free]
    /\ UNCHANGED <<row, item, limit, pc, todo, claimed, stopping, transfer, world, trouble>>

(* The database fails under the commit of the result, which is logged, or  *)
(* under the last release, which ends the future with that exception.      *)
Outage(k) ==
    /\ Trouble /\ outage' = TRUE
    /\ \/ thread[k].step = "working" /\ At(k, "closing")
       \/ thread[k].step = "closing" /\ At(k, "broken")
    /\ UNCHANGED <<row, item, limit, pc, todo, claimed, stopping, transfer, journal, config>>

Executor(k) == Begin(k) \/ Move(k) \/ Work(k) \/ Close(k)
Finished(k) == thread[k].step \in {"free", "broken"}

(***************************************************************************)
(* The control round.                                                      *)
(***************************************************************************)
Listed == {t \in Tasks : item[t].token # 0}

(* The job runs every two seconds, earlier when a run that ended asks for  *)
(* it (wake_control), and never beside itself.                             *)
Open ==
    /\ pc = "idle" /\ ~stopping
    /\ pc' = "mind" /\ todo' = Listed
    /\ UNCHANGED <<row, thread, item, limit, claimed, stopping, transfer, world, trouble>>

(* An out-of-memory lowers the admission limit below what was running, and *)
(* queues the task again unless it ran alone.  A success may raise it.     *)
LeastOf(a, b) == IF a < b THEN a ELSE b
Lowered(running) == LET m == running - 1 IN IF m < 1 THEN 1 ELSE m
Adjusted(t) ==
    CASE row[t].code = "oom" ->
           \E running \in 1 .. IF limit = 0 THEN Extract ELSE limit :
              /\ limit' = Lowered(running)
              /\ row' = IF row[t].attempts < MaxAttempts /\ running > 1
                        THEN [row EXCEPT ![t] = Queued(@)] ELSE row
      [] row[t].st = "succeeded" /\ Kind[t] = "extract" /\ limit > 0 ->
           limit' \in {limit, LeastOf(Extract, limit + 1)} /\ UNCHANGED row
      [] OTHER -> UNCHANGED <<limit, row>>

(* A slip: the entry of a cancelled run is dropped at once.                *)
MindDrops(t) ==
    LET k == item[t].token IN
    /\ pc = "mind" /\ t \in todo
    /\ IF thread[k].step = "broken"
       THEN pc' = "idle" /\ todo' = {} /\ UNCHANGED <<row, item, limit>>
       ELSE /\ todo' = todo \ {t}
            /\ UNCHANGED pc
            /\ IF item[t].cfg # config /\ row[t].st = "running"
               THEN /\ row' = [row EXCEPT ![t] = Ended(@, "cancelled")]
                    /\ item' = [item EXCEPT ![t] = NoItem]
                    /\ UNCHANGED limit
               ELSE IF Finished(k)
                    THEN Adjusted(t) /\ item' = [item EXCEPT ![t] = NoItem]
                    ELSE UNCHANGED <<row, item, limit>>
    /\ UNCHANGED <<thread, claimed, stopping, transfer, world, trouble>>

(* A run whose directories were replaced is cancelled, and its entry stays *)
(* until its thread has ended.                                             *)
Mind(t) ==
    LET k == item[t].token IN
    /\ pc = "mind" /\ t \in todo
    /\ IF thread[k].step = "broken"
       THEN pc' = "idle" /\ todo' = {} /\ UNCHANGED <<row, item, limit>>
       ELSE /\ todo' = todo \ {t}
            /\ UNCHANGED pc
            /\ IF item[t].cfg # config /\ row[t].st = "running"
               THEN /\ row' = [row EXCEPT ![t] = Ended(@, "cancelled")]
                    /\ item' = IF Finished(k) THEN [item EXCEPT ![t] = NoItem] ELSE item
                    /\ UNCHANGED limit
               ELSE IF Finished(k)
                    THEN Adjusted(t) /\ item' = [item EXCEPT ![t] = NoItem]
                    ELSE UNCHANGED <<row, item, limit>>
    /\ UNCHANGED <<thread, claimed, stopping, transfer, world, trouble>>

(* A slip: only tasks with attempts left are looked at.                    *)
OrphanRetryable(t) == row[t].st = "running" /\ row[t].owner = "dead" /\ row[t].attempts < MaxAttempts

(* A running task is failed when the process it names is dead.             *)
Orphan(t) == row[t].st = "running" /\ row[t].owner = "dead"
Recover ==
    /\ pc = "mind" /\ todo = {}
    /\ row' = [t \in Tasks |-> IF Orphan(t) THEN Failed(row[t], "other")
                               ELSE row[t]]
    /\ todo' = {t \in Tasks : transfer[t] = "open"}
    /\ pc' = IF todo' = {} THEN "dispatch" ELSE "transfers"
    /\ UNCHANGED <<thread, item, limit, claimed, stopping, transfer, world, trouble>>

(* A transfer whose task does not run goes on from where it stopped, and   *)
(* the task has succeeded when it is done, whatever became of it: it may   *)
(* have failed, been cancelled or be queued again.  Feedback defers it,    *)
(* anything else that stands in its way makes it a conflict.               *)
Resume(t) ==
    /\ pc = "transfers" /\ t \in todo
    /\ \/ /\ row[t].st # "running" /\ transfer[t] = "open" /\ Revision[t] = config /\ ~journal
          /\ transfer' = [transfer EXCEPT ![t] = "done"]
          /\ UNCHANGED <<row, todo>>
       \/ /\ row[t].st # "running" /\ transfer[t] = "done"
          /\ row' = [row EXCEPT ![t] = Ended(@, "succeeded")]
          /\ todo' = todo \ {t} /\ UNCHANGED transfer
       \/ /\ row[t].st # "running" /\ transfer[t] # "done"
          /\ transfer' = [transfer EXCEPT ![t] = "conflict"]
          /\ todo' = todo \ {t} /\ UNCHANGED row
       \/ /\ row[t].st = "running" \/ journal
          /\ todo' = todo \ {t} /\ UNCHANGED <<row, transfer>>
    /\ pc' = IF todo' = {} THEN "dispatch" ELSE pc
    /\ UNCHANGED <<thread, item, limit, claimed, stopping, world, trouble>>

(* Oldest first, past those whose kind has no room and classifications     *)
(* that wait for feedback to be replayed.                                  *)
Room(t) == Cardinality({u \in Listed : Kind[u] = Kind[t]}) < Capacity[Kind[t]]
(* A slip: off by one in the attempts a task may have.                     *)
ClaimableEarly(t) ==
    row[t].st = "queued" /\ Room(t) /\ ~(Kind[t] = "classify" /\ journal) /\ row[t].attempts + 1 < MaxAttempts

Claimable(t) == row[t].st = "queued" /\ Room(t) /\ ~(Kind[t] = "classify" /\ journal)
Unused(k) == thread[k].step = "free" /\ \A t \in Tasks : k \notin {row[t].token, item[t].token}
Claim(t) ==
    /\ pc = "dispatch" /\ ~stopping /\ Claimable(t)
    /\ \A u \in Tasks : <<u, t>> \in Older => ~Claimable(u)
    /\ \E k \in Tokens :
          /\ Unused(k) /\ \A j \in Tokens : Unused(j) => k <= j
          /\ row' = [row EXCEPT ![t].st = "running", ![t].token = k, ![t].attempts = @ + 1]
    /\ pc' = "claimed" /\ claimed' = {t}
    /\ UNCHANGED <<thread, item, limit, todo, stopping, transfer, world, trouble>>

(* The owner is committed after the claim.  A pool that takes no more work *)
(* gives the task back.                                                    *)
Submit(t) ==
    LET k == row[t].token IN
    /\ pc = "claimed" /\ t \in claimed
    /\ claimed' = {}
    /\ IF stopping
       THEN /\ row' = [row EXCEPT ![t] = [Afresh(row[t]) EXCEPT !.attempts = @ - 1]]
            /\ pc' = "idle"
            /\ UNCHANGED <<thread, item>>
       ELSE /\ row' = [row EXCEPT ![t].owner = "live"]
            /\ thread' = [thread EXCEPT ![k] = [on |-> t, step |-> "waiting"]]
            /\ item' = [item EXCEPT ![t] = [token |-> k, cfg |-> config]]
            /\ pc' = "dispatch"
    /\ UNCHANGED <<limit, todo, stopping, transfer, world, trouble>>

(* A round that finds no name left ends too: names are only bounded here.  *)
Dispatched ==
    /\ pc = "dispatch"
    /\ stopping \/ (\A t \in Tasks : ~Claimable(t)) \/ (\A k \in Tokens : ~Unused(k))
    /\ pc' = "idle"
    /\ UNCHANGED <<row, thread, item, limit, todo, claimed, stopping, transfer, world, trouble>>

Round ==
    \/ Open \/ Recover \/ Dispatched
    \/ \E t \in Tasks : Mind(t) \/ Resume(t) \/ Claim(t) \/ Submit(t)

(***************************************************************************)
(* The process and its configuration.                                      *)
(***************************************************************************)
Stop ==
    /\ ~stopping /\ Trouble
    /\ stopping' = TRUE
    /\ UNCHANGED <<row, thread, item, limit, pc, todo, claimed, transfer, world>>
Crash ==
    /\ IF stopping THEN UNCHANGED trouble ELSE Trouble
    /\ row' = [t \in Tasks |-> [row[t] EXCEPT !.owner = IF @ = "live" THEN "dead" ELSE @]]
    /\ thread' = [k \in Tokens |-> [thread[k] EXCEPT !.step = "free"]]
    /\ item' = [t \in Tasks |-> NoItem]
    /\ limit' = 0 /\ pc' = "idle" /\ todo' = {} /\ claimed' = {}
    /\ stopping' = FALSE
    /\ UNCHANGED <<transfer, world>>
Restart == stopping /\ Crash
Reconfigure ==
    /\ config' = 1 - config
    /\ Trouble
    /\ UNCHANGED <<row, volatile, transfer, journal, outage>>

(* A person moves a file or decides; scans and requests replay the journal.*)
Feedback ==
    /\ ~journal /\ journal' = TRUE
    /\ Trouble
    /\ UNCHANGED <<row, volatile, transfer, config, outage>>
Replay ==
    /\ journal /\ journal' = FALSE
    /\ UNCHANGED <<row, volatile, transfer, config, outage, trouble>>

Next ==
    \/ Round
    \/ \E k \in Tokens : Executor(k) \/ Outage(k)
    \/ \E t \in Tasks : Enqueue(t) \/ RetryRequest(t) \/ ResetFailed(t)
    \/ Stop \/ Crash \/ Reconfigure \/ Feedback \/ Replay

Spec == Init /\ [][Next]_vars

(* The job is triggered for ever, threads run, a worker is bounded by      *)
(* task_timeout_seconds, a server that stops is started again, and every   *)
(* scan replays the feedback.                                              *)
Fairness ==
    /\ WF_vars(Round) /\ (\A k \in Tokens : WF_vars(Executor(k)))
    /\ WF_vars(Restart) /\ WF_vars(Replay)
FairSpec == Spec /\ Fairness
-----------------------------------------------------------------------------
(***************************************************************************)
(* Properties.                                                             *)
(***************************************************************************)

(* Through retries, requeues and reconfigurations a task has one executor  *)
(* at work, it is the one _running knows, and no kind has more at work     *)
(* than its capacity, although a task can be queued again while its last   *)
(* thread is still closing and cancelled while its thread works            *)
(* (supervisor.py:317-379, 426-464).                                       *)
Working(k) == thread[k].step \in {"waiting", "working"}
CapacityKept ==
    /\ \A k \in Tokens : Working(k) => item[thread[k].on].token = k
    /\ \A t \in Tasks : Cardinality({k \in Tokens : Working(k) /\ Kind[thread[k].on] = Kind[t]}) <= Capacity[Kind[t]]

(* A task that succeeded stays so, whatever comes late: the result of a    *)
(* run that lost its claim, the round, a crash or a request.  A cancelled  *)
(* one stays cancelled too, unless the round finds the transfer it had     *)
(* left done: then, and only then, it has succeeded after all              *)
(* (supervisor.py:286-288, 426-433, 505-520).                              *)
EndedStaysEnded ==
    [][\A t \in Tasks :
         /\ row[t].st = "succeeded" => row'[t].st = "succeeded"
         /\ row[t].st = "cancelled" =>
               \/ row'[t].st = "cancelled"
               \/ pc = "transfers" /\ transfer[t] = "done" /\ row'[t].st = "succeeded"]_vars

(* A running task whose owner is on record comes to an end, across crashes *)
(* and reconfigurations, as long as the database takes the results         *)
(* (supervisor.py:505-511).                                                *)
Owned(t) == row[t].st = "running" /\ row[t].owner # "none"
OwnedRunEnds == \A t \in Tasks : Owned(t) ~> (~Owned(t) \/ outage)

(* A queued task is taken, or ended by the round: finished runs make room, *)
(* feedback is replayed and rounds go on (supervisor.py:322, 544-554).     *)
QueuedIsServed == \A t \in Tasks : (row[t].st = "queued") ~> (row[t].st # "queued" \/ outage)
=============================================================================
