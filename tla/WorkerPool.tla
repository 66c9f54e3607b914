------------------------------ MODULE WorkerPool ------------------------------
(***************************************************************************)
(* The resident worker processes of the video filter:                      *)
(* video_filter/persistent_client.py with the worker side of               *)
(* persistent_worker.py and gpu_phase.py, gpu_control and the cancelling   *)
(* of supervisor.py, and ProcessTree.                                      *)
(*                                                                         *)
(* An executor thread takes a worker that was started with the right key   *)
(* from the pool, or starts one, sends it the task, and answers it when it *)
(* asks for the device and gives it back.  A worker that failed is never   *)
(* used again.  Killing is a signal: the process is dying until the system *)
(* has taken it away, and what it has on the device stays until then.      *)
(*                                                                         *)
(* Abstracted: one kind of worker, log messages, the content of a task.    *)
(* Which worker has been idle, or in service, for too long is a choice.    *)
(* close() always succeeds; that it may not is in the README.              *)
(***************************************************************************)
EXTENDS Naturals, FiniteSets

CONSTANTS
    Threads,     \* executor threads; each runs one task after another
    Workers,     \* worker objects; a name is used again once its worker is gone
    KeysOf,      \* what its tasks may need a worker to have been started with
    Capacity,    \* persistent_worker_capacity
    Leases,      \* how many leases the device admits
    MaxFaults    \* bound: processes that die, runs that fail, cleanups that fail

ASSUME PoolAssumption ==
    /\ {Capacity, Leases, MaxFaults} \subseteq Nat
    /\ 0 < Capacity
    /\ "none" \notin Threads \cup Workers \cup UNION {KeysOf[t] : t \in Threads}

VARIABLES
    run,       \* the task of each thread: where it is, its key, its worker
    worker,    \* each worker: its process, its place in the pool, its job
    tree,      \* _trees: the worker a cancellation of the task would kill
    lease,     \* threads whose task holds a lease of the device
    cancelled, \* threads whose task is cancelled: its group is no more
    down,      \* how far the shutdown is
    faults     \* budget used

vars == <<run, worker, tree, lease, cancelled, down, faults>>

Idle == [pc |-> "idle", key |-> "none", w |-> "none", good |-> FALSE]
Gone == [proc |-> "dead", pooled |-> FALSE, busy |-> FALSE, key |-> "none",
         task |-> "none", step |-> "rest"]
Keys == UNION {KeysOf[t] : t \in Threads}
Living == {"alive", "dying"}
Pool == {w \in Workers : worker[w].pooled}

RunRecord ==
    [pc : {"idle", "acquire", "start", "work", "wait", "forget", "again", "settle"},
     key : Keys \cup {"none"}, w : Workers \cup {"none"}, good : BOOLEAN]
WorkerRecord ==
    [proc : Living \cup {"dead"}, pooled : BOOLEAN, busy : BOOLEAN, key : Keys \cup {"none"},
     task : Threads \cup {"none"},
     step : {"rest", "compute", "ask", "gpu", "release", "failed", "done", "broken"}]

TypeOK ==
    /\ run \in [Threads -> RunRecord]
    /\ worker \in [Workers -> WorkerRecord]
    /\ \A t \in Threads : run[t].pc \in {"start", "work", "wait", "again"} => run[t].w # "none"
    /\ tree \in [Threads -> Workers \cup {"none"}]
    /\ lease \subseteq Threads /\ cancelled \subseteq Threads
    /\ down \in {"no", "stopping", "closing", "closed"}
    /\ faults \in 0 .. MaxFaults

Init ==
    /\ run = [t \in Threads |-> Idle]
    /\ worker = [w \in Workers |-> Gone]
    /\ tree = [t \in Threads |-> "none"]
    /\ lease = {} /\ cancelled = {}
    /\ down = "no" /\ faults = 0

Go(t, pc) == run' = [run EXCEPT ![t].pc = pc]
Blame == faults < MaxFaults /\ faults' = faults + 1

Signalled(ws) == [w \in Workers |->
    IF w \in ws /\ worker[w].proc = "alive" THEN [worker[w] EXCEPT !.proc = "dying"] ELSE worker[w]]

(* A run that failed closes its worker: a signal to the tree, then a wait. *)
Fail(t) == Go(t, "wait") /\ worker' = Signalled({run[t].w})

(* Whoever takes from or gives back to the pool waits for _condition,      *)
(* which the shutdown holds while it closes the workers.                   *)
Open == down # "closing"

(***************************************************************************)
(* _acquire, one pass under _condition: first the idle workers that are    *)
(* dead or have rested too long are closed.  Then a free worker with the   *)
(* right key is taken; at capacity a free one with another key is closed   *)
(* to make room.  Otherwise the thread waits.                              *)
(***************************************************************************)
Reaped(old) == {w \in Pool : ~worker[w].busy /\ (worker[w].proc = "dead" \/ w \in old)}
Closed(ws) == [w \in Workers |-> IF w \in ws THEN Gone ELSE worker[w]]

(* A slip: a worker in use is taken as well. *)
FitsInUse(key, ws) == {w \in ws : worker[w].key = key}

Fits(key, ws) == {w \in ws : ~worker[w].busy /\ worker[w].key = key}
Others(key, ws) == {w \in ws : ~worker[w].busy /\ worker[w].key # key}
(* A slip: the idle workers are not counted. *)
FullOfBusy(ws) == Cardinality({w \in ws : worker[w].busy}) >= Capacity

Full(ws) == Cardinality(ws) >= Capacity
Unused(w, gone) == w \in gone \/ (worker[w] = Gone /\ \A t \in Threads : run[t].w # w)
Started(key) == [Gone EXCEPT !.proc = "alive", !.pooled = TRUE, !.busy = TRUE, !.key = key]
Hold(t, w) == run' = [run EXCEPT ![t] = [Idle EXCEPT !.pc = "start", !.w = w]]

Acquire(t) ==
    LET key == run[t].key IN
    /\ run[t].pc = "acquire" /\ Open
    /\ \/ down = "closed" /\ Go(t, "forget") /\ UNCHANGED worker
       \/ /\ down # "closed"
          /\ \E old \in SUBSET Pool :
                LET left == Pool \ Reaped(old) IN
                \/ \E w \in Fits(key, left) :
                      /\ worker' = [Closed(Reaped(old)) EXCEPT ![w].busy = TRUE]
                      /\ Hold(t, w)
                \/ /\ Fits(key, left) = {}
                   /\ \E evicted \in SUBSET Others(key, left) :
                         LET gone == Reaped(old) \cup evicted
                             w == CHOOSE w \in Workers : Unused(w, gone)
                         IN
                         /\ IF Full(left) THEN Cardinality(evicted) = 1 ELSE evicted = {}
                         /\ \E v \in Workers : Unused(v, gone)
                         /\ worker' = [Closed(gone) EXCEPT ![w] = Started(key)]
                         /\ Hold(t, w)
    /\ UNCHANGED <<tree, lease, cancelled, down, faults>>

(* The control round reaps too.                                            *)
ReapIdle ==
    /\ Open
    /\ \E old \in SUBSET Pool : Reaped(old) # {} /\ worker' = Closed(Reaped(old))
    /\ UNCHANGED <<run, tree, lease, cancelled, down, faults>>

(***************************************************************************)
(* The rest of run, by the thread.  A shutdown begins no further task.     *)
(***************************************************************************)
Enter(t) ==
    /\ run[t].pc = "idle" /\ down = "no"
    /\ \E key \in KeysOf[t] : run' = [run EXCEPT ![t] = [Idle EXCEPT !.pc = "acquire", !.key = key]]
    /\ UNCHANGED <<worker, tree, lease, cancelled, down, faults>>

(* The tree is known to cancellation before the task is sent; a process    *)
(* that has gone breaks the pipe.                                          *)
Start(t) ==
    LET w == run[t].w IN
    /\ run[t].pc = "start"
    /\ tree' = [tree EXCEPT ![t] = w]
    /\ IF worker[w].proc = "dead" THEN Fail(t)
       ELSE /\ Go(t, "work")
            /\ worker' = [worker EXCEPT ![w] = [@ EXCEPT !.task = t, !.step = "compute"]]
    /\ UNCHANGED <<lease, cancelled, down, faults>>

(* gpu_control refuses while a lease is held, for a cancelled task and     *)
(* when the program is stopping; the device may have no room.  When the    *)
(* work is done the output is loaded; a worker that has served long enough *)
(* (worker_max_tasks), or whose output cannot be loaded, is closed.        *)
Refused(t) == t \in lease \/ t \in cancelled \/ down # "no"

Answer(t) ==
    LET w == run[t].w
        step == worker[w].step
        Reply(s) == worker' = [worker EXCEPT ![w].step = s] /\ UNCHANGED run
        Refuse == Fail(t) /\ UNCHANGED lease
    IN
    /\ run[t].pc = "work" /\ worker[w].task = t
    /\ \/ /\ step = "ask"
          /\ IF Refused(t) THEN Refuse
             ELSE IF Cardinality(lease) < Leases THEN Reply("gpu") /\ lease' = lease \cup {t}
             ELSE Reply("compute") /\ UNCHANGED lease
       \/ /\ step = "release"
          /\ IF t \in lease THEN Reply("compute") /\ lease' = lease \ {t} ELSE Refuse
       \/ step = "failed" /\ Reply("broken") /\ UNCHANGED lease
       \/ step = "broken" /\ Refuse
       \/ /\ step = "done"
          /\ \/ /\ run' = [run EXCEPT ![t] = [@ EXCEPT !.good = TRUE, !.pc = "forget"]]
                /\ worker' = [worker EXCEPT ![w] = [@ EXCEPT !.task = "none", !.step = "rest"]]
             \/ Fail(t)
          /\ UNCHANGED lease
    /\ UNCHANGED <<tree, cancelled, down, faults>>

(* The stream of a process that is gone ends.                              *)
Hangup(t) ==
    /\ run[t].pc = "work" /\ worker[run[t].w].proc = "dead" /\ worker[run[t].w].step # "done"
    /\ Fail(t)
    /\ UNCHANGED <<tree, lease, cancelled, down, faults>>

(* The deadline counts from the start of run.                              *)
Overdue(t) ==
    /\ \/ run[t].pc = "acquire" /\ Open /\ down # "closed" /\ Go(t, "forget") /\ UNCHANGED worker
       \/ run[t].pc = "work" /\ Fail(t)
    /\ UNCHANGED <<tree, lease, cancelled, down, faults>>

(* A slip: the kill is not waited for. *)
WaitNot(t) ==
    /\ run[t].pc \in {"wait", "again"}
    /\ Go(t, IF run[t].pc = "wait" THEN "forget" ELSE "settle")
    /\ UNCHANGED <<worker, tree, lease, cancelled, down, faults>>

(* After a cleanup that failed the thread has nothing left but to settle.  *)
Wait(t) ==
    /\ run[t].pc \in {"wait", "again"} /\ worker[run[t].w].proc = "dead"
    /\ Go(t, IF run[t].pc = "wait" THEN "forget" ELSE "settle")
    /\ UNCHANGED <<worker, tree, lease, cancelled, down, faults>>

(* The tree is forgotten, and the cleanup of gpu_control gives up whatever *)
(* lease is left; when it fails the worker is closed, and the end of _run  *)
(* releases.                                                               *)
Forget(t) ==
    /\ run[t].pc = "forget"
    /\ tree' = [tree EXCEPT ![t] = "none"]
    /\ \/ Go(t, "settle") /\ lease' = lease \ {t} /\ UNCHANGED <<worker, faults>>
       \/ /\ Blame
          /\ run' = [run EXCEPT ![t] = [@ EXCEPT !.good = FALSE,
                       !.pc = IF run[t].w = "none" THEN "settle" ELSE "again"]]
          /\ worker' = Signalled({run[t].w})
          /\ UNCHANGED lease
    /\ UNCHANGED <<cancelled, down>>

(* A worker that cannot be used again leaves the pool; it was closed.      *)
Settle(t) ==
    LET w == run[t].w IN
    /\ run[t].pc = "settle" /\ (w = "none" \/ Open)
    /\ worker' = IF w = "none" THEN worker
                 ELSE IF run[t].good /\ down # "closed" THEN [worker EXCEPT ![w].busy = FALSE]
                 ELSE [worker EXCEPT ![w] = [Gone EXCEPT !.proc = worker[w].proc]]
    /\ run' = [run EXCEPT ![t] = Idle]
    /\ lease' = lease \ {t}
    /\ cancelled' = cancelled \ {t}
    /\ UNCHANGED <<tree, down, faults>>

(***************************************************************************)
(* The worker process.  It asks for the device until it gets it.  An       *)
(* exception, in a phase on the device or outside, ends it in order.       *)
(***************************************************************************)
Process(w) ==
    /\ worker[w].proc = "alive"
    /\ \/ worker[w].step = "compute" /\ \E s \in {"ask", "done"} : worker' = [worker EXCEPT ![w].step = s]
       \/ worker[w].step = "gpu" /\ worker' = [worker EXCEPT ![w].step = "release"]
    /\ UNCHANGED <<run, tree, lease, cancelled, down, faults>>

Raise(w) ==
    /\ worker[w].proc = "alive" /\ Blame
    /\ \/ worker[w].step = "compute" /\ worker' = [worker EXCEPT ![w].step = "broken"]
       \/ worker[w].step = "gpu" /\ worker' = [worker EXCEPT ![w].step = "failed"]
    /\ UNCHANGED <<run, tree, lease, cancelled, down>>

Dies(w) ==
    /\ worker[w].proc = "alive" /\ Blame
    /\ worker' = [worker EXCEPT ![w].proc = "dead"]
    /\ UNCHANGED <<run, tree, lease, cancelled, down>>

Vanish(w) ==
    /\ worker[w].proc = "dying"
    /\ worker' = [worker EXCEPT ![w].proc = "dead"]
    /\ UNCHANGED <<run, tree, lease, cancelled, down, faults>>

(***************************************************************************)
(* The control round and the shutdown.  Each round cancels again while the *)
(* run of a group that is no more goes on: its worker may not be known yet.*)
(***************************************************************************)
Cancel(t) ==
    /\ run[t].pc # "idle" /\ down = "no"
    /\ cancelled' = cancelled \cup {t}
    /\ worker' = Signalled({tree[t]})
    /\ UNCHANGED <<run, tree, lease, down, faults>>

Stop ==
    /\ down = "no"
    /\ down' = "stopping"
    /\ worker' = Signalled({tree[t] : t \in Threads})
    /\ UNCHANGED <<run, tree, lease, cancelled, faults>>

(* A slip: only the idle workers are closed. *)
ClosePoolIdle ==
    /\ down = "stopping"
    /\ down' = "closing"
    /\ worker' = Signalled({w \in Pool : ~worker[w].busy})
    /\ UNCHANGED <<run, tree, lease, cancelled, faults>>

ClosePool ==
    /\ down = "stopping"
    /\ down' = "closing"
    /\ worker' = Signalled(Pool)
    /\ UNCHANGED <<run, tree, lease, cancelled, faults>>

(* A slip: the pool counts as closed once its workers are signalled. *)
PoolClosedAtOnce ==
    /\ down = "closing"
    /\ down' = "closed"
    /\ worker' = [w \in Workers |-> [worker[w] EXCEPT !.pooled = FALSE]]
    /\ UNCHANGED <<run, tree, lease, cancelled, faults>>

PoolClosed ==
    /\ down = "closing" /\ \A w \in Pool : worker[w].proc = "dead"
    /\ down' = "closed"
    /\ worker' = [w \in Workers |-> [worker[w] EXCEPT !.pooled = FALSE]]
    /\ UNCHANGED <<run, tree, lease, cancelled, faults>>

Thread(t) ==
    \/ Acquire(t) \/ Start(t) \/ Answer(t) \/ Hangup(t)
    \/ Wait(t) \/ Forget(t) \/ Settle(t)

Next ==
    \/ \E t \in Threads : Enter(t) \/ Thread(t) \/ Overdue(t) \/ Cancel(t)
    \/ \E w \in Workers : Process(w) \/ Raise(w) \/ Dies(w) \/ Vanish(w)
    \/ ReapIdle \/ Stop \/ ClosePool \/ PoolClosed

Spec == Init /\ [][Next]_vars

(* Threads run, a deadline comes, the system takes away what was killed,   *)
(* and a shutdown once begun goes through.                                 *)
FairSpec ==
    /\ Spec
    /\ \A t \in Threads : WF_vars(Thread(t)) /\ WF_vars(Overdue(t))
    /\ \A w \in Workers : WF_vars(Vanish(w))
    /\ WF_vars(ClosePool \/ PoolClosed)

(***************************************************************************)
(* Properties.                                                             *)
(***************************************************************************)

(* However workers are started, evicted, retired, killed and reaped, there *)
(* are never more processes than the capacity, those that were killed and  *)
(* have not gone yet included.                                             *)
ProcessesWithinCapacity == Cardinality({w \in Workers : worker[w].proc \in Living}) <= Capacity

(* A process that may have something on the device works for a task that   *)
(* holds a lease: a cancelled, failed or overdue run gives it up only when *)
(* its process is gone.                                                    *)
GpuNeedsLease ==
    \A w \in Workers :
        worker[w].step \in {"gpu", "failed"} /\ worker[w].proc \in Living => worker[w].task \in lease

(* No two runs hold one worker, a worker in use by a run works for no      *)
(* other, and a cancellation can only reach the worker the run holds.      *)
WorkIsItsOwn ==
    \A t, u \in Threads :
        /\ run[t].w # "none" /\ run[u].w = run[t].w => t = u
        /\ run[t].pc = "work" => worker[run[t].w].task = t
        /\ tree[t] \in {"none", run[t].w}

(* When the shutdown has closed the pool no process is left, whatever      *)
(* threads were starting, killing or giving back at the time.              *)
NoneSurvives == down = "closed" => \A w \in Workers : worker[w].proc = "dead"

(* Every run ends: it is answered, cancelled, overdue or fails, and its    *)
(* worker is put back or closed, also under a shutdown.                    *)
EveryRunEnds == \A t \in Threads : run[t].pc # "idle" ~> run[t].pc = "idle"
=============================================================================
