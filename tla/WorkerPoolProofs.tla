--------------------------- MODULE WorkerPoolProofs ---------------------------
(***************************************************************************)
(* The resident workers, for any number of threads, workers and keys and   *)
(* any sequence of faults: who holds which worker, what a process may have *)
(* on the device, how many processes there are, and that none survives.    *)
(***************************************************************************)
EXTENDS WorkerPool, TLAPS, FiniteSetTheorems

(* A signal ends no process by itself, and reaches nothing but the process.*)
LEMMA SignalledIs ==
    ASSUME TypeOK, NEW ws
    PROVE  /\ Signalled(ws) \in [Workers -> WorkerRecord]
           /\ \A w \in Workers :
                /\ Signalled(ws)[w].pooled = worker[w].pooled
                /\ Signalled(ws)[w].busy = worker[w].busy
                /\ Signalled(ws)[w].task = worker[w].task
                /\ Signalled(ws)[w].step = worker[w].step
                /\ Signalled(ws)[w].proc =
                    IF w \in ws /\ worker[w].proc = "alive" THEN "dying" ELSE worker[w].proc
                /\ w \notin ws => Signalled(ws)[w] = worker[w]
<1>1. \A w \in Workers :
        /\ worker[w] \in WorkerRecord
        /\ [worker[w] EXCEPT !.proc = "dying"] \in WorkerRecord
        /\ [worker[w] EXCEPT !.proc = "dying"].pooled = worker[w].pooled
        /\ [worker[w] EXCEPT !.proc = "dying"].busy = worker[w].busy
        /\ [worker[w] EXCEPT !.proc = "dying"].task = worker[w].task
        /\ [worker[w] EXCEPT !.proc = "dying"].step = worker[w].step
        /\ [worker[w] EXCEPT !.proc = "dying"].proc = "dying"
  BY DEF TypeOK, WorkerRecord, Living
<1>2. QED
  BY <1>1 DEF Signalled

(* What a pass of _acquire does to the pool: idle workers leave it, and    *)
(* the run holds one that was idle or is new, for which there is room.     *)
Room(gone) ==
    \E evicted \in SUBSET gone :
        IF Full((Pool \ gone) \cup evicted) THEN Cardinality(evicted) = 1 ELSE evicted = {}

Taking(t, gone, w, rec) ==
    /\ gone \subseteq {x \in Pool : ~worker[x].busy}
    /\ w \in Workers
    /\ rec \in WorkerRecord
    /\ rec.pooled /\ rec.busy
    /\ worker' = [Closed(gone) EXCEPT ![w] = rec]
    /\ Hold(t, w)
    /\ \/ w \in Pool \ gone /\ ~worker[w].busy /\ rec = [worker[w] EXCEPT !.busy = TRUE]
       \/ Unused(w, gone) /\ rec.step = "rest" /\ rec.task = "none" /\ Room(gone)

LEMMA AcquireTakes ==
    ASSUME TypeOK, NEW t \in Threads, Acquire(t), down # "closed"
    PROVE  \E gone \in SUBSET Pool : \E w \in Workers : \E rec \in WorkerRecord : Taking(t, gone, w, rec)
<1>1. PICK old \in SUBSET Pool :
        LET left == Pool \ Reaped(old) IN
        \/ \E w \in Fits(run[t].key, left) :
              /\ worker' = [Closed(Reaped(old)) EXCEPT ![w].busy = TRUE]
              /\ Hold(t, w)
        \/ /\ Fits(run[t].key, left) = {}
           /\ \E evicted \in SUBSET Others(run[t].key, left) :
                 LET gone == Reaped(old) \cup evicted
                     w == CHOOSE w \in Workers : Unused(w, gone)
                 IN
                 /\ IF Full(left) THEN Cardinality(evicted) = 1 ELSE evicted = {}
                 /\ \E v \in Workers : Unused(v, gone)
                 /\ worker' = [Closed(gone) EXCEPT ![w] = Started(run[t].key)]
                 /\ Hold(t, w)
  BY DEF Acquire
<1> DEFINE left == Pool \ Reaped(old)
<1>2. Reaped(old) \subseteq {x \in Pool : ~worker[x].busy}
  BY DEF Reaped
<1>3. CASE \E w \in Fits(run[t].key, left) :
              /\ worker' = [Closed(Reaped(old)) EXCEPT ![w].busy = TRUE]
              /\ Hold(t, w)
  <2>1. PICK w \in Fits(run[t].key, left) :
              /\ worker' = [Closed(Reaped(old)) EXCEPT ![w].busy = TRUE]
              /\ Hold(t, w)
    BY <1>3
  <2>2. w \in Pool \ Reaped(old) /\ ~worker[w].busy /\ w \in Workers /\ worker[w].pooled
    BY DEF Fits, Pool
  <2>3. [worker[w] EXCEPT !.busy = TRUE] \in WorkerRecord
    BY <2>2 DEF TypeOK, WorkerRecord
  <2>4. worker' = [Closed(Reaped(old)) EXCEPT ![w] = [worker[w] EXCEPT !.busy = TRUE]]
    BY <2>1, <2>2 DEF Closed
  <2>5. [worker[w] EXCEPT !.busy = TRUE].pooled /\ [worker[w] EXCEPT !.busy = TRUE].busy
    BY <2>2 DEF TypeOK
  <2>6. QED
    BY <1>2, <2>1, <2>2, <2>3, <2>4, <2>5 DEF Taking
<1>4. ASSUME NEW evicted \in SUBSET Others(run[t].key, left), NEW gone, NEW w,
             gone = Reaped(old) \cup evicted,
             w = CHOOSE x \in Workers : Unused(x, gone),
             IF Full(left) THEN Cardinality(evicted) = 1 ELSE evicted = {},
             \E v \in Workers : Unused(v, gone),
             worker' = [Closed(gone) EXCEPT ![w] = Started(run[t].key)],
             Hold(t, w)
      PROVE  \E g \in SUBSET Pool : \E x \in Workers : \E rec \in WorkerRecord : Taking(t, g, x, rec)
  <2>1. w \in Workers /\ Unused(w, gone)
    BY <1>4
  <2>2. gone \subseteq {x \in Pool : ~worker[x].busy}
    BY <1>2, <1>4 DEF Others
  <2>3. Started(run[t].key) \in WorkerRecord
    BY DEF TypeOK, RunRecord, Started, WorkerRecord, Gone, Living
  <2>4. /\ Started(run[t].key).pooled /\ Started(run[t].key).busy
        /\ Started(run[t].key).step = "rest" /\ Started(run[t].key).task = "none"
    BY DEF Started, Gone
  <2>5. left = (Pool \ gone) \cup evicted /\ evicted \in SUBSET gone
    BY <1>2, <1>4 DEF Others
  <2>6. Room(gone)
    BY <1>4, <2>5 DEF Room
  <2>7. Taking(t, gone, w, Started(run[t].key))
    BY <1>4, <2>1, <2>2, <2>3, <2>4, <2>6 DEF Taking
  <2>8. QED
    BY <2>1, <2>2, <2>3, <2>7
<1>5. QED
  BY <1>1, <1>3, <1>4

(* The places a run can be in, and a worker after one assignment.          *)
Places == {"idle", "acquire", "start", "work", "wait", "forget", "again", "settle"}
Doing == {"rest", "compute", "ask", "gpu", "release", "failed", "done", "broken"}

LEMMA WorkerAfter ==
    ASSUME TypeOK, NEW w \in Workers
    PROVE  /\ \A s \in Doing : [worker EXCEPT ![w].step = s] \in [Workers -> WorkerRecord]
           /\ \A s \in Doing, t \in Threads \cup {"none"} :
                [worker EXCEPT ![w] = [@ EXCEPT !.task = t, !.step = s]] \in [Workers -> WorkerRecord]
           /\ [worker EXCEPT ![w].proc = "dead"] \in [Workers -> WorkerRecord]
           /\ [worker EXCEPT ![w].busy = FALSE] \in [Workers -> WorkerRecord]
           /\ [worker EXCEPT ![w] = [Gone EXCEPT !.proc = worker[w].proc]] \in [Workers -> WorkerRecord]
<1>1. worker \in [Workers -> WorkerRecord]
  BY DEF TypeOK
<1>2. /\ \A s \in Doing : [worker[w] EXCEPT !.step = s] \in WorkerRecord
      /\ \A s \in Doing, t \in Threads \cup {"none"} :
            [worker[w] EXCEPT !.task = t, !.step = s] \in WorkerRecord
      /\ [worker[w] EXCEPT !.proc = "dead"] \in WorkerRecord
      /\ [worker[w] EXCEPT !.busy = FALSE] \in WorkerRecord
      /\ [Gone EXCEPT !.proc = worker[w].proc] \in WorkerRecord
  BY <1>1 DEF WorkerRecord, Gone, Doing, Living
<1>3. QED
  BY <1>1, <1>2

LEMMA ManyAfter ==
    ASSUME TypeOK
    PROVE  /\ \A ws : Closed(ws) \in [Workers -> WorkerRecord]
           /\ [w \in Workers |-> [worker[w] EXCEPT !.pooled = FALSE]] \in [Workers -> WorkerRecord]
<1>1. worker \in [Workers -> WorkerRecord]
  BY DEF TypeOK
<1>2. Gone \in WorkerRecord /\ \A w \in Workers : [worker[w] EXCEPT !.pooled = FALSE] \in WorkerRecord
  BY <1>1 DEF WorkerRecord, Gone, Living
<1>3. QED
  BY <1>1, <1>2 DEF Closed

(***************************************************************************)
(* The variables keep their types; a run that is past the pool has a       *)
(* worker.                                                                 *)
(***************************************************************************)
LEMMA TypeStep == TypeOK /\ [Next]_vars => TypeOK'
<1> SUFFICES ASSUME TypeOK, [Next]_vars
             PROVE  TypeOK'
  OBVIOUS
<1> DEFINE HasWorker == \A t \in Threads : run[t].pc \in {"start", "work", "wait", "again"} => run[t].w # "none"
<1>f. /\ run \in [Threads -> RunRecord] /\ worker \in [Workers -> WorkerRecord] /\ HasWorker
      /\ tree \in [Threads -> Workers \cup {"none"}] /\ lease \in SUBSET Threads
      /\ cancelled \in SUBSET Threads /\ down \in {"no", "stopping", "closing", "closed"}
      /\ faults \in 0 .. MaxFaults
  BY DEF TypeOK
<1>q. ASSUME /\ run' \in [Threads -> RunRecord] /\ worker' \in [Workers -> WorkerRecord] /\ HasWorker'
             /\ tree' \in [Threads -> Workers \cup {"none"}] /\ lease' \in SUBSET Threads
             /\ cancelled' \in SUBSET Threads /\ down' \in {"no", "stopping", "closing", "closed"}
             /\ faults' \in 0 .. MaxFaults
      PROVE  TypeOK'
  BY <1>q DEF TypeOK
<1>s. \A ws : Signalled(ws) \in [Workers -> WorkerRecord]
  BY SignalledIs
<1>b. Blame => faults' \in 0 .. MaxFaults
  BY <1>f, PoolAssumption DEF Blame
<1>h. ASSUME NEW t \in Threads, NEW r \in RunRecord, run' = [run EXCEPT ![t] = r],
             r.pc \in {"start", "work", "wait", "again"} => r.w # "none"
      PROVE  run' \in [Threads -> RunRecord] /\ HasWorker'
  BY <1>f, <1>h
<1>g. ASSUME NEW t \in Threads, NEW pc \in Places, Go(t, pc),
             pc \in {"start", "work", "wait", "again"} => run[t].w # "none"
      PROVE  run' \in [Threads -> RunRecord] /\ HasWorker'
  <2>1. /\ [run[t] EXCEPT !.pc = pc] \in RunRecord
        /\ [run[t] EXCEPT !.pc = pc].pc = pc /\ [run[t] EXCEPT !.pc = pc].w = run[t].w
    BY <1>f DEF RunRecord, Places
  <2>2. run' = [run EXCEPT ![t] = [run[t] EXCEPT !.pc = pc]]
    BY <1>g DEF Go
  <2>3. QED
    BY <1>g, <1>h, <2>1, <2>2
<1>e. ASSUME NEW t \in Threads, Fail(t), run[t].pc = "start" \/ run[t].pc = "work"
      PROVE  run' \in [Threads -> RunRecord] /\ HasWorker' /\ worker' \in [Workers -> WorkerRecord]
  BY <1>f, <1>s, <1>e, <1>g DEF Fail, Places
<1> HIDE DEF HasWorker
<1>1. ASSUME NEW t \in Threads, Enter(t)
      PROVE  TypeOK'
  <2>1. PICK key \in KeysOf[t] :
          run' = [run EXCEPT ![t] = [Idle EXCEPT !.pc = "acquire", !.key = key]]
    BY <1>1 DEF Enter
  <2>2. [Idle EXCEPT !.pc = "acquire", !.key = key] \in RunRecord
    BY DEF Idle, RunRecord, Keys
  <2>3. [Idle EXCEPT !.pc = "acquire", !.key = key].pc = "acquire"
    BY DEF Idle
  <2>4. run' \in [Threads -> RunRecord] /\ HasWorker'
    BY <1>h, <2>1, <2>2, <2>3
  <2>5. QED
    BY <1>1, <1>f, <1>q, <2>4 DEF Enter
<1>2. ASSUME NEW t \in Threads, Acquire(t)
      PROVE  TypeOK'
  <2>1. CASE down = "closed"
    BY <1>2, <2>1, <1>f, <1>g, <1>q DEF Acquire, Places
  <2>2. CASE down # "closed"
    <3>1. PICK gone \in SUBSET Pool, w \in Workers, rec \in WorkerRecord : Taking(t, gone, w, rec)
      BY <1>2, <2>2, AcquireTakes
    <3>2. worker' \in [Workers -> WorkerRecord]
      BY <3>1, ManyAfter DEF Taking
    <3>3. /\ [Idle EXCEPT !.pc = "start", !.w = w] \in RunRecord
          /\ [Idle EXCEPT !.pc = "start", !.w = w].w = w
      BY DEF Idle, RunRecord
    <3>4. run' \in [Threads -> RunRecord] /\ HasWorker'
      BY <1>h, <3>1, <3>3, PoolAssumption DEF Taking, Hold
    <3>5. QED
      BY <1>2, <1>f, <1>q, <3>2, <3>4 DEF Acquire
  <2>3. QED
    BY <2>1, <2>2
<1>3. ASSUME NEW t \in Threads, Start(t)
      PROVE  TypeOK'
  <2>1. run[t].w \in Workers
    BY <1>3, <1>f DEF Start, HasWorker, RunRecord
  <2>2. run' \in [Threads -> RunRecord] /\ HasWorker' /\ worker' \in [Workers -> WorkerRecord]
    <3>1. CASE worker[run[t].w].proc = "dead"
      BY <1>3, <1>e, <3>1 DEF Start
    <3>2. CASE worker[run[t].w].proc # "dead"
      <4>1. worker' = [worker EXCEPT ![run[t].w] = [@ EXCEPT !.task = t, !.step = "compute"]]
        BY <1>3, <3>2 DEF Start
      <4>2. worker' \in [Workers -> WorkerRecord]
        BY <2>1, <4>1, WorkerAfter DEF Doing
      <4>3. run' \in [Threads -> RunRecord] /\ HasWorker'
        BY <1>3, <1>g, <2>1, <3>2, PoolAssumption DEF Start, Places
      <4>4. QED
        BY <4>2, <4>3
    <3>3. QED
      BY <3>1, <3>2
  <2>3. QED
    BY <1>3, <1>f, <1>q, <2>1, <2>2 DEF Start
<1>4. ASSUME NEW t \in Threads, Answer(t)
      PROVE  TypeOK'
  <2>1. run[t].w \in Workers
    BY <1>4, <1>f DEF Answer, HasWorker, RunRecord
  <2>2. CASE Fail(t)
    BY <1>4, <1>f, <1>q, <1>e, <2>2 DEF Answer
  <2>3. CASE \E s \in Doing : worker' = [worker EXCEPT ![run[t].w].step = s] /\ UNCHANGED run
    <3>1. HasWorker'
      BY <1>f, <2>3 DEF HasWorker
    <3>2. worker' \in [Workers -> WorkerRecord]
      <4>1. PICK s \in Doing : worker' = [worker EXCEPT ![run[t].w].step = s]
        BY <2>3
      <4>2. QED
        BY <2>1, <4>1, WorkerAfter
    <3>3. QED
      BY <1>4, <1>f, <1>q, <2>3, <3>1, <3>2 DEF Answer
  <2>4. CASE /\ run' = [run EXCEPT ![t] = [@ EXCEPT !.good = TRUE, !.pc = "forget"]]
             /\ worker' = [worker EXCEPT ![run[t].w] = [@ EXCEPT !.task = "none", !.step = "rest"]]
             /\ UNCHANGED lease
    <3>1. /\ [run[t] EXCEPT !.good = TRUE, !.pc = "forget"] \in RunRecord
          /\ [run[t] EXCEPT !.good = TRUE, !.pc = "forget"].pc = "forget"
      BY <1>f DEF RunRecord
    <3>2. run' \in [Threads -> RunRecord] /\ HasWorker'
      BY <1>f, <1>h, <2>4, <3>1
    <3>3. worker' \in [Workers -> WorkerRecord]
      BY <2>1, <2>4, WorkerAfter DEF Doing
    <3>4. QED
      BY <1>4, <1>f, <1>q, <2>4, <3>2, <3>3 DEF Answer
  <2>5. QED
    BY <1>4, <2>2, <2>3, <2>4 DEF Answer, Doing
<1>5. ASSUME NEW t \in Threads, Hangup(t)
      PROVE  TypeOK'
  BY <1>5, <1>e, <1>f, <1>q DEF Hangup
<1>6. ASSUME NEW t \in Threads, Overdue(t)
      PROVE  TypeOK'
  <2>1. run' \in [Threads -> RunRecord] /\ HasWorker' /\ worker' \in [Workers -> WorkerRecord]
    BY <1>6, <1>e, <1>f, <1>g DEF Overdue, Places
  <2>2. QED
    BY <1>6, <1>f, <1>q, <2>1 DEF Overdue
<1>7. ASSUME NEW t \in Threads, Wait(t)
      PROVE  TypeOK'
  <2>1. run' \in [Threads -> RunRecord] /\ HasWorker'
    BY <1>7, <1>g DEF Wait, Places
  <2>2. QED
    BY <1>7, <1>f, <1>q, <2>1 DEF Wait
<1>8. ASSUME NEW t \in Threads, Forget(t)
      PROVE  TypeOK'
  <2>1. CASE Go(t, "settle") /\ lease' = lease \ {t} /\ UNCHANGED <<worker, faults>>
    <3>1. run' \in [Threads -> RunRecord] /\ HasWorker'
      BY <1>g, <2>1 DEF Places
    <3>2. QED
      BY <1>8, <1>f, <1>q, <2>1, <3>1 DEF Forget
  <2>2. CASE /\ Blame /\ UNCHANGED lease /\ worker' = Signalled({run[t].w})
             /\ run' = [run EXCEPT ![t] = [@ EXCEPT !.good = FALSE,
                          !.pc = IF run[t].w = "none" THEN "settle" ELSE "again"]]
    <3> DEFINE r == [run[t] EXCEPT !.good = FALSE, !.pc = IF run[t].w = "none" THEN "settle" ELSE "again"]
    <3>1. r \in RunRecord /\ (r.pc \in {"start", "work", "wait", "again"} => r.w # "none")
      BY <1>f DEF RunRecord
    <3>2. run' \in [Threads -> RunRecord] /\ HasWorker'
      BY <1>f, <1>h, <2>2, <3>1
    <3>3. QED
      BY <1>8, <1>b, <1>f, <1>q, <1>s, <2>2, <3>2 DEF Forget
  <2>3. QED
    BY <1>8, <2>1, <2>2 DEF Forget
<1>9. ASSUME NEW t \in Threads, Settle(t)
      PROVE  TypeOK'
  <2>1. worker' \in [Workers -> WorkerRecord]
    <3>1. run[t].w = "none" \/ run[t].w \in Workers
      BY <1>f DEF RunRecord
    <3>2. QED
      BY <1>9, <1>f, <3>1, WorkerAfter DEF Settle
  <2>2. Idle \in RunRecord /\ Idle.pc = "idle"
    BY DEF Idle, RunRecord
  <2>3. run' \in [Threads -> RunRecord] /\ HasWorker'
    BY <1>9, <1>h, <2>2 DEF Settle
  <2>4. QED
    BY <1>9, <1>f, <1>q, <2>1, <2>3 DEF Settle
<1>10. ASSUME UNCHANGED run, worker' \in [Workers -> WorkerRecord]
       PROVE  run' \in [Threads -> RunRecord] /\ HasWorker'
  BY <1>10, <1>f DEF HasWorker
<1>11. ASSUME NEW t \in Threads, Cancel(t)
       PROVE  TypeOK'
  BY <1>11, <1>10, <1>f, <1>q, <1>s DEF Cancel
<1>12. ASSUME NEW w \in Workers, Process(w) \/ Vanish(w) \/ Raise(w) \/ Dies(w)
       PROVE  TypeOK'
  <2>1. worker' \in [Workers -> WorkerRecord]
    <3>1. \/ \E s \in Doing : worker' = [worker EXCEPT ![w].step = s]
          \/ worker' = [worker EXCEPT ![w].proc = "dead"]
      BY <1>12 DEF Process, Vanish, Raise, Dies, Doing
    <3>2. CASE worker' = [worker EXCEPT ![w].proc = "dead"]
      BY <3>2, WorkerAfter
    <3>3. ASSUME NEW s \in Doing, worker' = [worker EXCEPT ![w].step = s]
          PROVE  worker' \in [Workers -> WorkerRecord]
      BY <3>3, WorkerAfter
    <3>4. QED
      BY <3>1, <3>2, <3>3
  <2>2. faults' \in 0 .. MaxFaults
    BY <1>12, <1>b, <1>f DEF Process, Vanish, Raise, Dies
  <2>3. QED
    BY <1>12, <1>10, <1>f, <1>q, <2>1, <2>2 DEF Process, Vanish, Raise, Dies
<1>13. CASE ReapIdle \/ Stop \/ ClosePool \/ PoolClosed \/ UNCHANGED vars
  <2>1. worker' \in [Workers -> WorkerRecord]
    BY <1>13, <1>f, <1>s, ManyAfter DEF ReapIdle, Stop, ClosePool, PoolClosed, vars
  <2>2. QED
    BY <1>13, <1>10, <1>f, <1>q, <2>1 DEF ReapIdle, Stop, ClosePool, PoolClosed, vars
<1>14. QED
  BY <1>1, <1>2, <1>3, <1>4, <1>5, <1>6, <1>7, <1>8, <1>9, <1>11, <1>12, <1>13 DEF Next, Thread

(* Runs, workers, their entries for cancellation and leases keep their     *)
(* types through every step of persistent_client.py.                       *)
THEOREM TypeCorrect == Spec => []TypeOK
<1>1. Init => TypeOK
  BY PoolAssumption DEF Init, TypeOK, RunRecord, WorkerRecord, Idle, Gone, Living
<1>2. QED
  BY <1>1, TypeStep, PTL DEF Spec

(***************************************************************************)
(* The inductive invariant.  What a run knows of the worker it holds:      *)
(* until the shutdown has closed the pool the worker has its place there,  *)
(* marked busy.  A worker that was sent nothing yet rests; a run that      *)
(* failed has signalled it, and goes on only when it is dead.              *)
(***************************************************************************)
HolderState(t) ==
    LET w == run[t].w IN
    /\ run[t].pc \in {"idle", "acquire"} => w = "none"
    /\ run[t].good => run[t].pc \in {"forget", "settle"} /\ w # "none"
    /\ tree[t] # "none" => tree[t] = w /\ run[t].pc \in {"work", "wait", "forget"}
    /\ w # "none" =>
        /\ down # "closed" => worker[w].pooled /\ worker[w].busy
        /\ run[t].pc = "start" => worker[w].step = "rest" /\ worker[w].task = "none"
        /\ run[t].pc = "work" => worker[w].step # "rest" /\ worker[w].task = t
        /\ run[t].pc \in {"wait", "again"} => worker[w].proc # "alive"
        /\ run[t].pc \in {"forget", "settle"} /\ ~run[t].good => worker[w].proc = "dead"
        /\ run[t].good => worker[w].step = "rest" /\ worker[w].task = "none"
        /\ run[t].pc = "again" => worker[w].step = "rest" \/ worker[w].proc = "dead"

OneHolder == \A t, u \in Threads : run[t].w # "none" /\ run[t].w = run[u].w => t = u

(* What a process is doing it does for the run that holds it, and a        *)
(* process that is there has its place in the pool.                        *)
WorkerState(w) ==
    /\ worker[w].proc \in Living =>
        /\ worker[w].pooled
        /\ worker[w].step # "rest" =>
            /\ worker[w].task \in Threads
            /\ run[worker[w].task].w = w
            /\ run[worker[w].task].pc \in {"work", "wait"}
        /\ worker[w].step \in {"gpu", "failed"} => worker[w].task \in lease
    /\ worker[w].pooled =>
        /\ down # "closed"
        /\ ~worker[w].busy => worker[w].step = "rest" /\ worker[w].task = "none"

Ownership ==
    /\ OneHolder
    /\ \A t \in Threads : HolderState(t)
    /\ \A w \in Workers : WorkerState(w)

PoolBounded == IsFiniteSet(Pool) /\ Cardinality(Pool) <= Capacity

(* An idle worker of the pool is held by no run.                           *)
LEMMA IdleIsFree ==
    ASSUME Ownership, NEW x \in Workers, worker[x].pooled, ~worker[x].busy, NEW t \in Threads
    PROVE  run[t].w # x
<1>1. x # "none"
  BY PoolAssumption
<1>2. HolderState(t) /\ WorkerState(x)
  BY DEF Ownership
<1>3. QED
  BY <1>1, <1>2 DEF HolderState, WorkerState

(* A run that disturbs no worker but its own disturbs no other run.        *)
LEMMA OthersStay ==
    ASSUME TypeOK, Ownership, NEW t \in Threads,
           \A u \in Threads \ {t} :
                run'[u] = run[u] /\ tree'[u] = tree[u] /\ (u \in lease' <=> u \in lease),
           \A x \in Workers \ {run[t].w} : worker'[x] = worker[x],
           down' = down,
           run'[t].w \in {run[t].w, "none"},
           HolderState(t)',
           \A x \in Workers : x = run[t].w => WorkerState(x)'
    PROVE  Ownership'
<1>1. \A u \in Threads : run[u].w \in Workers \cup {"none"}
  BY DEF TypeOK, RunRecord
<1>2. OneHolder'
  BY DEF Ownership, OneHolder
<1>3. ASSUME NEW u \in Threads
      PROVE  HolderState(u)'
  <2>1. CASE u = t
    BY <2>1
  <2>2. CASE u # t
    <3>1. HolderState(u)
      BY DEF Ownership
    <3>2. run[u].w = "none" \/ worker'[run[u].w] = worker[run[u].w]
      BY <1>1, <2>2 DEF Ownership, OneHolder
    <3>3. run'[u] = run[u] /\ tree'[u] = tree[u]
      BY <2>2
    <3>4. QED
      BY <3>1, <3>2, <3>3 DEF HolderState
  <2>3. QED
    BY <2>1, <2>2
<1>4. ASSUME NEW x \in Workers
      PROVE  WorkerState(x)'
  <2>1. CASE x = run[t].w
    BY <2>1
  <2>2. CASE x # run[t].w
    <3>1. WorkerState(x) /\ worker'[x] = worker[x]
      BY <2>2 DEF Ownership
    <3>2. worker[x].proc \in Living /\ worker[x].step # "rest" => worker[x].task \in Threads \ {t}
      BY <2>2, <3>1 DEF WorkerState
    <3>3. QED
      BY <3>1, <3>2 DEF WorkerState
  <2>3. QED
    BY <2>1, <2>2
<1>5. QED
  BY <1>2, <1>3, <1>4 DEF Ownership

(* Processes that are signalled or end disturb nobody.                     *)
LEMMA ProcessesEnd ==
    ASSUME TypeOK, Ownership, UNCHANGED <<run, tree, lease>>,
           down' = "closed" <=> down = "closed",
           \A x \in Workers :
                /\ worker'[x].pooled = worker[x].pooled
                /\ worker'[x].busy = worker[x].busy
                /\ worker'[x].task = worker[x].task
                /\ worker'[x].step = worker[x].step
                /\ \/ worker'[x].proc = worker[x].proc
                   \/ worker[x].proc = "alive" /\ worker'[x].proc = "dying"
                   \/ worker[x].proc \in Living /\ worker'[x].proc = "dead"
    PROVE  Ownership'
<1>1. \A u \in Threads : run[u].w \in Workers \cup {"none"}
  BY DEF TypeOK, RunRecord
<1>2. OneHolder'
  BY DEF Ownership, OneHolder
<1>3. ASSUME NEW u \in Threads
      PROVE  HolderState(u)'
  <2>1. HolderState(u)
    BY DEF Ownership
  <2>2. QED
    BY <1>1, <2>1 DEF HolderState, Living
<1>4. ASSUME NEW x \in Workers
      PROVE  WorkerState(x)'
  <2>1. WorkerState(x)
    BY DEF Ownership
  <2>2. QED
    BY <2>1 DEF WorkerState, Living
<1>5. QED
  BY <1>2, <1>3, <1>4 DEF Ownership

(* Idle workers that are closed were nobody's.                             *)
LEMMA ReapingIsSafe ==
    ASSUME TypeOK, Ownership, NEW gone \in SUBSET {x \in Pool : ~worker[x].busy},
           worker' = Closed(gone), UNCHANGED <<run, tree, lease, down>>
    PROVE  Ownership'
<1>1. \A u \in Threads : run[u].w \in Workers \cup {"none"}
  BY DEF TypeOK, RunRecord
<1>2. OneHolder'
  BY DEF Ownership, OneHolder
<1>3. \A x \in Workers : worker'[x] = IF x \in gone THEN Gone ELSE worker[x]
  BY DEF Closed
<1>4. ASSUME NEW u \in Threads
      PROVE  HolderState(u)'
  <2>1. HolderState(u)
    BY DEF Ownership
  <2>2. run[u].w \notin gone
    BY IdleIsFree DEF Pool
  <2>3. QED
    BY <1>1, <1>3, <2>1, <2>2 DEF HolderState
<1>5. ASSUME NEW x \in Workers
      PROVE  WorkerState(x)'
  <2>1. WorkerState(x)
    BY DEF Ownership
  <2>2. Gone.proc = "dead" /\ ~Gone.pooled
    BY DEF Gone
  <2>3. QED
    BY <1>3, <2>1, <2>2 DEF WorkerState, Living
<1>6. QED
  BY <1>2, <1>4, <1>5 DEF Ownership

LEMMA TakingIsSafe ==
    ASSUME TypeOK, Ownership, NEW t \in Threads, run[t].pc = "acquire", down # "closed",
           NEW gone, NEW w, NEW rec, Taking(t, gone, w, rec),
           UNCHANGED <<tree, lease, down>>
    PROVE  Ownership'
<1>1. \A u \in Threads : run[u].w \in Workers \cup {"none"}
  BY DEF TypeOK, RunRecord
<1>2. \A x \in gone : x \in Workers /\ worker[x].pooled /\ ~worker[x].busy
  BY DEF Taking, Pool
<1>3. w \in Workers /\ w # "none"
  BY PoolAssumption DEF Taking
<1>4. /\ rec.pooled /\ rec.busy
      /\ rec.step = "rest" /\ rec.task = "none"
  <2>1. CASE w \in Pool \ gone /\ ~worker[w].busy /\ rec = [worker[w] EXCEPT !.busy = TRUE]
    <3>1. worker[w].step = "rest" /\ worker[w].task = "none" /\ worker[w] \in WorkerRecord
      BY <1>3, <2>1 DEF Ownership, WorkerState, Pool, TypeOK
    <3>2. QED
      BY <2>1, <3>1 DEF WorkerRecord, Taking
  <2>2. QED
    BY <2>1 DEF Taking
<1>5. \A u \in Threads : run[u].w \notin gone /\ run[u].w # w
  <2>1. \A u \in Threads : run[u].w \notin gone
    BY <1>2, IdleIsFree
  <2>2. \A u \in Threads : run[u].w # w
    BY <1>3, <2>1, IdleIsFree DEF Taking, Pool, Unused
  <2>3. QED
    BY <2>1, <2>2
<1>6. /\ \A x \in Workers : worker'[x] = IF x = w THEN rec ELSE IF x \in gone THEN Gone ELSE worker[x]
      /\ \A u \in Threads \ {t} : run'[u] = run[u]
      /\ run'[t].w = w /\ run'[t].pc = "start" /\ run'[t].good = FALSE
  BY <1>3 DEF Taking, Closed, Hold, Idle, TypeOK
<1>7. OneHolder'
  BY <1>5, <1>6 DEF Ownership, OneHolder
<1>8. ASSUME NEW u \in Threads
      PROVE  HolderState(u)'
  <2>1. HolderState(u)
    BY DEF Ownership
  <2>2. CASE u # t
    BY <1>1, <1>5, <1>6, <2>1, <2>2 DEF HolderState
  <2>3. CASE u = t
    BY <1>3, <1>4, <1>6, <2>1, <2>3 DEF HolderState
  <2>4. QED
    BY <2>2, <2>3
<1>9. ASSUME NEW x \in Workers
      PROVE  WorkerState(x)'
  <2>1. WorkerState(x)
    BY DEF Ownership
  <2>2. CASE x = w
    BY <1>4, <1>6, <2>2 DEF WorkerState
  <2>3. CASE x # w /\ x \in gone
    BY <1>6, <2>3 DEF WorkerState, Gone, Living
  <2>4. CASE x # w /\ x \notin gone
    <3>1. worker'[x] = worker[x]
      BY <1>6, <2>4
    <3>2. worker[x].proc \in Living /\ worker[x].step # "rest" => worker[x].task \in Threads \ {t}
      BY <2>1 DEF WorkerState
    <3>3. QED
      BY <1>6, <2>1, <3>1, <3>2 DEF WorkerState
  <2>5. QED
    BY <2>2, <2>3, <2>4
<1>10. QED
  BY <1>7, <1>8, <1>9 DEF Ownership

LEMMA OwnershipStep == TypeOK /\ Ownership /\ [Next]_vars => Ownership'
<1> SUFFICES ASSUME TypeOK, Ownership, [Next]_vars
             PROVE  Ownership'
  OBVIOUS
<1>r. /\ \A t \in Threads : run[t] \in RunRecord /\ run[t].w \in Workers \cup {"none"}
      /\ \A w \in Workers : worker[w] \in WorkerRecord
      /\ run \in [Threads -> RunRecord] /\ worker \in [Workers -> WorkerRecord]
      /\ tree \in [Threads -> Workers \cup {"none"}]
  BY DEF TypeOK, RunRecord
<1>h. \A t \in Threads : HolderState(t)
  BY DEF Ownership
<1>w. \A x \in Workers : WorkerState(x)
  BY DEF Ownership
<1>s. ASSUME NEW ws
      PROVE  \A w \in Workers :
                /\ Signalled(ws)[w].pooled = worker[w].pooled
                /\ Signalled(ws)[w].busy = worker[w].busy
                /\ Signalled(ws)[w].task = worker[w].task
                /\ Signalled(ws)[w].step = worker[w].step
                /\ Signalled(ws)[w].proc =
                    IF w \in ws /\ worker[w].proc = "alive" THEN "dying" ELSE worker[w].proc
                /\ w \notin ws => Signalled(ws)[w] = worker[w]
  BY SignalledIs
<1>g. ASSUME NEW t \in Threads, NEW pc, Go(t, pc)
      PROVE  /\ run'[t].pc = pc /\ run'[t].w = run[t].w /\ (run'[t].good <=> run[t].good)
             /\ \A u \in Threads \ {t} : run'[u] = run[u]
  BY <1>g, <1>r DEF Go, RunRecord
<1>1. ASSUME NEW t \in Threads, Enter(t)
      PROVE  Ownership'
  <2>1. /\ run'[t].pc = "acquire" /\ run'[t].w = "none" /\ run'[t].good = FALSE
        /\ \A u \in Threads \ {t} : run'[u] = run[u]
    BY <1>1, <1>r DEF Enter, Idle
  <2>2. HolderState(t)'
    BY <1>1, <1>h, <2>1 DEF Enter, HolderState
  <2>3. \A x \in Workers : x # run[t].w
    BY <1>1, <1>h, PoolAssumption DEF Enter, HolderState
  <2>4. QED
    BY <1>1, <2>1, <2>2, <2>3, OthersStay DEF Enter
<1>2. ASSUME NEW t \in Threads, Acquire(t)
      PROVE  Ownership'
  <2>1. CASE down # "closed"
    <3>1. PICK gone \in SUBSET Pool, w \in Workers, rec \in WorkerRecord : Taking(t, gone, w, rec)
      BY <1>2, <2>1, AcquireTakes
    <3>2. run[t].pc = "acquire" /\ UNCHANGED <<tree, lease, down>>
      BY <1>2 DEF Acquire
    <3>3. QED
      BY <2>1, <3>1, <3>2, TakingIsSafe
  <2>2. CASE down = "closed"
    <3>1. Go(t, "forget") /\ UNCHANGED <<worker, tree, lease, down>> /\ run[t].pc = "acquire"
      BY <1>2, <2>2 DEF Acquire
    <3>2. run[t].w = "none" /\ ~run[t].good /\ tree[t] = "none"
      BY <1>h, <3>1 DEF HolderState
    <3>3. HolderState(t)'
      BY <1>g, <3>1, <3>2 DEF HolderState
    <3>4. \A x \in Workers : x # run[t].w
      BY <3>2, PoolAssumption
    <3>5. QED
      BY <1>g, <3>1, <3>3, <3>4, OthersStay
  <2>3. QED
    BY <2>1, <2>2
(* A run that fails has signalled its worker. *)
<1>f. ASSUME NEW t \in Threads, Fail(t), UNCHANGED <<lease, down>>, run[t].pc \in {"start", "work"},
             \A u \in Threads \ {t} : tree'[u] = tree[u],
             tree'[t] \in {"none", run[t].w}
      PROVE  Ownership'
  <2>1. run[t].w \in Workers /\ run[t].w # "none"
    BY <1>f, <1>r, PoolAssumption DEF TypeOK
  <2>2. Go(t, "wait") /\ worker' = Signalled({run[t].w})
    BY <1>f DEF Fail
  <2>3. HolderState(t)'
    BY <1>f, <1>g, <1>h, <1>s, <2>1, <2>2 DEF HolderState
  <2>4. ASSUME NEW x \in Workers, x = run[t].w
        PROVE  WorkerState(x)'
    <3>1. WorkerState(x) /\ HolderState(t)
      BY <1>h, <1>w
    <3>2. /\ worker'[x].proc \in Living => worker[x].proc \in Living
          /\ worker'[x].step = worker[x].step /\ worker'[x].task = worker[x].task
          /\ worker'[x].pooled <=> worker[x].pooled
          /\ worker'[x].busy <=> worker[x].busy
      BY <1>s, <2>2 DEF Living
    <3>3. worker[x].step # "rest" => worker[x].task = t
      BY <1>f, <2>1, <2>4, <3>1 DEF HolderState
    <3>4. run'[t].w = x /\ run'[t].pc = "wait"
      BY <1>g, <2>2, <2>4
    <3>5. QED
      BY <1>f, <3>1, <3>2, <3>3, <3>4 DEF WorkerState
  <2>5. \A x \in Workers \ {run[t].w} : worker'[x] = worker[x]
    BY <1>s, <2>2
  <2>6. QED
    BY <1>f, <1>g, <2>2, <2>3, <2>4, <2>5, OthersStay
<1>3. ASSUME NEW t \in Threads, Start(t)
      PROVE  Ownership'
  <2>1. run[t].w \in Workers /\ run[t].w # "none"
    BY <1>3, <1>r, PoolAssumption DEF TypeOK, Start
  <2>2. tree'[t] = run[t].w /\ \A u \in Threads \ {t} : tree'[u] = tree[u]
    BY <1>3, <1>r DEF Start
  <2>3. CASE worker[run[t].w].proc = "dead"
    BY <1>3, <1>f, <2>2, <2>3 DEF Start
  <2>4. CASE worker[run[t].w].proc # "dead"
    <3>1. /\ Go(t, "work") /\ UNCHANGED <<lease, down>> /\ run[t].pc = "start"
          /\ worker' = [worker EXCEPT ![run[t].w] = [@ EXCEPT !.task = t, !.step = "compute"]]
      BY <1>3, <2>4 DEF Start
    <3>2. PICK w \in Workers : w = run[t].w
      BY <2>1
    <3>3. /\ worker'[w].task = t /\ worker'[w].step = "compute"
          /\ worker'[w].proc = worker[w].proc
          /\ (worker'[w].pooled <=> worker[w].pooled) /\ (worker'[w].busy <=> worker[w].busy)
          /\ \A x \in Workers \ {w} : worker'[x] = worker[x]
      BY <1>r, <3>1, <3>2 DEF WorkerRecord
    <3>4. HolderState(t)'
      BY <1>g, <1>h, <2>1, <2>2, <3>1, <3>2, <3>3 DEF HolderState
    <3>5. WorkerState(w)'
      BY <1>g, <1>h, <1>w, <2>1, <3>1, <3>2, <3>3 DEF HolderState, WorkerState
    <3>6. QED
      BY <1>g, <2>2, <3>1, <3>2, <3>3, <3>4, <3>5, OthersStay
  <2>5. QED
    BY <2>3, <2>4
<1>5. ASSUME NEW t \in Threads, Hangup(t) \/ (Overdue(t) /\ run[t].pc = "work")
      PROVE  Ownership'
  <2>1. Fail(t) /\ UNCHANGED <<lease, down, tree>> /\ run[t].pc = "work"
    BY <1>5 DEF Hangup, Overdue
  <2>2. tree[t] \in {"none", run[t].w}
    BY <1>h DEF HolderState
  <2>3. QED
    BY <1>f, <2>1, <2>2
<1>6. ASSUME NEW t \in Threads, Overdue(t), run[t].pc # "work"
      PROVE  Ownership'
  <2>1. Go(t, "forget") /\ UNCHANGED <<worker, tree, lease, down>> /\ run[t].pc = "acquire"
    BY <1>6 DEF Overdue
  <2>2. run[t].w = "none" /\ ~run[t].good /\ tree[t] = "none"
    BY <1>h, <2>1 DEF HolderState
  <2>3. HolderState(t)'
    BY <1>g, <2>1, <2>2 DEF HolderState
  <2>4. \A x \in Workers : x # run[t].w
    BY <2>2, PoolAssumption
  <2>5. QED
    BY <1>g, <2>1, <2>3, <2>4, OthersStay
<1>7. ASSUME NEW t \in Threads, Wait(t)
      PROVE  Ownership'
  <2>1. PICK w \in Workers : w = run[t].w /\ w # "none"
    BY <1>7, <1>r, PoolAssumption DEF TypeOK, Wait
  <2>2. worker[w].proc = "dead" /\ UNCHANGED <<worker, tree, lease, down>>
    BY <1>7, <2>1 DEF Wait
  <2>3. PICK pc \in {"forget", "settle"} :
          Go(t, pc) /\ run[t].pc = (IF pc = "forget" THEN "wait" ELSE "again")
    BY <1>7 DEF Wait
  <2>4. HolderState(t)'
    BY <1>g, <1>h, <2>1, <2>2, <2>3 DEF HolderState
  <2>5. WorkerState(w)'
    BY <1>w, <2>2 DEF WorkerState, Living
  <2>6. QED
    BY <1>g, <2>1, <2>2, <2>3, <2>4, <2>5, OthersStay
(* What a run settles, forgets and is answered, and what a process does.   *)
<1>8. ASSUME NEW t \in Threads, Forget(t)
      PROVE  Ownership'
  <2>1. /\ tree'[t] = "none" /\ \A u \in Threads \ {t} : tree'[u] = tree[u]
        /\ run[t].pc = "forget" /\ down' = down
    BY <1>8, <1>r DEF Forget
  <2>2. CASE Go(t, "settle") /\ lease' = lease \ {t} /\ UNCHANGED <<worker, faults>>
    <3>1. HolderState(t)'
      BY <1>g, <1>h, <2>1, <2>2 DEF HolderState
    <3>2. ASSUME NEW x \in Workers, x = run[t].w
          PROVE  WorkerState(x)'
      <4>1. HolderState(t) /\ WorkerState(x) /\ worker'[x] = worker[x] /\ x # "none"
        BY <1>h, <1>w, <2>2, PoolAssumption
      <4>2. worker[x].step = "rest" \/ worker[x].proc = "dead"
        BY <2>1, <3>2, <4>1 DEF HolderState
      <4>3. QED
        BY <2>1, <4>1, <4>2 DEF WorkerState, Living
    <3>3. QED
      BY <1>g, <2>1, <2>2, <3>1, <3>2, OthersStay
  <2>3. CASE /\ UNCHANGED lease /\ worker' = Signalled({run[t].w})
             /\ run' = [run EXCEPT ![t] = [@ EXCEPT !.good = FALSE,
                          !.pc = IF run[t].w = "none" THEN "settle" ELSE "again"]]
    <3>1. /\ run'[t].w = run[t].w /\ run'[t].good = FALSE
          /\ run'[t].pc = (IF run[t].w = "none" THEN "settle" ELSE "again")
          /\ \A u \in Threads \ {t} : run'[u] = run[u]
      BY <1>r, <2>3 DEF RunRecord
    <3>2. ASSUME NEW x \in Workers, x = run[t].w
          PROVE  /\ worker'[x].step = "rest" \/ worker'[x].proc = "dead"
                 /\ worker'[x].proc # "alive"
                 /\ worker'[x].proc \in Living => worker[x].proc \in Living
                 /\ worker'[x].step = worker[x].step /\ worker'[x].task = worker[x].task
                 /\ worker'[x].pooled <=> worker[x].pooled
                 /\ worker'[x].busy <=> worker[x].busy
      <4>1. HolderState(t) /\ x # "none"
        BY <1>h, PoolAssumption
      <4>2. worker[x].step = "rest" \/ worker[x].proc = "dead"
        BY <2>1, <3>2, <4>1 DEF HolderState
      <4>3. QED
        <5>1. /\ worker'[x].step = worker[x].step /\ worker'[x].task = worker[x].task
              /\ worker'[x].pooled <=> worker[x].pooled
              /\ worker'[x].busy <=> worker[x].busy
              /\ worker'[x].proc = IF worker[x].proc = "alive" THEN "dying" ELSE worker[x].proc
          BY <1>s, <2>3, <3>2
        <5>2. QED
          BY <4>2, <5>1 DEF Living
    <3>3. HolderState(t)'
      BY <1>h, <1>r, <2>1, <3>1, <3>2, PoolAssumption DEF HolderState
    <3>4. ASSUME NEW x \in Workers, x = run[t].w
          PROVE  WorkerState(x)'
      <4>1. WorkerState(x)
        BY <1>w
      <4>2. worker'[x].proc \in Living => worker'[x].step = "rest"
        BY <3>2, <3>4 DEF Living
      <4>3. QED
        BY <2>1, <3>2, <3>4, <4>1, <4>2 DEF WorkerState
    <3>5. \A x \in Workers \ {run[t].w} : worker'[x] = worker[x]
      BY <1>s, <2>3
    <3>6. QED
      BY <2>1, <2>3, <3>1, <3>3, <3>4, <3>5, OthersStay
  <2>4. QED
    BY <1>8, <2>2, <2>3 DEF Forget
<1>9. ASSUME NEW t \in Threads, Settle(t)
      PROVE  Ownership'
  <2>1. /\ run'[t].w = "none" /\ run'[t].pc = "idle" /\ run'[t].good = FALSE
        /\ \A u \in Threads \ {t} : run'[u] = run[u]
        /\ run[t].pc = "settle" /\ lease' = lease \ {t} /\ UNCHANGED <<tree, down>>
    BY <1>9, <1>r DEF Settle, Idle
  <2>2. HolderState(t)'
    BY <1>h, <2>1 DEF HolderState
  <2>3. \A x \in Workers \ {run[t].w} : worker'[x] = worker[x]
    BY <1>9, <1>r DEF Settle
  <2>4. ASSUME NEW x \in Workers, x = run[t].w
        PROVE  WorkerState(x)'
    <3>1. HolderState(t) /\ WorkerState(x) /\ x # "none"
      BY <1>h, <1>w, PoolAssumption
    <3>2. CASE run[t].good /\ down # "closed"
      <4>1. worker' = [worker EXCEPT ![x].busy = FALSE]
        BY <1>9, <2>4, <3>1, <3>2 DEF Settle
      <4>2. /\ worker'[x].proc = worker[x].proc /\ (worker'[x].pooled <=> worker[x].pooled)
            /\ worker'[x].step = worker[x].step /\ worker'[x].task = worker[x].task
        BY <1>r, <4>1 DEF WorkerRecord
      <4>3. worker[x].step = "rest" /\ worker[x].task = "none"
        BY <2>1, <2>4, <3>1, <3>2 DEF HolderState
      <4>4. QED
        BY <2>1, <3>1, <4>2, <4>3 DEF WorkerState
    <3>3. CASE ~(run[t].good /\ down # "closed")
      <4>1. worker' = [worker EXCEPT ![x] = [Gone EXCEPT !.proc = worker[x].proc]]
        BY <1>9, <2>4, <3>1, <3>3 DEF Settle
      <4>2. worker[x].proc \notin Living
        <5>1. CASE run[t].good
          BY <3>1, <3>3, <5>1 DEF WorkerState
        <5>2. CASE ~run[t].good
          BY <2>1, <2>4, <3>1, <5>2 DEF HolderState, Living
        <5>3. QED
          BY <5>1, <5>2
      <4>3. worker'[x].proc = worker[x].proc /\ ~worker'[x].pooled
        BY <1>r, <4>1 DEF Gone
      <4>4. QED
        BY <4>2, <4>3 DEF WorkerState
    <3>4. QED
      BY <3>2, <3>3
  <2>5. QED
    BY <2>1, <2>2, <2>3, <2>4, OthersStay
<1>p. ASSUME NEW t \in Threads, NEW w \in Workers, NEW s,
             w = run[t].w, run[t].pc = "work", s # "rest",
             worker' = [worker EXCEPT ![w].step = s], UNCHANGED <<run, tree, down>>,
             \A u \in Threads \ {t} : u \in lease' <=> u \in lease,
             s \in {"gpu", "failed"} /\ worker[w].proc \in Living => t \in lease'
      PROVE  Ownership'
  <2>1. /\ worker'[w].proc = worker[w].proc /\ (worker'[w].pooled <=> worker[w].pooled)
        /\ (worker'[w].busy <=> worker[w].busy) /\ worker'[w].task = worker[w].task
        /\ worker'[w].step = s
        /\ \A x \in Workers \ {w} : worker'[x] = worker[x]
    BY <1>p, <1>r DEF WorkerRecord
  <2>2. w # "none" /\ HolderState(t) /\ WorkerState(w)
    BY <1>h, <1>w, PoolAssumption
  <2>3. HolderState(t)'
    BY <1>p, <2>1, <2>2 DEF HolderState
  <2>4. worker[w].task = t
    BY <1>p, <2>2 DEF HolderState
  <2>5. WorkerState(w)'
    <3>1. run'[t].w = w /\ run'[t].pc = "work" /\ down' = down
      BY <1>p
    <3>2. s \in {"gpu", "failed"} /\ worker'[w].proc \in Living => t \in lease'
      BY <1>p, <2>1
    <3>3. worker'[w].pooled /\ ~worker'[w].busy => FALSE
      BY <1>p, <2>1, <2>2 DEF HolderState, WorkerState
    <3>4. QED
      BY <2>1, <2>2, <2>4, <3>1, <3>2, <3>3 DEF WorkerState
  <2>6. QED
    BY <1>p, <2>1, <2>3, <2>5, OthersStay
<1>4. ASSUME NEW t \in Threads, Answer(t)
      PROVE  Ownership'
  <2>1. PICK w \in Workers : w = run[t].w /\ w # "none"
    BY <1>4, <1>r, PoolAssumption DEF TypeOK, Answer
  <2>2. run[t].pc = "work" /\ UNCHANGED <<tree, down>>
    BY <1>4 DEF Answer
  <2>3. HolderState(t) /\ WorkerState(w)
    BY <1>h, <1>w
  <2>4. CASE Fail(t) /\ UNCHANGED lease
    BY <1>f, <2>2, <2>3, <2>4 DEF HolderState
  <2>5. CASE /\ worker[w].step = "ask" /\ worker' = [worker EXCEPT ![w].step = "gpu"]
             /\ UNCHANGED run /\ lease' = lease \cup {t}
    BY <1>p, <2>1, <2>2, <2>5
  <2>6. CASE /\ worker' = [worker EXCEPT ![w].step = "compute"]
             /\ UNCHANGED run /\ lease' \in {lease, lease \ {t}}
    BY <1>p, <2>1, <2>2, <2>6
  <2>7. CASE /\ worker' = [worker EXCEPT ![w].step = "broken"]
             /\ UNCHANGED run /\ UNCHANGED lease
    BY <1>p, <2>1, <2>2, <2>7
  <2>8. CASE /\ run' = [run EXCEPT ![t] = [@ EXCEPT !.good = TRUE, !.pc = "forget"]]
             /\ worker' = [worker EXCEPT ![w] = [@ EXCEPT !.task = "none", !.step = "rest"]]
             /\ UNCHANGED lease
    <3>1. /\ worker'[w].proc = worker[w].proc /\ (worker'[w].pooled <=> worker[w].pooled)
          /\ (worker'[w].busy <=> worker[w].busy) /\ worker'[w].task = "none"
          /\ worker'[w].step = "rest"
          /\ \A x \in Workers \ {w} : worker'[x] = worker[x]
      BY <1>r, <2>8 DEF WorkerRecord
    <3>2. /\ run'[t].w = w /\ run'[t].good = TRUE /\ run'[t].pc = "forget"
          /\ \A u \in Threads \ {t} : run'[u] = run[u]
      BY <1>r, <2>1, <2>8 DEF RunRecord
    <3>3. HolderState(t)'
      BY <2>1, <2>2, <2>3, <3>1, <3>2 DEF HolderState
    <3>4. WorkerState(w)'
      BY <2>2, <2>3, <3>1 DEF WorkerState
    <3>5. QED
      BY <2>1, <2>2, <2>8, <3>1, <3>2, <3>3, <3>4, OthersStay
  <2>9. QED
    BY <1>4, <2>1, <2>4, <2>5, <2>6, <2>7, <2>8 DEF Answer
<1>10. ASSUME NEW w \in Workers, Process(w) \/ Raise(w)
       PROVE  Ownership'
  <2>1. PICK s \in {"ask", "done", "release", "broken", "failed"} :
          /\ worker' = [worker EXCEPT ![w].step = s] /\ UNCHANGED <<run, tree, lease, down>>
          /\ worker[w].proc = "alive" /\ worker[w].step \in {"compute", "gpu"}
          /\ s = "failed" => worker[w].step = "gpu"
    BY <1>10 DEF Process, Raise
  <2>2. PICK t \in Threads : t = worker[w].task /\ run[t].w = w /\ run[t].pc \in {"work", "wait"}
    BY <1>w, <2>1 DEF WorkerState, Living
  <2>3. run[t].pc = "work" /\ (s = "failed" => t \in lease)
    <3>1. w # "none" /\ HolderState(t) /\ WorkerState(w)
      BY <1>h, <1>w, PoolAssumption
    <3>2. run[t].pc # "wait"
      BY <2>1, <2>2, <3>1 DEF HolderState
    <3>3. QED
      BY <2>1, <2>2, <3>1, <3>2 DEF WorkerState, Living
  <2>4. QED
    BY <1>p, <2>1, <2>2, <2>3
<1>11. CASE PoolClosed
  <2>1. /\ \A w \in Pool : worker[w].proc = "dead"
        /\ down' = "closed" /\ UNCHANGED <<run, tree, lease>>
        /\ worker' = [w \in Workers |-> [worker[w] EXCEPT !.pooled = FALSE]]
    BY <1>11 DEF PoolClosed
  <2>2. \A x \in Workers :
          /\ ~worker'[x].pooled /\ worker'[x].proc = "dead" /\ worker[x].proc = "dead"
          /\ worker'[x].step = worker[x].step /\ worker'[x].task = worker[x].task
    <3> TAKE x \in Workers
    <3>1. worker[x].proc = "dead"
      BY <1>r, <1>w, <2>1 DEF WorkerState, Pool, WorkerRecord
    <3>2. QED
      BY <1>r, <2>1, <3>1 DEF WorkerRecord
  <2>3. \A x \in Workers : WorkerState(x)'
    BY <2>2 DEF WorkerState, Living
  <2>4. \A t \in Threads : HolderState(t)'
    BY <1>h, <1>r, <2>1, <2>2 DEF HolderState
  <2>5. OneHolder'
    BY <2>1 DEF Ownership, OneHolder
  <2>6. QED
    BY <2>3, <2>4, <2>5 DEF Ownership
<1>12. CASE ReapIdle
  <2>1. PICK old \in SUBSET Pool : worker' = Closed(Reaped(old))
    BY <1>12 DEF ReapIdle
  <2>2. Reaped(old) \subseteq {x \in Pool : ~worker[x].busy} /\ UNCHANGED <<run, tree, lease, down>>
    BY <1>12 DEF Reaped, ReapIdle
  <2>3. QED
    BY <2>1, <2>2, ReapingIsSafe
<1>13. ASSUME NEW w \in Workers, Dies(w) \/ Vanish(w)
       PROVE  Ownership'
  <2>1. /\ worker[w].proc \in Living /\ UNCHANGED <<run, tree, lease>> /\ down' = down
        /\ worker' = [worker EXCEPT ![w].proc = "dead"]
    BY <1>13 DEF Dies, Vanish, Living
  <2>2. ASSUME NEW x \in Workers
        PROVE  /\ worker'[x].pooled = worker[x].pooled
               /\ worker'[x].busy = worker[x].busy
               /\ worker'[x].task = worker[x].task
               /\ worker'[x].step = worker[x].step
               /\ \/ worker'[x].proc = worker[x].proc
                  \/ worker[x].proc \in Living /\ worker'[x].proc = "dead"
    BY <1>r, <2>1 DEF WorkerRecord
  <2>3. QED
    BY <2>1, <2>2, ProcessesEnd
<1>14. ASSUME (\E t \in Threads : Cancel(t)) \/ Stop \/ ClosePool
       PROVE  Ownership'
  <2>1. PICK ws : worker' = Signalled(ws)
    BY <1>14 DEF Cancel, Stop, ClosePool
  <2>2. UNCHANGED <<run, tree, lease>> /\ (down' = "closed" <=> down = "closed")
    BY <1>14 DEF Cancel, Stop, ClosePool
  <2>3. QED
    BY <1>s, <2>1, <2>2, ProcessesEnd
<1>15. CASE UNCHANGED vars
  BY <1>15 DEF vars, Ownership, OneHolder, HolderState, WorkerState
<1>20. QED
  BY <1>1, <1>2, <1>3, <1>4, <1>5, <1>6, <1>7, <1>8, <1>9, <1>10, <1>11, <1>12,
     <1>13, <1>14, <1>15 DEF Next, Thread

(***************************************************************************)
(* Every worker is held by one run at most, works for nobody else, and can *)
(* be killed by no other run's cancellation: TLC checks WorkIsItsOwn on    *)
(* two threads, here are any number.                                       *)
(***************************************************************************)
THEOREM OwnershipHolds == Spec => []Ownership
<1>1. Init => Ownership
  BY PoolAssumption DEF Init, Ownership, OneHolder, HolderState, WorkerState, Idle, Gone, Living
<1>2. TypeOK /\ Ownership /\ [Next]_vars => Ownership'
  BY OwnershipStep
<1>3. QED
  BY <1>1, <1>2, TypeCorrect, PTL DEF Spec

(* No two runs hold one worker, a worker in use works for its run, and a   *)
(* cancellation through _trees reaches the worker of its own run only.     *)
THEOREM RunsOwnTheirWorkers == Spec => []WorkIsItsOwn
<1>1. TypeOK /\ Ownership => WorkIsItsOwn
  <2> SUFFICES ASSUME TypeOK, Ownership, NEW t \in Threads, NEW u \in Threads
               PROVE  /\ run[t].w # "none" /\ run[u].w = run[t].w => t = u
                      /\ run[t].pc = "work" => worker[run[t].w].task = t
                      /\ tree[t] \in {"none", run[t].w}
    BY DEF WorkIsItsOwn
  <2>1. OneHolder /\ HolderState(t) /\ (run[t].pc = "work" => run[t].w # "none")
    BY DEF Ownership, TypeOK
  <2>2. QED
    BY <2>1 DEF OneHolder, HolderState
<1>2. QED
  BY <1>1, TypeCorrect, OwnershipHolds, PTL

(* Whatever a process may still have on the device, it has it for a task   *)
(* that holds a lease.                                                     *)
THEOREM DeviceNeedsLease == Spec => []GpuNeedsLease
<1>1. Ownership => GpuNeedsLease
  BY DEF Ownership, WorkerState, GpuNeedsLease
<1>2. QED
  BY <1>1, OwnershipHolds, PTL

(* No process outlives the shutdown of the pool: each had its place there, *)
(* and the shutdown waited for every one of them.                          *)
THEOREM NoProcessSurvives == Spec => []NoneSurvives
<1>1. TypeOK /\ Ownership => NoneSurvives
  <2> SUFFICES ASSUME TypeOK, Ownership, down = "closed", NEW w \in Workers
               PROVE  worker[w].proc = "dead"
    BY DEF NoneSurvives
  <2>1. worker[w] \in WorkerRecord /\ WorkerState(w)
    BY DEF Ownership, TypeOK
  <2>2. QED
    BY <2>1 DEF WorkerState, WorkerRecord
<1>2. QED
  BY <1>1, TypeCorrect, OwnershipHolds, PTL

(***************************************************************************)
(* The pool never outgrows its capacity: only _acquire adds a worker, and  *)
(* at capacity it has closed another one first.                            *)
(***************************************************************************)
LEMMA SmallerPool ==
    ASSUME PoolBounded, NEW S \in SUBSET Pool
    PROVE  IsFiniteSet(S) /\ Cardinality(S) <= Capacity
<1>1. IsFiniteSet(S) /\ Cardinality(S) <= Cardinality(Pool)
  BY FS_Subset DEF PoolBounded
<1>2. Cardinality(S) \in Nat /\ Cardinality(Pool) \in Nat /\ Capacity \in Nat
  BY <1>1, FS_CardinalityType, PoolAssumption DEF PoolBounded
<1>3. QED
  BY <1>1, <1>2 DEF PoolBounded

LEMMA RoomForOne ==
    ASSUME PoolBounded, NEW gone \in SUBSET Pool, NEW w, Room(gone)
    PROVE  /\ IsFiniteSet((Pool \ gone) \cup {w})
           /\ Cardinality((Pool \ gone) \cup {w}) <= Capacity
<1> DEFINE rest == Pool \ gone
<1>1. PICK evicted \in SUBSET gone :
        IF Full(rest \cup evicted) THEN Cardinality(evicted) = 1 ELSE evicted = {}
  BY DEF Room
<1>2. /\ IsFiniteSet(rest) /\ Cardinality(rest) <= Capacity
      /\ IsFiniteSet(rest \cup evicted) /\ Cardinality(rest \cup evicted) <= Capacity
      /\ IsFiniteSet(evicted)
  BY SmallerPool
<1>3. Cardinality(rest) \in Nat /\ Cardinality(rest \cup evicted) \in Nat /\ Capacity \in Nat
  BY <1>2, FS_CardinalityType, PoolAssumption
<1>4. IsFiniteSet(rest \cup {w}) /\ Cardinality(rest \cup {w}) <= Cardinality(rest) + 1
  BY <1>2, <1>3, FS_AddElement
<1>5. Cardinality(rest) < Capacity
  <2>1. CASE ~Full(rest \cup evicted)
    <3>1. rest \cup evicted = rest
      BY <1>1, <2>1
    <3>2. QED
      BY <1>3, <2>1, <3>1 DEF Full
  <2>2. CASE Full(rest \cup evicted)
    <3>1. PICK e : evicted = {e}
      BY <1>1, <1>2, <2>2, FS_Singleton
    <3>2. e \notin rest
      BY <1>1, <3>1
    <3>3. Cardinality(rest \cup {e}) = Cardinality(rest) + 1
      BY <1>2, <3>2, FS_AddElement
    <3>4. QED
      BY <1>2, <1>3, <3>1, <3>3
  <2>3. QED
    BY <2>1, <2>2
<1>6. Cardinality(rest \cup {w}) \in Nat
  BY <1>4, FS_CardinalityType
<1>7. QED
  BY <1>3, <1>4, <1>5, <1>6

LEMMA PoolShrinks ==
    ASSUME TypeOK, [Next]_vars, down = "closed" \/ ~\E t \in Threads : Acquire(t)
    PROVE  Pool' \subseteq Pool
<1> SUFFICES ASSUME NEW x \in Workers, worker'[x].pooled
             PROVE  worker[x].pooled
  BY DEF Pool
<1>r. worker \in [Workers -> WorkerRecord]
  BY DEF TypeOK
<1>s. ASSUME NEW ws
      PROVE  Signalled(ws)[x].pooled = worker[x].pooled
  BY SignalledIs
<1>1. ASSUME NEW w \in Workers, NEW r, worker' = [worker EXCEPT ![w] = r],
             r.pooled => worker[w].pooled
      PROVE  worker[x].pooled
  BY <1>1, <1>r
<1>2. ASSUME NEW ws, worker' = Signalled(ws)
      PROVE  worker[x].pooled
  BY <1>2, <1>s
<1>3. CASE worker' = worker
  BY <1>3
<1>4. ASSUME NEW ws, worker' = Closed(ws)
      PROVE  worker[x].pooled
  BY <1>4 DEF Closed, Gone
<1>5. CASE PoolClosed
  BY <1>5, <1>r DEF PoolClosed, WorkerRecord
<1>e. ASSUME NEW w \in Workers
      PROVE  /\ \A tt, s : [worker[w] EXCEPT !.task = tt, !.step = s].pooled => worker[w].pooled
             /\ \A s : [worker[w] EXCEPT !.step = s].pooled => worker[w].pooled
             /\ [worker[w] EXCEPT !.busy = FALSE].pooled => worker[w].pooled
             /\ [worker[w] EXCEPT !.proc = "dead"].pooled => worker[w].pooled
             /\ [Gone EXCEPT !.proc = worker[w].proc].pooled => worker[w].pooled
  BY <1>r DEF WorkerRecord, Gone
<1>6. ASSUME NEW t \in Threads, Start(t) \/ Answer(t) \/ Settle(t), worker' # worker
      PROVE  worker[x].pooled
  <2>1. CASE run[t].w \in Workers
    BY <1>1, <1>2, <1>3, <1>6, <1>e, <2>1 DEF Start, Answer, Settle, Fail
  <2>2. CASE run[t].w = "none"
    BY <1>6, <2>2 DEF Start, Answer, Settle, TypeOK
  <2>3. QED
    BY <2>1, <2>2 DEF TypeOK, RunRecord
<1>7. ASSUME NEW t \in Threads, Hangup(t) \/ Overdue(t) \/ Forget(t) \/ Cancel(t) \/ Enter(t) \/ Wait(t)
      PROVE  worker[x].pooled
  BY <1>2, <1>3, <1>7 DEF Hangup, Overdue, Forget, Cancel, Enter, Wait, Fail
<1>8. CASE Stop \/ ClosePool \/ ReapIdle \/ UNCHANGED vars
  BY <1>2, <1>3, <1>4, <1>8 DEF Stop, ClosePool, ReapIdle, vars
<1>9. ASSUME NEW w \in Workers, Process(w) \/ Raise(w) \/ Dies(w) \/ Vanish(w)
      PROVE  worker[x].pooled
  BY <1>1, <1>9, <1>e DEF Process, Raise, Dies, Vanish
<1>10. ASSUME NEW t \in Threads, Acquire(t), down = "closed"
       PROVE  worker[x].pooled
  BY <1>3, <1>10 DEF Acquire
<1>11. QED
  BY <1>3, <1>5, <1>6, <1>7, <1>8, <1>9, <1>10 DEF Next, Thread

LEMMA PoolStep == TypeOK /\ PoolBounded /\ [Next]_vars => PoolBounded'
<1> SUFFICES ASSUME TypeOK, PoolBounded, [Next]_vars
             PROVE  PoolBounded'
  OBVIOUS
<1>1. CASE Pool' \subseteq Pool
  BY <1>1, SmallerPool DEF PoolBounded
<1>2. ASSUME NEW t \in Threads, Acquire(t), down # "closed"
      PROVE  PoolBounded'
  <2>1. PICK gone \in SUBSET Pool, w \in Workers, rec \in WorkerRecord : Taking(t, gone, w, rec)
    BY <1>2, AcquireTakes
  <2>2. worker' = [Closed(gone) EXCEPT ![w] = rec]
    BY <2>1 DEF Taking
  <2>3. Pool' \subseteq (Pool \ gone) \cup {w}
    BY <2>2 DEF Pool, Closed, Gone
  <2>4. CASE w \in Pool
    BY <1>1, <2>3, <2>4
  <2>5. CASE w \notin Pool
    <3>1. Room(gone)
      BY <2>1, <2>5 DEF Taking
    <3>2. (Pool \ gone) \cup {w} \subseteq Pool'
      BY <2>1, <2>2 DEF Pool, Closed, Taking
    <3>3. Pool' = (Pool \ gone) \cup {w}
      BY <2>3, <3>2
    <3>4. QED
      BY <3>1, <3>3, RoomForOne DEF PoolBounded
  <2>6. QED
    BY <2>4, <2>5
<1>3. QED
  BY <1>1, <1>2, PoolShrinks

(* There are never more processes than the capacity, those that were       *)
(* signalled and have not gone yet included: each has its place in the     *)
(* pool until it is dead.                                                  *)
THEOREM CapacityHolds == Spec => []ProcessesWithinCapacity
<1>1. Init => PoolBounded
  <2> SUFFICES ASSUME Init
               PROVE  PoolBounded
    OBVIOUS
  <2>1. Pool = {}
    BY DEF Init, Pool, Gone
  <2>2. QED
    BY <2>1, FS_EmptySet, PoolAssumption DEF PoolBounded
<1>2. TypeOK /\ PoolBounded /\ [Next]_vars => PoolBounded'
  BY PoolStep
<1>3. Ownership /\ PoolBounded => ProcessesWithinCapacity
  <2> SUFFICES ASSUME Ownership, PoolBounded
               PROVE  ProcessesWithinCapacity
    OBVIOUS
  <2>1. {w \in Workers : worker[w].proc \in Living} \in SUBSET Pool
    BY DEF Ownership, WorkerState, Pool
  <2>2. QED
    BY <2>1, SmallerPool DEF ProcessesWithinCapacity
<1>4. QED
  BY <1>1, <1>2, <1>3, TypeCorrect, OwnershipHolds, PTL DEF Spec
=============================================================================
