------------------------------ MODULE GpuLease ------------------------------
(***************************************************************************)
(* The database leases that share one physical GPU (media_lineage/         *)
(* resources.py), the two kinds of client that ask for one (the encoder of *)
(* media_lineage/integration.py and video_compression/transcoder.py, and   *)
(* the phases video_filter/supervisor.py asks for on behalf of a worker),  *)
(* and the processes that then run on the GPU.                             *)
(*                                                                         *)
(* A request is one owner string, hence one row.  An admission             *)
(* transaction takes two steps, BeginAdmission and EndAdmission: it holds  *)
(* the device's advisory lock and its rows throughout, but the GPU keeps   *)
(* running between its two driver queries.  Memory is in units, not MiB.   *)
(*                                                                         *)
(* Abstracted: the advisory lock and FOR UPDATE are the variable txn; the  *)
(* creation time of a row is its place in the queue; the 64 most recent    *)
(* released rows are all of them; the budget of a request does not depend  *)
(* on the size of its input.                                               *)
(***************************************************************************)
EXTENDS Integers, FiniteSets, FiniteSetsExt

CONSTANTS
    Request,      \* the owners that ask for the device
    Server,       \* server processes, each an incarnation with its own identity
    Home,         \* the server process of each request
    Workload,     \* "train" is exclusive; the others share the device
    Profile,      \* requests whose measured budgets are compatible
    Need,         \* the configured budget a request asks for
    Peak,         \* the most memory its processes ever take
    Capacity,     \* extract_concurrency
    Total,        \* memory of the device
    Reserve,      \* gpu_safety_mib
    MinBudget,    \* the 1024 MiB taken for a row without a budget
    KillOnClose,  \* Windows Job Objects: the workers die with their server
    MaxFaults     \* bound: environment faults of all kinds in a behaviour

Workloads == {"train", "extract", "predict", "compression"}

ASSUME RequestAssumption ==
    /\ IsFiniteSet(Request)
    /\ Home \in [Request -> Server]
    /\ Workload \in [Request -> Workloads]
    /\ Need \in [Request -> Nat \ {0}]
    /\ Peak \in [Request -> Nat]

ASSUME DeviceAssumption ==
    /\ Capacity \in Nat \ {0}
    /\ Total \in Nat
    /\ Reserve \in Nat \ {0}
    /\ MinBudget \in Nat \ {0}
    /\ KillOnClose \in BOOLEAN
    /\ MaxFaults \in Nat

VARIABLES
    status,    \* the row of each request
    ahead,     \* ahead[r]: the waiting rows created before the waiting row r
    budget,    \* memory_budget_mib of the row, 0 for NULL
    measured,  \* the row records an OOM or a driver peak
    reported,  \* a heartbeat has recorded the processes of the row
    stale,     \* heartbeat_at of the row is older than 300 s
    work,      \* what the client of the row is doing
    used,      \* memory its processes hold on the device
    up,        \* the server processes that are alive
    txn,       \* the open admission transaction
    sampled,   \* the free memory its driver query returned
    faults     \* environment faults so far

rowVars == <<status, ahead, budget, measured, reported, stale>>
clientVars == <<work, used>>
txnVars == <<txn, sampled>>
vars == <<rowVars, clientVars, up, txnVars, faults>>

Exclusive(r) == Workload[r] = "train"
Live == {r \in Request : status[r] # "released"}
Free == Total - MapThenSumSet(LAMBDA r : used[r], Request)

NoTxn == [by |-> {}, gone |-> {}, unknown |-> {}, answered |-> FALSE, grown |-> 0]

TypeOK ==
    /\ status \in [Request -> {"released", "waiting", "active", "conflict"}]
    /\ ahead \in [Request -> SUBSET Request]
    /\ budget \in [Request -> Nat]
    /\ measured \in [Request -> BOOLEAN]
    /\ reported \in [Request -> BOOLEAN]
    /\ stale \in [Request -> BOOLEAN]
    /\ work \in [Request -> {"idle", "waiting", "running", "stopping"}]
    /\ used \in [Request -> Nat]
    /\ up \subseteq Server
    /\ txn \in [by : SUBSET Request, gone : SUBSET Request, unknown : SUBSET Request,
                answered : BOOLEAN, grown : Nat]
    /\ faults \in 0..MaxFaults

Init ==
    /\ status = [r \in Request |-> "released"]
    /\ ahead = [r \in Request |-> {}]
    /\ budget = [r \in Request |-> 0]
    /\ measured = [r \in Request |-> FALSE]
    /\ reported = [r \in Request |-> FALSE]
    /\ stale = [r \in Request |-> FALSE]
    /\ work = [r \in Request |-> "idle"]
    /\ used = [r \in Request |-> 0]
    /\ up = Server
    /\ txn = NoTxn
    /\ sampled = 0
    /\ faults = 0

----------------------------------------------------------------------------
(***************************************************************************)
(* Admission: request_lease                                                *)
(***************************************************************************)

(* The rows whose probe proves nothing holds them: a waiting row nobody    *)
(* renewed for 300 s, or an owner that is no longer the recorded process.  *)
GoneIfUnknown(unknown) ==  \* a slip: an owner that cannot be probed is dead
    {r \in Live : \/ status[r] = "waiting" /\ stale[r]
                  \/ Home[r] \notin up
                  \/ r \in unknown}
Gone(unknown) ==
    {r \in Live : \/ status[r] = "waiting" /\ stale[r]
                  \/ Home[r] \notin up /\ r \notin unknown}

(* The locks are taken, every row is probed and, for a shared request, the *)
(* driver is asked for its free memory.                                    *)
BeginAdmission(r) ==
    /\ txn.by = {}
    /\ Home[r] \in up
    /\ work[r] \in {"idle", "waiting"}
    /\ \E unknown \in SUBSET Live, answered \in BOOLEAN :
        LET cost == Cardinality(unknown) + (IF answered THEN 0 ELSE 1)
        IN  /\ faults + cost <= MaxFaults
            /\ Exclusive(r) => answered
            /\ faults' = faults + cost
            /\ txn' = [by |-> {r}, gone |-> Gone(unknown), unknown |-> unknown,
                       answered |-> answered, grown |-> 0]
            /\ sampled' = IF Exclusive(r) \/ ~answered THEN 0 ELSE Free
    /\ UNCHANGED <<rowVars, clientVars, up>>

(* A released row of this owner becomes a new request, last in the queue.  *)
Requeued(r) == r \in txn.gone \/ status[r] = "released"

(* The rows once the probes are applied and r has its row.                 *)
SweptUnknown(r) ==  \* a slip: an owner that cannot be probed has a status of its own
    [q \in Request |->
        IF q = r /\ Requeued(r) THEN "waiting"
        ELSE IF q \in txn.gone THEN "released"
        ELSE IF q \in txn.unknown THEN "unknown"
        ELSE status[q]]
Swept(r) ==
    [q \in Request |->
        IF q = r /\ Requeued(r) THEN "waiting"
        ELSE IF q \in txn.gone THEN "released"
        ELSE IF q \in txn.unknown THEN "conflict"
        ELSE status[q]]

QueueOf(r) ==
    IF Requeued(r)
    THEN [q \in Request |-> IF q = r THEN Request \ {r} ELSE ahead[q] \ {r}]
    ELSE ahead

WaitingIn(st, queue) ==
    [q \in Request |->
        IF st[q] = "waiting" THEN {p \in queue[q] : st[p] = "waiting"} ELSE {}]

WaitingAhead(r) == {q \in QueueOf(r)[r] : Swept(r)[q] = "waiting"}
Holders(r) == {q \in Request \ {r} : Swept(r)[q] \in {"active", "conflict"}}

Limit(w) == CASE w = "extract" -> Capacity
              [] w = "predict" -> 2
              [] OTHER -> 1

(* What the queue and the holders allow, whatever the memory.              *)
AdmittedPastConflict(r) ==  \* a slip: a conflict row does not block
    IF Exclusive(r)
    THEN Holders(r) = {} /\ WaitingAhead(r) = {}
    ELSE /\ Cardinality({q \in Holders(r) : Workload[q] = Workload[r]}) < Limit(Workload[r])
         /\ \A q \in Holders(r) : Swept(r)[q] = "conflict" \/ ~Exclusive(q)
         /\ \A q \in WaitingAhead(r) : ~Exclusive(q)
AdmittedPastTrainer(r) ==  \* a slip: a waiting trainer does not hold back the others
    IF Exclusive(r)
    THEN Holders(r) = {} /\ WaitingAhead(r) = {}
    ELSE /\ Cardinality({q \in Holders(r) : Workload[q] = Workload[r]}) < Limit(Workload[r])
         /\ \A q \in Holders(r) : Swept(r)[q] # "conflict" /\ ~Exclusive(q)
Admitted(r) ==
    IF Exclusive(r)
    THEN Holders(r) = {} /\ WaitingAhead(r) = {}
    ELSE /\ Cardinality({q \in Holders(r) : Workload[q] = Workload[r]}) < Limit(Workload[r])
         /\ \A q \in Holders(r) : Swept(r)[q] # "conflict" /\ ~Exclusive(q)
         /\ \A q \in WaitingAhead(r) : ~Exclusive(q)

(* The budget of the row only grows: what is asked for, what the row had,  *)
(* and what released rows of the same profile were measured to need.       *)
Wanted(r) ==
    IF Exclusive(r) THEN {budget[r]}
    ELSE {Need[r], budget[r]} \cup
         {budget[q] : q \in {p \in Request : /\ Swept(r)[p] = "released"
                                             /\ measured[p]
                                             /\ Profile[p] = Profile[r]}}

Seen(q, visible) == IF visible /\ reported[q] THEN used[q] ELSE 0
BudgetOf(q) == IF budget[q] = 0 THEN MinBudget ELSE budget[q]

(* A holder seen above its budget has its budget raised.                   *)
Raised(q, visible) ==
    IF Seen(q, visible) > BudgetOf(q)
    THEN (Seen(q, visible) * 11) \div 10 + 1
    ELSE BudgetOf(q)

(* Memory promised to the holders that the driver does not show as used.   *)
PendingWhenReported(r, visible) ==  \* a slip: a reported process uses its whole budget
    MapThenSumSet(LAMBDA q : IF reported[q] THEN 0 ELSE Raised(q, visible), Holders(r))
Pending(r, visible) ==
    MapThenSumSet(LAMBDA q : Raised(q, visible) - Seen(q, visible), Holders(r))

(* The oldest encoder that waits ahead keeps its budget free, unless an    *)
(* encoder is running already.                                             *)
NoEarmark(r) == 0  \* a slip: no memory is kept for a waiting encoder
Earmark(r) ==
    LET encoders == {q \in WaitingAhead(r) : Workload[q] = "compression"}
    IN  IF \/ Workload[r] = "compression"
           \/ encoders = {}
           \/ \E q \in Holders(r) : Workload[q] = "compression"
        THEN 0
        ELSE BudgetOf(CHOOSE q \in encoders : QueueOf(r)[q] \cap encoders = {})

Fits(r, visible, b) ==
    txn.answered /\ sampled - Pending(r, visible) - Earmark(r) >= b + Reserve

(* The holders' memory is measured only once the queue lets r through.     *)
Measures(r) == ~Exclusive(r) /\ Swept(r)[r] = "waiting" /\ Admitted(r) /\ txn.answered

Granted(r, visible, b) ==
    /\ Swept(r)[r] = "waiting"
    /\ Admitted(r)
    /\ ~Exclusive(r) => Fits(r, visible, b)

EndAdmission(r) ==
    /\ r \in txn.by
    /\ \E visible \in BOOLEAN, b \in Wanted(r) :
        /\ \A c \in Wanted(r) : c <= b
        /\ budget' = [q \in Request |->
                        IF q = r THEN b
                        ELSE IF Measures(r) /\ q \in Holders(r) /\ Seen(q, visible) > BudgetOf(q)
                        THEN Raised(q, visible)
                        ELSE budget[q]]
        /\ measured' = [q \in Request |->
                        \/ measured[q]
                        \/ Measures(r) /\ q \in Holders(r) /\ Seen(q, visible) > 0]
        /\ status' = [Swept(r) EXCEPT ![r] = IF Granted(r, visible, b) THEN "active" ELSE @]
        /\ work' = [work EXCEPT ![r] = IF Granted(r, visible, b) THEN "running" ELSE "waiting"]
    /\ ahead' = WaitingIn(status', QueueOf(r))
    /\ stale' = [stale EXCEPT ![r] = FALSE]
    /\ txn' = NoTxn /\ sampled' = 0
    /\ UNCHANGED <<reported, used, up, faults>>

----------------------------------------------------------------------------
(***************************************************************************)
(* The clients.  heartbeat, record_oom and release update a row, so they   *)
(* wait for an open admission transaction that holds it FOR UPDATE.        *)
(***************************************************************************)

(* The parent records the processes it started under the lease.            *)
Heartbeat(r) ==
    /\ txn.by = {}
    /\ work[r] = "running" /\ Home[r] \in up
    /\ status[r] = "active"
    /\ reported' = [reported EXCEPT ![r] = TRUE]
    /\ UNCHANGED <<status, ahead, budget, measured, stale, clientVars, up, txnVars, faults>>

(* The encoder's heartbeat finds the lease lost: its process tree is       *)
(* killed before the row is released.                                      *)
LoseLease(r) ==
    /\ txn.by = {}
    /\ work[r] = "running" /\ Home[r] \in up
    /\ Workload[r] = "compression" /\ status[r] # "active"
    /\ work' = [work EXCEPT ![r] = "stopping"]
    /\ used' = [used EXCEPT ![r] = 0]
    /\ UNCHANGED <<rowVars, up, txnVars, faults>>

(* The processes of the row take more memory.                              *)
Grow(r) ==
    /\ work[r] = "running"
    /\ \E more \in 1 .. Free :
        /\ used[r] + more <= Peak[r]
        /\ used' = [used EXCEPT ![r] = @ + more]
        /\ txn' = [txn EXCEPT !.grown = IF txn.by = {} THEN 0 ELSE @ + more]
    /\ UNCHANGED <<rowVars, work, up, sampled, faults>>

(* The processes find no memory left: record_oom, then the tree ends.      *)
OutOfMemory(r) ==
    /\ txn.by = {}
    /\ work[r] = "running" /\ Home[r] \in up
    /\ Free = 0 /\ used[r] < Peak[r]
    /\ budget' = [budget EXCEPT ![r] =
                    LET half == (BudgetOf(r) * 3) \div 2
                    IN  IF half < MinBudget THEN MinBudget ELSE half]
    /\ measured' = [measured EXCEPT ![r] = TRUE]
    /\ work' = [work EXCEPT ![r] = "stopping"]
    /\ used' = [used EXCEPT ![r] = 0]
    /\ UNCHANGED <<status, ahead, reported, stale, up, txnVars, faults>>

(* The phase or the encoding ends, or its process tree dies.               *)
Finish(r) ==
    /\ work[r] = "running"
    /\ work' = [work EXCEPT ![r] = IF Home[r] \in up THEN "stopping" ELSE "idle"]
    /\ used' = [used EXCEPT ![r] = 0]
    /\ UNCHANGED <<rowVars, up, txnVars, faults>>

ReleaseRow(r) ==
    /\ status' = [status EXCEPT ![r] = "released"]
    /\ ahead' = WaitingIn(status', ahead)
    /\ reported' = [reported EXCEPT ![r] = FALSE]
    /\ stale' = [stale EXCEPT ![r] = FALSE]
    /\ work' = [work EXCEPT ![r] = "idle"]

(* The parent releases the row once the processes are gone.                *)
ReleaseFirst(r) ==  \* a slip: the row is released while the processes still run
    /\ txn.by = {}
    /\ work[r] = "running" /\ Home[r] \in up
    /\ status' = [status EXCEPT ![r] = "released"]
    /\ UNCHANGED <<ahead, budget, measured, reported, stale, clientVars, up, txnVars, faults>>
Release(r) ==
    /\ txn.by = {}
    /\ work[r] = "stopping"
    /\ ReleaseRow(r)
    /\ UNCHANGED <<budget, measured, used, up, txnVars, faults>>

(* A waiting client stops asking: compression_gpu's deadline, the worker's *)
(* hard timeout or the cancellation of its task.                           *)
GiveUp(r) ==
    /\ txn.by = {}
    /\ work[r] = "waiting" /\ Home[r] \in up
    /\ ReleaseRow(r)
    /\ UNCHANGED <<budget, measured, used, up, txnVars, faults>>

----------------------------------------------------------------------------
(***************************************************************************)
(* The environment.                                                        *)
(***************************************************************************)

(* A waiting client does not poll for 300 s: its thread waits for the lock *)
(* the control round holds.                                                *)
Stall(r) ==
    /\ txn.by = {}
    /\ status[r] = "waiting" /\ ~stale[r]
    /\ faults < MaxFaults /\ faults' = faults + 1
    /\ stale' = [stale EXCEPT ![r] = TRUE]
    /\ UNCHANGED <<status, ahead, budget, measured, reported, clientVars, up, txnVars>>

(* A server process dies.  Its transaction rolls back, its rows stay.  A   *)
(* Job Object takes its workers with it; a POSIX process group runs on.    *)
Crash(s) ==
    /\ s \in up
    /\ faults < MaxFaults /\ faults' = faults + 1
    /\ up' = up \ {s}
    /\ work' = [r \in Request |->
                  IF Home[r] = s /\ (KillOnClose \/ work[r] # "running") THEN "idle" ELSE work[r]]
    /\ used' = [r \in Request |-> IF Home[r] = s /\ KillOnClose THEN 0 ELSE used[r]]
    /\ IF \E r \in txn.by : Home[r] = s
       THEN txn' = NoTxn /\ sampled' = 0
       ELSE UNCHANGED txnVars
    /\ UNCHANGED rowVars

Next ==
    \/ \E r \in Request :
        \/ BeginAdmission(r) \/ EndAdmission(r)
        \/ Heartbeat(r) \/ LoseLease(r)
        \/ Grow(r) \/ OutOfMemory(r) \/ Finish(r)
        \/ Release(r) \/ GiveUp(r) \/ Stall(r)
    \/ \E s \in Server : Crash(s)

Spec == Init /\ [][Next]_vars

----------------------------------------------------------------------------
(***************************************************************************)
(* Safety                                                                  *)
(***************************************************************************)

Holding(r) == work[r] \in {"running", "stopping"}

(* A training run has the GPU to itself: while its worker may still use    *)
(* the device, no other client of the device does, whatever probes failed, *)
(* clients stalled or servers died in between.                             *)
TrainingIsExclusive ==
    \A r, q \in Request : r # q /\ Exclusive(r) /\ Holding(r) => ~Holding(q)

(* No more workers of a workload run on the device than its limit: the     *)
(* extraction concurrency, two predictions, one encoder.                   *)
WorkloadLimits ==
    \A w \in Workloads \ {"train"} :
        Cardinality({r \in Request : Workload[r] = w /\ Holding(r)}) <= Limit(w)

(* No process runs on the GPU without a row that other requests see: a     *)
(* lease is not given up, and not reclaimed, before its processes ended.   *)
WorkIsLeased == \A r \in Request : work[r] = "running" => status[r] \in {"active", "conflict"}

(* A lease is only reclaimed from a dead server, a request only if it      *)
(* stalled: probing an owner never takes what a live client still polls    *)
(* for or holds.                                                           *)
OnlyTheDeadAreReclaimed ==
    [][\A r \in Request :
        /\ Home[r] \in up /\ status[r] # "released" /\ status'[r] = "released"
        /\ work'[r] = work[r]
        => status[r] = "waiting" /\ stale[r]]_vars

Promised(r) == IF used[r] > BudgetOf(r) THEN used[r] ELSE BudgetOf(r)
Committed == MapThenSumSet(LAMBDA r : Promised(r), {q \in Request : Holding(q)})

(* A shared grant leaves the reserve free even after every holder has used *)
(* its whole budget, short only of what the processes took between the     *)
(* two driver queries of the transaction.                                  *)
GrantLeavesReserve ==
    [][\A r \in Request :
        ~Exclusive(r) /\ work[r] # "running" /\ work'[r] = "running"
        => Committed' <= Total - Reserve + txn.grown]_vars

(* The leases implement a lock taken in one step, although rows are probed *)
(* and admitted in transactions, reclaimed, lost and asked for again, and  *)
(* processes end before their rows do.                                     *)
Device == INSTANCE DeviceLock WITH using <- {r \in Request : Holding(r)}
ImplementsDeviceLock == Device!Spec

----------------------------------------------------------------------------
(***************************************************************************)
(* Liveness.  The locks are granted in the order they are asked for, a     *)
(* waiting client polls and releases what it no longer uses, a client      *)
(* whose row is in conflict reaches its deadline, a phase ends within its  *)
(* timeout.                                                                *)
(***************************************************************************)

ClientStep(r) ==
    \/ work[r] = "waiting" /\ status[r] # "conflict" /\ BeginAdmission(r)
    \/ status[r] = "conflict" /\ GiveUp(r)
    \/ Release(r)

Fairness ==
    /\ \A r \in Request : SF_vars(ClientStep(r)) /\ WF_vars(Finish(r))
    /\ WF_vars(\E r \in Request : EndAdmission(r))

FairSpec == Spec /\ Fairness

Asking(r) == work[r] = "waiting" /\ Home[r] \in up

(* Whoever asks to train or to encode gets the device or is abandoned by   *)
(* its own client: shared work that keeps arriving does not starve a       *)
(* training run, nor do small extractions that replace each other starve   *)
(* an encoder of memory.                                                   *)
RequestsAreServed ==
    \A r \in Request :
        Exclusive(r) \/ Workload[r] = "compression" => (Asking(r) ~> ~Asking(r))
=============================================================================
