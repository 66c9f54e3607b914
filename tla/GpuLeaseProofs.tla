--------------------------- MODULE GpuLeaseProofs ---------------------------
(***************************************************************************)
(* Type correctness of GpuLease, and the exclusion its leases give, for    *)
(* any number of requests and servers and any sequence of faults.          *)
(***************************************************************************)
EXTENDS GpuLease, TLAPS, FiniteSetTheorems

LEMMA LiveIsFinite ==
    ASSUME NEW S \in SUBSET Live
    PROVE  Cardinality(S) \in Nat
BY RequestAssumption, FS_Subset, FS_CardinalityType DEF Live

LEMMA QueueType ==
    ASSUME NEW st, NEW queue \in [Request -> SUBSET Request]
    PROVE  WaitingIn(st, queue) \in [Request -> SUBSET Request]
BY DEF WaitingIn

LEMMA SweptType ==
    ASSUME TypeOK, NEW r \in Request
    PROVE  Swept(r) \in [Request -> {"released", "waiting", "active", "conflict"}]
BY DEF TypeOK, Swept

LEMMA QueueOfType ==
    ASSUME TypeOK, NEW r \in Request
    PROVE  QueueOf(r) \in [Request -> SUBSET Request]
<1>1. [q \in Request |-> IF q = r THEN Request \ {r} ELSE ahead[q] \ {r}]
        \in [Request -> SUBSET Request]
  BY DEF TypeOK
<1>2. ahead \in [Request -> SUBSET Request]
  BY DEF TypeOK
<1>3. QED
  BY <1>1, <1>2 DEF QueueOf

LEMMA BudgetTypes ==
    ASSUME TypeOK, NEW q \in Request, NEW visible \in BOOLEAN
    PROVE  BudgetOf(q) \in Nat /\ Seen(q, visible) \in Nat /\ Raised(q, visible) \in Nat
<1>1. BudgetOf(q) \in Nat
  BY DeviceAssumption DEF TypeOK, BudgetOf
<1>2. Seen(q, visible) \in Nat
  BY DEF TypeOK, Seen
<1>3. \A n \in Nat : (n * 11) \div 10 + 1 \in Nat
  OBVIOUS
<1>4. QED
  BY <1>1, <1>2, <1>3 DEF Raised

LEMMA WantedType ==
    ASSUME TypeOK, NEW r \in Request
    PROVE  Wanted(r) \subseteq Nat
BY RequestAssumption DEF TypeOK, Wanted

(***************************************************************************)
(* The variables keep their types, whatever the requests, their budgets    *)
(* and the faults: the budgets the admission raises stay natural numbers   *)
(* and the queue holds requests only.                                      *)
(***************************************************************************)
THEOREM TypeCorrect == Spec => []TypeOK
<1>1. Init => TypeOK
  BY RequestAssumption, DeviceAssumption DEF Init, TypeOK, NoTxn
<1>2. TypeOK /\ [Next]_vars => TypeOK'
  <2> SUFFICES ASSUME TypeOK, [Next]_vars
               PROVE  TypeOK'
    OBVIOUS
  <2> USE DEF TypeOK, rowVars, clientVars, txnVars
  <2>1. ASSUME NEW r \in Request, BeginAdmission(r)
        PROVE  TypeOK'
    <3>1. PICK unknown \in SUBSET Live, answered \in BOOLEAN :
            /\ faults + (Cardinality(unknown) + (IF answered THEN 0 ELSE 1)) <= MaxFaults
            /\ faults' = faults + (Cardinality(unknown) + (IF answered THEN 0 ELSE 1))
            /\ txn' = [by |-> {r}, gone |-> Gone(unknown), unknown |-> unknown,
                       answered |-> answered, grown |-> 0]
      BY <2>1 DEF BeginAdmission
    <3>2. faults' \in 0..MaxFaults
      BY <3>1, LiveIsFinite, DeviceAssumption
    <3>3. txn' \in [by : SUBSET Request, gone : SUBSET Request, unknown : SUBSET Request,
                    answered : BOOLEAN, grown : Nat]
      BY <3>1 DEF Gone, Live
    <3>4. QED
      BY <2>1, <3>2, <3>3 DEF BeginAdmission
  <2>2. ASSUME NEW r \in Request, EndAdmission(r)
        PROVE  TypeOK'
    <3>1. PICK visible \in BOOLEAN, b \in Wanted(r) :
            /\ budget' = [q \in Request |->
                        IF q = r THEN b
                        ELSE IF Measures(r) /\ q \in Holders(r) /\ Seen(q, visible) > BudgetOf(q)
                        THEN Raised(q, visible)
                        ELSE budget[q]]
            /\ measured' = [q \in Request |->
                        \/ measured[q]
                        \/ Measures(r) /\ q \in Holders(r) /\ Seen(q, visible) > 0]
            /\ status' = [Swept(r) EXCEPT ![r] = IF Granted(r, visible, b) THEN "active" ELSE @]
            /\ work' = [work EXCEPT ![r] = IF Granted(r, visible, b) THEN "running" ELSE "waiting"]
      BY <2>2 DEF EndAdmission
    <3>2. budget' \in [Request -> Nat]
      BY <3>1, WantedType, BudgetTypes
    <3>3. measured' \in [Request -> BOOLEAN]
      BY <3>1
    <3>4. status' \in [Request -> {"released", "waiting", "active", "conflict"}]
      BY <3>1, SweptType
    <3>5. work' \in [Request -> {"idle", "waiting", "running", "stopping"}]
      BY <3>1
    <3>6. ahead' \in [Request -> SUBSET Request]
      BY <2>2, QueueType, QueueOfType DEF EndAdmission
    <3>7. QED
      BY <2>2, <3>2, <3>3, <3>4, <3>5, <3>6 DEF EndAdmission, NoTxn
  <2>3. ASSUME NEW r \in Request, Heartbeat(r)
        PROVE  TypeOK'
    BY <2>3 DEF Heartbeat
  <2>4. ASSUME NEW r \in Request, LoseLease(r)
        PROVE  TypeOK'
    BY <2>4 DEF LoseLease
  <2>5. ASSUME NEW r \in Request, Grow(r)
        PROVE  TypeOK'
    <3>1. PICK more \in 1..Free :
            /\ used' = [used EXCEPT ![r] = @ + more]
            /\ txn' = [txn EXCEPT !.grown = IF txn.by = {} THEN 0 ELSE @ + more]
      BY <2>5 DEF Grow
    <3>2. more \in Nat
      BY <3>1
    <3>3. QED
      BY <2>5, <3>1, <3>2 DEF Grow
  <2>6. ASSUME NEW r \in Request, OutOfMemory(r)
        PROVE  TypeOK'
    <3>1. (BudgetOf(r) * 3) \div 2 \in Nat
      BY BudgetTypes
    <3>2. budget' \in [Request -> Nat]
      BY <2>6, <3>1, DeviceAssumption DEF OutOfMemory
    <3>3. QED
      BY <2>6, <3>2 DEF OutOfMemory
  <2>7. ASSUME NEW r \in Request, Finish(r)
        PROVE  TypeOK'
    BY <2>7 DEF Finish
  <2>8. ASSUME NEW r \in Request, Release(r)
        PROVE  TypeOK'
    BY <2>8, QueueType DEF Release, ReleaseRow
  <2>9. ASSUME NEW r \in Request, GiveUp(r)
        PROVE  TypeOK'
    BY <2>9, QueueType DEF GiveUp, ReleaseRow
  <2>10. ASSUME NEW r \in Request, Stall(r)
         PROVE  TypeOK'
    BY <2>10, DeviceAssumption DEF Stall
  <2>11. ASSUME NEW s \in Server, Crash(s)
         PROVE  TypeOK'
    <3>1. NoTxn \in [by : SUBSET Request, gone : SUBSET Request, unknown : SUBSET Request,
                     answered : BOOLEAN, grown : Nat]
      BY DEF NoTxn
    <3>2. txn' = NoTxn \/ txn' = txn
      BY <2>11 DEF Crash
    <3>3. work' \in [Request -> {"idle", "waiting", "running", "stopping"}]
      BY <2>11 DEF Crash
    <3>4. used' \in [Request -> Nat]
      BY <2>11 DEF Crash
    <3>5. faults' \in 0..MaxFaults /\ up' \subseteq Server
      BY <2>11, DeviceAssumption DEF Crash
    <3>6. QED
      BY <2>11, <3>1, <3>2, <3>3, <3>4, <3>5 DEF Crash
  <2>12. CASE UNCHANGED vars
    BY <2>12 DEF vars
  <2>13. QED
    BY <2>1, <2>2, <2>3, <2>4, <2>5, <2>6, <2>7, <2>8, <2>9, <2>10, <2>11, <2>12 DEF Next
<1>3. QED
  BY <1>1, <1>2, PTL DEF Spec

----------------------------------------------------------------------------
(***************************************************************************)
(* Exclusion.  TrainingIsExclusive is about the clients; admission only    *)
(* sees the rows.  The invariant ties the two together: who may use the    *)
(* device has a row the others see and a server that is alive, and what an *)
(* open transaction took for abandoned still is.                           *)
(***************************************************************************)

ClientsAreAlive == \A r \in Request : work[r] # "idle" => Home[r] \in up
HoldersAreLeased == \A r \in Request : Holding(r) => status[r] \in {"active", "conflict"}
GoneStayGone ==
    /\ txn.by = {} => txn.gone = {}
    /\ \A r \in txn.gone : Home[r] \notin up \/ (status[r] = "waiting" /\ stale[r])
    /\ \A r \in txn.by : ~Holding(r) /\ Home[r] \in up

LeaseInv ==
    /\ TypeOK
    /\ ClientsAreAlive
    /\ HoldersAreLeased
    /\ GoneStayGone

(* A client that may use the device is among the holders an admission of   *)
(* another request sees.                                                   *)
LEMMA HoldersAreSeen ==
    ASSUME LeaseInv, NEW r \in Request, NEW q \in Request, q # r, Holding(q)
    PROVE  q \in Holders(r) /\ Swept(r)[q] \in {"active", "conflict"}
<1>1. q \notin txn.gone
  BY DEF LeaseInv, ClientsAreAlive, HoldersAreLeased, GoneStayGone, Holding
<1>2. status[q] \in {"active", "conflict"}
  BY DEF LeaseInv, HoldersAreLeased
<1>3. Swept(r)[q] \in {"active", "conflict"}
  BY <1>1, <1>2 DEF Swept
<1>4. QED
  BY <1>3 DEF Holders

(* The outcome of an admission, without its budgets.                       *)
LEMMA Outcome ==
    ASSUME TypeOK, NEW r \in Request, EndAdmission(r)
    PROVE  /\ \/ /\ Swept(r)[r] = "waiting" /\ Admitted(r)
                 /\ status' = [Swept(r) EXCEPT ![r] = "active"]
                 /\ work' = [work EXCEPT ![r] = "running"]
              \/ /\ status' = Swept(r)
                 /\ work' = [work EXCEPT ![r] = "waiting"]
           /\ txn' = NoTxn
           /\ up' = up
<1>1. PICK visible \in BOOLEAN, b \in Wanted(r) :
        /\ status' = [Swept(r) EXCEPT ![r] = IF Granted(r, visible, b) THEN "active" ELSE @]
        /\ work' = [work EXCEPT ![r] = IF Granted(r, visible, b) THEN "running" ELSE "waiting"]
  BY DEF EndAdmission
<1>2. CASE Granted(r, visible, b)
  BY <1>1, <1>2 DEF EndAdmission, Granted
<1>3. CASE ~Granted(r, visible, b)
  <2>1. status' = Swept(r)
    BY <1>1, <1>3, SweptType
  <2>2. QED
    BY <1>1, <1>3, <2>1 DEF EndAdmission
<1>4. QED
  BY <1>2, <1>3

(* Any other step only takes clients off the device.                       *)
LEMMA OnlyGrantsAddHolders ==
    ASSUME TypeOK, [Next]_vars, \A r \in Request : ~EndAdmission(r)
    PROVE  \A q \in Request : Holding(q)' => Holding(q)
<1> USE DEF Holding, TypeOK, rowVars, clientVars, txnVars
<1>1. ASSUME NEW r \in Request, BeginAdmission(r) \/ Heartbeat(r) \/ Grow(r) \/ Stall(r)
      PROVE  work' = work
  BY <1>1 DEF BeginAdmission, Heartbeat, Grow, Stall
<1>2. ASSUME NEW r \in Request, LoseLease(r) \/ OutOfMemory(r) \/ Finish(r)
      PROVE  \A q \in Request : Holding(q)' => Holding(q)
  BY <1>2 DEF LoseLease, OutOfMemory, Finish
<1>3. ASSUME NEW r \in Request, Release(r) \/ GiveUp(r)
      PROVE  \A q \in Request : Holding(q)' => Holding(q)
  BY <1>3 DEF Release, GiveUp, ReleaseRow
<1>4. ASSUME NEW s \in Server, Crash(s)
      PROVE  \A q \in Request : Holding(q)' => Holding(q)
  BY <1>4 DEF Crash
<1>5. CASE UNCHANGED vars
  BY <1>5 DEF vars
<1>6. QED
  BY <1>1, <1>2, <1>3, <1>4, <1>5 DEF Next

LEMMA LeaseInvariant == ASSUME KillOnClose PROVE Spec => []LeaseInv
<1>1. Init => LeaseInv
  <2>1. Init => TypeOK
    BY RequestAssumption, DeviceAssumption DEF Init, TypeOK, NoTxn
  <2>2. QED
    BY <2>1 DEF Init, NoTxn, LeaseInv, ClientsAreAlive, HoldersAreLeased, GoneStayGone, Holding
<1>2. LeaseInv /\ TypeOK' /\ [Next]_vars => LeaseInv'
  <2> SUFFICES ASSUME LeaseInv, TypeOK', [Next]_vars
               PROVE  ClientsAreAlive' /\ HoldersAreLeased' /\ GoneStayGone'
    BY DEF LeaseInv
  <2> USE DEF rowVars, clientVars, txnVars, LeaseInv
  <2>1. ASSUME NEW r \in Request, BeginAdmission(r)
        PROVE  ClientsAreAlive' /\ HoldersAreLeased' /\ GoneStayGone'
    <3>1. PICK unknown \in SUBSET Live, answered \in BOOLEAN :
            txn' = [by |-> {r}, gone |-> Gone(unknown), unknown |-> unknown,
                    answered |-> answered, grown |-> 0]
      BY <2>1 DEF BeginAdmission
    <3>2. UNCHANGED <<status, stale, work, up>> /\ work[r] \in {"idle", "waiting"} /\ Home[r] \in up
      BY <2>1 DEF BeginAdmission
    <3>3. QED
      BY <3>1, <3>2 DEF ClientsAreAlive, HoldersAreLeased, GoneStayGone, Holding, Gone, Live
  <2>2. ASSUME NEW r \in Request, EndAdmission(r)
        PROVE  ClientsAreAlive' /\ HoldersAreLeased' /\ GoneStayGone'
    <3>1. txn' = NoTxn /\ up' = up /\ Home[r] \in up /\ ~Holding(r)
      BY <2>2, Outcome DEF EndAdmission, GoneStayGone
    <3>2. GoneStayGone'
      BY <3>1 DEF GoneStayGone, NoTxn
    <3>3. \A q \in Request \ {r} : work'[q] = work[q] /\ status'[q] = Swept(r)[q]
      BY <2>2, Outcome, SweptType DEF TypeOK
    <3>4. work'[r] = "running" => status'[r] = "active"
      BY <2>2, Outcome, SweptType DEF TypeOK
    <3>5. work'[r] \in {"running", "waiting"}
      BY <2>2, Outcome DEF TypeOK
    <3>6. ClientsAreAlive'
      BY <3>1, <3>3 DEF ClientsAreAlive
    <3>7. HoldersAreLeased'
      BY <3>3, <3>4, <3>5, HoldersAreSeen DEF HoldersAreLeased, Holding
    <3>8. QED
      BY <3>2, <3>6, <3>7
  <2>3. ASSUME NEW r \in Request, Heartbeat(r)
        PROVE  ClientsAreAlive' /\ HoldersAreLeased' /\ GoneStayGone'
    BY <2>3 DEF Heartbeat, ClientsAreAlive, HoldersAreLeased, GoneStayGone, Holding
  <2>4. ASSUME NEW r \in Request, LoseLease(r)
        PROVE  ClientsAreAlive' /\ HoldersAreLeased' /\ GoneStayGone'
    BY <2>4 DEF LoseLease, TypeOK, ClientsAreAlive, HoldersAreLeased, GoneStayGone, Holding
  <2>5. ASSUME NEW r \in Request, Grow(r)
        PROVE  ClientsAreAlive' /\ HoldersAreLeased' /\ GoneStayGone'
    <3>1. txn'.by = txn.by /\ txn'.gone = txn.gone
      BY <2>5 DEF Grow, TypeOK
    <3>2. QED
      BY <2>5, <3>1 DEF Grow, ClientsAreAlive, HoldersAreLeased, GoneStayGone, Holding
  <2>6. ASSUME NEW r \in Request, OutOfMemory(r)
        PROVE  ClientsAreAlive' /\ HoldersAreLeased' /\ GoneStayGone'
    BY <2>6 DEF OutOfMemory, TypeOK, ClientsAreAlive, HoldersAreLeased, GoneStayGone, Holding
  <2>7. ASSUME NEW r \in Request, Finish(r)
        PROVE  ClientsAreAlive' /\ HoldersAreLeased' /\ GoneStayGone'
    BY <2>7 DEF Finish, TypeOK, ClientsAreAlive, HoldersAreLeased, GoneStayGone, Holding
  <2>8. ASSUME NEW r \in Request, Release(r)
        PROVE  ClientsAreAlive' /\ HoldersAreLeased' /\ GoneStayGone'
    BY <2>8 DEF Release, ReleaseRow, TypeOK, ClientsAreAlive, HoldersAreLeased, GoneStayGone, Holding
  <2>9. ASSUME NEW r \in Request, GiveUp(r)
        PROVE  ClientsAreAlive' /\ HoldersAreLeased' /\ GoneStayGone'
    BY <2>9 DEF GiveUp, ReleaseRow, TypeOK, ClientsAreAlive, HoldersAreLeased, GoneStayGone, Holding
  <2>10. ASSUME NEW r \in Request, Stall(r)
         PROVE  ClientsAreAlive' /\ HoldersAreLeased' /\ GoneStayGone'
    BY <2>10 DEF Stall, ClientsAreAlive, HoldersAreLeased, GoneStayGone, Holding
  <2>11. ASSUME NEW s \in Server, Crash(s)
         PROVE  ClientsAreAlive' /\ HoldersAreLeased' /\ GoneStayGone'
    <3>1. \A r \in Request : work'[r] = IF Home[r] = s THEN "idle" ELSE work[r]
      BY <2>11 DEF Crash
    <3>2. up' = up \ {s} /\ status' = status /\ stale' = stale
      BY <2>11 DEF Crash
    <3>3. \/ txn' = NoTxn
          \/ txn' = txn /\ \A r \in txn.by : Home[r] # s
      BY <2>11 DEF Crash
    <3>4. ClientsAreAlive' /\ HoldersAreLeased'
      BY <3>1, <3>2 DEF ClientsAreAlive, HoldersAreLeased, Holding
    <3>5. GoneStayGone'
      BY <3>1, <3>2, <3>3 DEF GoneStayGone, Holding, NoTxn, TypeOK
    <3>6. QED
      BY <3>4, <3>5
  <2>12. CASE UNCHANGED vars
    BY <2>12 DEF vars, ClientsAreAlive, HoldersAreLeased, GoneStayGone, Holding
  <2>13. QED
    BY <2>1, <2>2, <2>3, <2>4, <2>5, <2>6, <2>7, <2>8, <2>9, <2>10, <2>11, <2>12 DEF Next
<1>3. QED
  BY <1>1, <1>2, TypeCorrect, PTL DEF Spec

(* Nothing runs on the device without a row that admission sees: the       *)
(* parent ends the processes before it releases their lease, and probing   *)
(* an owner never takes the row of a live one (Job Objects assumed).       *)
THEOREM WorkStaysLeased == ASSUME KillOnClose PROVE Spec => []WorkIsLeased
<1>1. LeaseInv => WorkIsLeased
  BY DEF LeaseInv, HoldersAreLeased, Holding, WorkIsLeased
<1>2. QED
  BY <1>1, LeaseInvariant, PTL

(* A training run has the device to itself: admission refuses it while any *)
(* other client may use the device, and refuses the others while it may,   *)
(* for any number of clients, servers and faults (Job Objects assumed).    *)
THEOREM TrainingExclusion == ASSUME KillOnClose PROVE Spec => []TrainingIsExclusive
<1>1. Init => TrainingIsExclusive
  BY DEF Init, TrainingIsExclusive, Holding
<1>2. LeaseInv /\ TrainingIsExclusive /\ [Next]_vars => TrainingIsExclusive'
  <2> SUFFICES ASSUME LeaseInv, TrainingIsExclusive, [Next]_vars
               PROVE  TrainingIsExclusive'
    OBVIOUS
  <2>1. ASSUME NEW r \in Request, EndAdmission(r)
        PROVE  TrainingIsExclusive'
    <3>1. \A q \in Request \ {r} : work'[q] = work[q]
      BY <2>1, Outcome DEF TypeOK, LeaseInv
    <3>2. \/ work'[r] = "running" /\ Admitted(r)
          \/ work'[r] = "waiting"
      BY <2>1, Outcome DEF TypeOK, LeaseInv
    <3>3. \A q \in Request \ {r} : Holding(q) => q \in Holders(r)
      BY HoldersAreSeen
    <3>4. ASSUME Admitted(r), NEW q \in Request \ {r}, Holding(q)
          PROVE  ~Exclusive(r) /\ ~Exclusive(q)
      BY <3>3, <3>4 DEF Admitted
    <3>5. QED
      BY <3>1, <3>2, <3>4 DEF TrainingIsExclusive, Holding, Exclusive
  <2>2. CASE \A r \in Request : ~EndAdmission(r)
    BY <2>2, OnlyGrantsAddHolders DEF TrainingIsExclusive, Exclusive, LeaseInv
  <2>3. QED
    BY <2>1, <2>2
<1>3. QED
  BY <1>1, <1>2, LeaseInvariant, PTL DEF Spec

(* The limit of each shared workload bounds the clients on the device, not *)
(* only the rows one transaction counted (Job Objects assumed).            *)
THEOREM LimitsHold == ASSUME KillOnClose PROVE Spec => []WorkloadLimits
<1> DEFINE On(w) == {r \in Request : Workload[r] = w /\ Holding(r)}
<1>0. \A w \in Workloads : Limit(w) \in Nat /\ IsFiniteSet(On(w)) /\ Cardinality(On(w)) \in Nat
  <2>1. \A w : IsFiniteSet(On(w)) /\ Cardinality(On(w)) \in Nat
    BY RequestAssumption, FS_Subset, FS_CardinalityType
  <2>2. QED
    BY <2>1, DeviceAssumption DEF Limit, Workloads
<1>1. Init => WorkloadLimits
  <2> SUFFICES ASSUME Init, NEW w \in Workloads \ {"train"}
               PROVE  Cardinality(On(w)) <= Limit(w)
    BY DEF WorkloadLimits
  <2>1. On(w) = {}
    BY DEF Init, Holding
  <2>2. QED
    BY <1>0, <2>1, FS_EmptySet
<1>2. LeaseInv /\ WorkloadLimits /\ [Next]_vars => WorkloadLimits'
  <2> SUFFICES ASSUME LeaseInv, WorkloadLimits, [Next]_vars, NEW w \in Workloads \ {"train"}
               PROVE  Cardinality(On(w)') <= Limit(w)
    BY DEF WorkloadLimits, Limit
  <2>0. Cardinality(On(w)) <= Limit(w)
    BY DEF WorkloadLimits
  <2>1. ASSUME On(w)' \subseteq On(w)
        PROVE  Cardinality(On(w)') <= Limit(w)
    <3>1. Cardinality(On(w)') <= Cardinality(On(w)) /\ Cardinality(On(w)') \in Nat
      BY <1>0, <2>1, FS_Subset, FS_CardinalityType
    <3>2. QED
      BY <1>0, <2>0, <3>1
  <2>2. ASSUME NEW r \in Request, EndAdmission(r)
        PROVE  Cardinality(On(w)') <= Limit(w)
    <3>1. \A q \in Request \ {r} : work'[q] = work[q]
      BY <2>2, Outcome DEF TypeOK, LeaseInv
    <3>2. \/ work'[r] = "running" /\ Admitted(r)
          \/ work'[r] = "waiting"
      BY <2>2, Outcome DEF TypeOK, LeaseInv
    <3>3. CASE work'[r] = "waiting" \/ Workload[r] # w
      <4>1. On(w)' \subseteq On(w)
        BY <3>1, <3>3 DEF Holding
      <4>2. QED
        BY <2>1, <4>1
    <3>4. CASE Admitted(r) /\ Workload[r] = w
      <4> DEFINE Same == {q \in Holders(r) : Workload[q] = w}
      <4>1. IsFiniteSet(Same) /\ Cardinality(Same) \in Nat /\ Cardinality(Same) < Limit(w)
        BY <3>4, RequestAssumption, FS_Subset, FS_CardinalityType
           DEF Admitted, Exclusive, Holders
      <4>2. On(w) \ {r} \subseteq Same
        BY HoldersAreSeen
      <4>3. On(w)' \subseteq Same \cup {r}
        BY <3>1, <4>2 DEF Holding
      <4> HIDE DEF Same
      <4>4. /\ IsFiniteSet(Same \cup {r})
            /\ Cardinality(Same \cup {r}) \in {Cardinality(Same), Cardinality(Same) + 1}
        BY <4>1, FS_AddElement
      <4>5. Cardinality(On(w)') <= Cardinality(Same \cup {r})
        BY <4>3, <4>4, FS_Subset
      <4>6. Cardinality(On(w)') \in Nat /\ Cardinality(Same \cup {r}) \in Nat
        BY <4>3, <4>4, FS_Subset, FS_CardinalityType
      <4>7. Limit(w) \in Nat
        BY <1>0
      <4> HIDE DEF On
      <4>8. QED
        BY <4>1, <4>4, <4>5, <4>6, <4>7
    <3>5. QED
      BY <3>2, <3>3, <3>4
  <2>3. CASE \A r \in Request : ~EndAdmission(r)
    <3>1. On(w)' \subseteq On(w)
      BY <2>3, OnlyGrantsAddHolders DEF LeaseInv
    <3>2. QED
      BY <2>1, <3>1
  <2>4. QED
    BY <2>2, <2>3
<1>3. QED
  BY <1>1, <1>2, LeaseInvariant, PTL DEF Spec

(* Probing never takes a row from a live client, except the place of one   *)
(* that let its request stall (Job Objects assumed).                       *)
THEOREM LiveRowsAreKept == ASSUME KillOnClose PROVE Spec => OnlyTheDeadAreReclaimed
<1>1. LeaseInv /\ [Next]_vars =>
        \/ \A r \in Request :
             /\ Home[r] \in up /\ status[r] # "released" /\ status'[r] = "released"
             /\ work'[r] = work[r]
             => status[r] = "waiting" /\ stale[r]
        \/ UNCHANGED vars
  <2> SUFFICES ASSUME LeaseInv, Next, NEW q \in Request,
                      Home[q] \in up, status[q] # "released", status'[q] = "released",
                      work'[q] = work[q]
               PROVE  status[q] = "waiting" /\ stale[q]
    OBVIOUS
  <2> USE DEF rowVars, TypeOK, LeaseInv
  <2>1. ASSUME NEW r \in Request, EndAdmission(r)
        PROVE  status[q] = "waiting" /\ stale[q]
    <3>1. status'[q] = Swept(r)[q] \/ status'[q] = "active"
      BY <2>1, Outcome, SweptType
    <3>2. Swept(r)[q] = "released"
      BY <3>1
    <3>3. q \in txn.gone
      BY <3>2 DEF Swept, Requeued
    <3>4. QED
      BY <3>3 DEF GoneStayGone
  <2>2. ASSUME NEW r \in Request, Release(r) \/ GiveUp(r)
        PROVE  FALSE
    BY <2>2 DEF Release, GiveUp, ReleaseRow
  <2>3. ASSUME NEW r \in Request,
               \/ BeginAdmission(r) \/ Heartbeat(r) \/ LoseLease(r) \/ Grow(r)
               \/ OutOfMemory(r) \/ Finish(r) \/ Stall(r)
        PROVE  FALSE
    BY <2>3 DEF BeginAdmission, Heartbeat, LoseLease, Grow, OutOfMemory, Finish, Stall
  <2>4. ASSUME NEW s \in Server, Crash(s)
        PROVE  FALSE
    BY <2>4 DEF Crash
  <2>5. QED
    BY <2>1, <2>2, <2>3, <2>4 DEF Next
<1>2. QED
  BY <1>1, LeaseInvariant, PTL DEF Spec, OnlyTheDeadAreReclaimed

(* The lock counts as admission does.                                      *)
LEMMA SameCount == ASSUME NEW S PROVE Device!Cardinality(S) = Cardinality(S)
BY DEF Device!Cardinality, Cardinality

(* The leases implement the one-step lock of DeviceLock: a grant enters an *)
(* idle device or one it may share, every other step only leaves it (Job   *)
(* Objects assumed).                                                       *)
THEOREM LeasesAreALock == ASSUME KillOnClose PROVE Spec => ImplementsDeviceLock
<1> DEFINE using == {r \in Request : Holding(r)}
<1>1. Init => Device!Init
  BY DEF Init, Device!Init, Holding
<1>2. LeaseInv /\ [Next]_vars => [Device!Next]_using
  <2> SUFFICES ASSUME LeaseInv, [Next]_vars
               PROVE  [Device!Next]_using
    OBVIOUS
  <2>1. ASSUME NEW r \in Request, EndAdmission(r)
        PROVE  [Device!Next]_using
    <3>1. \A q \in Request \ {r} : Holding(q)' = Holding(q)
      BY <2>1, Outcome DEF TypeOK, LeaseInv, Holding
    <3>2. \/ work'[r] = "running" /\ Admitted(r)
          \/ work'[r] = "waiting"
      BY <2>1, Outcome DEF TypeOK, LeaseInv
    <3>3. ~Holding(r)
      BY <2>1 DEF EndAdmission, LeaseInv, GoneStayGone
    <3>4. CASE work'[r] = "waiting"
      <4>1. using' \subseteq using
        BY <3>1, <3>3, <3>4 DEF Holding
      <4>2. QED
        BY <4>1 DEF Device!Next, Device!Leave
    <3>5. CASE work'[r] = "running" /\ Admitted(r)
      <4>1. using' = using \cup {r}
        BY <3>1, <3>5 DEF Holding
      <4>2. \A q \in using : q \in Holders(r) /\ Swept(r)[q] \in {"active", "conflict"}
        BY <3>3, HoldersAreSeen
      <4>3. CASE Exclusive(r)
        <5>1. using = {}
          BY <3>5, <4>2, <4>3 DEF Admitted
        <5>2. Device!Enter(r)
          BY <4>1, <4>3, <5>1 DEF Device!Enter, Exclusive
        <5>3. QED
          BY <5>2 DEF Device!Next
      <4>4. CASE ~Exclusive(r)
        <5> DEFINE Same == {q \in Holders(r) : Workload[q] = Workload[r]}
        <5>1. \A q \in using : Workload[q] # "train"
          BY <3>5, <4>2, <4>4 DEF Admitted, Exclusive
        <5>2. Device!Rivals(r) \subseteq Same /\ IsFiniteSet(Same)
          BY <4>2, RequestAssumption, FS_Subset DEF Device!Rivals, Holders
        <5>3. Cardinality(Same) < Limit(Workload[r])
          BY <3>5, <4>4 DEF Admitted
        <5>4. Limit(Workload[r]) \in Nat
          BY RequestAssumption, DeviceAssumption DEF Limit
        <5>5. Cardinality(Device!Rivals(r)) < Limit(Workload[r])
          <6> HIDE DEF Same
          <6>1. /\ Cardinality(Device!Rivals(r)) <= Cardinality(Same)
                /\ Cardinality(Device!Rivals(r)) \in Nat /\ Cardinality(Same) \in Nat
            BY <5>2, FS_Subset, FS_CardinalityType
          <6>2. QED
            BY <5>3, <5>4, <6>1
        <5>6. Device!Enter(r)
          BY <3>3, <4>1, <4>4, <5>1, <5>5, SameCount DEF Device!Enter, Exclusive
        <5>7. QED
          BY <5>6 DEF Device!Next
      <4>5. QED
        BY <4>3, <4>4
    <3>6. QED
      BY <3>2, <3>4, <3>5
  <2>2. CASE \A r \in Request : ~EndAdmission(r)
    <3>1. using' \subseteq using
      BY <2>2, OnlyGrantsAddHolders DEF LeaseInv
    <3>2. QED
      BY <3>1 DEF Device!Next, Device!Leave
  <2>3. QED
    BY <2>1, <2>2
<1>3. QED
  BY <1>1, <1>2, LeaseInvariant, PTL DEF Spec, ImplementsDeviceLock, Device!Spec
=============================================================================
