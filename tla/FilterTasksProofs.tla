-------------------------- MODULE FilterTasksProofs --------------------------
(***************************************************************************)
(* The life of a video_filter task, for any tasks, kinds, capacities and   *)
(* tokens and any sequence of faults: no kind runs past its capacity, the  *)
(* executor at work is the one _running knows, and what ended stays ended. *)
(***************************************************************************)
EXTENDS FilterTasks, TLAPS, FiniteSetTheorems

(***************************************************************************)
(* The inductive invariant.  A row: what waits has an attempt left and what*)
(* runs has used one, only a failure keeps a code, and a task that ended   *)
(* has no owner.                                                           *)
(***************************************************************************)
RowInv(r) ==
    /\ r.st \in {"none", "queued"} => r.attempts < MaxAttempts
    /\ r.st = "running" => r.attempts > 0
    /\ r.code # "none" => r.st = "failed"
    /\ r.st \in {"succeeded", "cancelled"} => r.owner = "none"

(* A thread at work is the one _running knows, and its task is its own, or *)
(* was cancelled under it and may have succeeded by its transfer since: no *)
(* other way takes the row from it.                                        *)
Over(r) == r.st \in {"succeeded", "cancelled"}
ThreadInv(k) ==
    Working(k) =>
        /\ item[thread[k].on].token = k
        /\ \/ Over(row[thread[k].on])
           \/ Current(k) /\ row[thread[k].on].owner = "live"

(* Between the claim and the hand-over the row is the claim's, nobody uses *)
(* its token, and there is still room.                                     *)
ClaimInv(t) ==
    /\ pc = "claimed"
    /\ row[t].st = "running"
    /\ row[t].token \in Tokens
    /\ thread[row[t].token].step = "free"
    /\ Room(t)

(* _running counts towards the capacity, and a round never lets it exceed. *)
ListedOf(t) == {u \in Listed : Kind[u] = Kind[t]}
ListedInv ==
    /\ IsFiniteSet(Listed)
    /\ \A t \in Tasks : Cardinality(ListedOf(t)) <= Capacity[Kind[t]]

TaskInv ==
    /\ \A t \in Tasks : RowInv(row[t])
    /\ \A k \in Tokens : ThreadInv(k)
    /\ \A t \in claimed : ClaimInv(t)
    /\ ListedInv

(***************************************************************************)
(* What the updates of a row do to it.                                     *)
(***************************************************************************)
Codes == {"oom", "database", "other"}

LEMMA RowsAre ==
    ASSUME NEW r \in Row
    PROVE  /\ Queued(r) \in Row /\ Afresh(r) \in Row
           /\ Queued(r).st = "queued" /\ Queued(r).code = "none" /\ Queued(r).attempts = r.attempts
           /\ Afresh(r).st = "queued" /\ Afresh(r).code = "none" /\ Afresh(r).attempts = r.attempts
           /\ \A c \in Codes : Failed(r, c) \in Row /\ Failed(r, c).st = "failed"
           /\ \A s \in {"succeeded", "cancelled"} :
                /\ Ended(r, s) \in Row /\ Ended(r, s).st = s
                /\ Ended(r, s).code = "none" /\ Ended(r, s).owner = "none"
BY TasksAssumption DEF Row, Queued, Afresh, Failed, Ended, Codes

LEMMA RowsKeepInv ==
    ASSUME NEW r \in Row
    PROVE  /\ r.attempts < MaxAttempts => RowInv(Queued(r)) /\ RowInv(Afresh(r))
           /\ \A c \in Codes : RowInv(Failed(r, c))
           /\ \A s \in {"succeeded", "cancelled"} : RowInv(Ended(r, s))
BY RowsAre DEF RowInv

(* A run ends its task, fails it or queues it again.                       *)
LEMMA ResultsAre ==
    ASSUME TypeOK, TaskInv, NEW t \in Tasks, row[t].st = "running", NEW r \in Results(t)
    PROVE  r \in Row /\ RowInv(r) /\ r.st \in {"succeeded", "cancelled", "failed", "queued"}
<1>1. row[t] \in Row
  BY DEF TypeOK
<1>2. ASSUME NEW s \in {"succeeded", "cancelled"}, r = Ended(row[t], s)
      PROVE  r \in Row /\ RowInv(r) /\ r.st \in {"succeeded", "cancelled"}
  BY <1>1, <1>2, RowsAre, RowsKeepInv
<1>3. ASSUME NEW c \in {"oom", "other"}, r = Failed(row[t], c)
      PROVE  r \in Row /\ RowInv(r) /\ r.st = "failed"
  <2>1. c \in Codes
    BY DEF Codes
  <2>2. QED
    BY <1>1, <1>3, <2>1, RowsAre, RowsKeepInv
<1>4. CASE r = IF row[t].attempts < MaxAttempts THEN Afresh(row[t]) ELSE Failed(row[t], "database")
  BY <1>1, <1>4, RowsAre, RowsKeepInv DEF Codes
<1>5. CASE r = Deferred(row[t])
  <2>1. /\ Afresh(row[t]) \in Row /\ Afresh(row[t]).st = "queued"
        /\ Afresh(row[t]).code = "none" /\ Afresh(row[t]).attempts = row[t].attempts
    BY <1>1, RowsAre
  <2>2. r = [Afresh(row[t]) EXCEPT !.attempts = row[t].attempts - 1]
    BY <1>5, <2>1 DEF Deferred
  <2>3. row[t].attempts - 1 \in 0 .. MaxAttempts /\ row[t].attempts - 1 < MaxAttempts
    BY <1>1, TasksAssumption DEF TaskInv, Row, RowInv
  <2>4. QED
    BY <2>1, <2>2, <2>3 DEF Row, RowInv
<1>6. QED
  BY <1>2, <1>3, <1>4, <1>5 DEF Results

(***************************************************************************)
(* The steps, by what they do to rows, threads and entries.                *)
(***************************************************************************)

(* A request or a discovery queues a task that nothing holds.              *)
Requested(t, r) ==
    /\ row[t].st \in {"none", "failed"} /\ r.st = "queued" /\ RowInv(r)
    /\ row' = [row EXCEPT ![t] = r]
    /\ UNCHANGED volatile

LEMMA RequestsAre ==
    ASSUME TypeOK, TaskInv, NEW t \in Tasks, Enqueue(t) \/ RetryRequest(t) \/ ResetFailed(t)
    PROVE  \E r \in Row : Requested(t, r)
<1>1. row[t] \in Row /\ RowInv(row[t])
  BY DEF TypeOK, TaskInv
<1>2. CASE Enqueue(t)
  <2>1. row[t].attempts < MaxAttempts /\ row[t].st \in {"none", "failed"}
    BY <1>1, <1>2 DEF Enqueue, Reusable, RowInv
  <2>2. row' = [row EXCEPT ![t] = Afresh(row[t])] /\ UNCHANGED volatile
    BY <1>2 DEF Enqueue
  <2>3. QED
    BY <1>1, <2>1, <2>2, RowsAre, RowsKeepInv DEF Requested
<1>3. CASE RetryRequest(t)
  <2>1. row[t].attempts < MaxAttempts /\ row[t].st \in {"none", "failed"}
    BY <1>1, <1>3 DEF RetryRequest
  <2>2. row' = [row EXCEPT ![t] = Queued(row[t])] /\ UNCHANGED volatile
    BY <1>3 DEF RetryRequest
  <2>3. QED
    BY <1>1, <2>1, <2>2, RowsAre, RowsKeepInv DEF Requested
<1>4. CASE ResetFailed(t)
  <2> DEFINE r == [Afresh(row[t]) EXCEPT !.attempts = 0]
  <2>1. row[t].st = "failed" /\ row' = [row EXCEPT ![t] = r] /\ UNCHANGED volatile
    BY <1>4 DEF ResetFailed
  <2>2. r \in Row /\ r.st = "queued" /\ RowInv(r)
    <3>1. Afresh(row[t]) \in Row /\ Afresh(row[t]).st = "queued" /\ Afresh(row[t]).code = "none"
      BY <1>1, RowsAre
    <3>2. 0 \in 0 .. MaxAttempts /\ 0 < MaxAttempts
      BY TasksAssumption
    <3>3. QED
      BY <3>1, <3>2 DEF Row, RowInv
  <2>3. QED
    BY <2>1, <2>2 DEF Requested
<1>5. QED
  BY <1>2, <1>3, <1>4

(* An executor takes its own row to an end, or leaves the rows alone, and  *)
(* goes on working only while it leaves them alone.                        *)
Ran(k, rec) ==
    /\ thread[k].step # "free"
    /\ thread' = [thread EXCEPT ![k] = rec]
    /\ rec.step \in {"waiting", "working"} =>
            Working(k) /\ rec.on = thread[k].on /\ UNCHANGED row
    /\ \/ UNCHANGED row
       \/ /\ Working(k) /\ Current(k)
          /\ \E r \in Row : /\ row' = [row EXCEPT ![thread[k].on] = r]
                            /\ RowInv(r) /\ r.st \in {"succeeded", "cancelled", "failed", "queued"}
    /\ UNCHANGED <<item, limit, pc, todo, claimed, stopping>>

LEMMA ThreadsAre ==
    ASSUME TypeOK, NEW k \in Tokens
    PROVE  /\ Free \in Thread /\ Free.step = "free"
           /\ thread[k] \in Thread /\ thread[k].on \in Tasks /\ row[thread[k].on] \in Row
           /\ \A s \in {"working", "closing", "broken", "free"} :
                /\ [thread[k] EXCEPT !.step = s] \in Thread
                /\ [thread[k] EXCEPT !.step = s].step = s
                /\ [thread[k] EXCEPT !.step = s].on = thread[k].on
                /\ [thread EXCEPT ![k].step = s] = [thread EXCEPT ![k] = [thread[k] EXCEPT !.step = s]]
<1>1. (CHOOSE t \in Tasks : TRUE) \in Tasks
  BY TasksAssumption
<1>2. QED
  BY <1>1 DEF TypeOK, Thread, Free

LEMMA ExecutorsRun ==
    ASSUME TypeOK, TaskInv, NEW k \in Tokens, Begin(k) \/ Work(k) \/ Close(k) \/ Outage(k)
    PROVE  \E rec \in Thread : Ran(k, rec)
<1> DEFINE to(s) == [thread[k] EXCEPT !.step = s]
<1>1. CASE Begin(k)
  <2>1. Working(k) /\ thread[k].step # "free"
    BY <1>1 DEF Begin, Working
  <2>2. CASE Current(k) /\ Revision[thread[k].on] # config
    <3>1. /\ thread' = [thread EXCEPT ![k].step = "closing"]
          /\ row' = [row EXCEPT ![thread[k].on] = Ended(row[thread[k].on], "cancelled")]
          /\ UNCHANGED <<item, limit, pc, todo, claimed, stopping>>
      BY <1>1, <2>2 DEF Begin, At
    <3>2. Ran(k, to("closing")) /\ to("closing") \in Thread
      BY <2>1, <2>2, <3>1, ThreadsAre, RowsAre, RowsKeepInv DEF Ran
    <3>3. QED
      BY <3>2
  <2>3. CASE ~(Current(k) /\ Revision[thread[k].on] # config)
    <3>1. PICK s \in {"working", "closing"} :
            /\ thread' = [thread EXCEPT ![k].step = s]
            /\ row' = [row EXCEPT ![thread[k].on] = @]
            /\ UNCHANGED <<item, limit, pc, todo, claimed, stopping>>
      BY <1>1, <2>3 DEF Begin, At
    <3>2. UNCHANGED row
      BY <3>1 DEF TypeOK
    <3>3. Ran(k, to(s)) /\ to(s) \in Thread
      BY <2>1, <3>1, <3>2, ThreadsAre DEF Ran
    <3>4. QED
      BY <3>3
  <2>4. QED
    BY <2>2, <2>3
<1>2. CASE Work(k)
  <2>1. /\ Working(k) /\ thread[k].step # "free"
        /\ thread' = [thread EXCEPT ![k].step = "closing"]
        /\ UNCHANGED <<item, limit, pc, todo, claimed, stopping>>
    BY <1>2 DEF Work, Working, At
  <2>2. \/ UNCHANGED row
        \/ Current(k) /\ \E r \in Results(thread[k].on) : row' = [row EXCEPT ![thread[k].on] = r]
    BY <1>2 DEF Work
  <2>3. Ran(k, to("closing")) /\ to("closing") \in Thread
    BY <2>1, <2>2, ThreadsAre, ResultsAre DEF Ran, Current
  <2>4. QED
    BY <2>3
<1>3. CASE Close(k)
  <2>1. Ran(k, Free) /\ Free \in Thread
    BY <1>3, ThreadsAre DEF Close, Ran
  <2>2. QED
    BY <2>1
<1>4. CASE Outage(k)
  <2>1. PICK s \in {"closing", "broken"} :
            /\ thread[k].step # "free"
            /\ thread' = [thread EXCEPT ![k].step = s]
            /\ UNCHANGED <<row, item, limit, pc, todo, claimed, stopping>>
    BY <1>4 DEF Outage, At
  <2>2. Ran(k, to(s)) /\ to(s) \in Thread
    BY <2>1, ThreadsAre DEF Ran
  <2>3. QED
    BY <2>2
<1>5. QED
  BY <1>1, <1>2, <1>3, <1>4

(* The round cancels a row or queues a failed one again, and gives up an   *)
(* entry only when the thread behind it has ended.                         *)
Minded(t) ==
    /\ pc = "mind" /\ pc' \in {"mind", "idle"}
    /\ \/ UNCHANGED row
       \/ \E r \in Row : /\ row' = [row EXCEPT ![t] = r]
                         /\ RowInv(r)
                         /\ \/ row[t].st = "running" /\ r.st = "cancelled"
                            \/ row[t].st = "failed"
    /\ \/ UNCHANGED item
       \/ Finished(item[t].token) /\ item' = [item EXCEPT ![t] = NoItem]
    /\ limit' \in 0 .. Extract
    /\ UNCHANGED <<thread, claimed, stopping>>

LEMMA LimitsAre ==
    ASSUME TypeOK, TaskInv, NEW t \in Tasks, Adjusted(t)
    PROVE  /\ limit' \in 0 .. Extract
           /\ \/ UNCHANGED row
              \/ \E r \in Row : /\ row' = [row EXCEPT ![t] = r]
                                /\ RowInv(r) /\ row[t].st = "failed"
<1>1. /\ row[t] \in Row /\ RowInv(row[t]) /\ limit \in 0 .. Extract
      /\ Extract \in Nat \ {0}
  BY TasksAssumption DEF TypeOK, TaskInv, Extract
<1>2. CASE row[t].code = "oom"
  <2>1. PICK running \in 1 .. IF limit = 0 THEN Extract ELSE limit :
              /\ limit' = Lowered(running)
              /\ row' = IF row[t].attempts < MaxAttempts /\ running > 1
                        THEN [row EXCEPT ![t] = Queued(row[t])] ELSE row
    <3>1. \E running \in 1 .. IF limit = 0 THEN Extract ELSE limit :
              /\ limit' = Lowered(running)
              /\ row' = IF row[t].attempts < MaxAttempts /\ running > 1
                        THEN [row EXCEPT ![t] = Queued(@)] ELSE row
      BY <1>1, <1>2 DEF Adjusted, RowInv
    <3>2. [row EXCEPT ![t] = Queued(@)] = [row EXCEPT ![t] = Queued(row[t])]
      BY DEF TypeOK
    <3>3. QED
      BY <3>1, <3>2
  <2>2. running \in 1 .. Extract
    BY <1>1, <2>1
  <2>3. limit' \in 0 .. Extract
    BY <1>1, <2>1, <2>2 DEF Lowered
  <2>4. row[t].st = "failed"
    BY <1>1, <1>2 DEF RowInv
  <2>5. QED
    BY <1>1, <2>1, <2>3, <2>4, RowsAre, RowsKeepInv
<1>3. CASE row[t].code # "oom"
  <2>1. \/ limit' \in {limit, LeastOf(Extract, limit + 1)} /\ UNCHANGED row
        \/ UNCHANGED <<limit, row>>
    BY <1>3 DEF Adjusted
  <2>2. QED
    BY <1>1, <2>1 DEF LeastOf
<1>4. QED
  BY <1>2, <1>3

LEMMA RoundsMind ==
    ASSUME TypeOK, TaskInv, NEW t \in Tasks, Mind(t)
    PROVE  Minded(t)
<1>1. /\ pc = "mind" /\ pc' \in {"mind", "idle"}
      /\ UNCHANGED <<thread, claimed, stopping>>
  BY DEF Mind
<1>2. row[t] \in Row /\ limit \in 0 .. Extract
  BY DEF TypeOK
<1>3. CASE UNCHANGED <<row, item, limit>>
  BY <1>1, <1>2, <1>3 DEF Minded
<1>4. CASE /\ row[t].st = "running"
           /\ row' = [row EXCEPT ![t] = Ended(row[t], "cancelled")]
           /\ item' = IF Finished(item[t].token) THEN [item EXCEPT ![t] = NoItem] ELSE item
           /\ UNCHANGED limit
  BY <1>1, <1>2, <1>4, RowsAre, RowsKeepInv DEF Minded
<1>5. CASE /\ Finished(item[t].token) /\ Adjusted(t)
           /\ item' = [item EXCEPT ![t] = NoItem]
  BY <1>1, <1>5, LimitsAre DEF Minded
<1>6. QED
  BY <1>3, <1>4, <1>5 DEF Mind

(* The round takes a transfer on, and its task has succeeded when the      *)
(* transfer is done.                                                       *)
Resumed(t) ==
    /\ pc = "transfers" /\ pc' \in {"transfers", "dispatch"}
    /\ \/ UNCHANGED row
       \/ /\ row[t].st # "running" /\ transfer[t] = "done"
          /\ row' = [row EXCEPT ![t] = Ended(row[t], "succeeded")]
    /\ UNCHANGED <<thread, item, limit, claimed, stopping>>

LEMMA RoundsResume ==
    ASSUME TypeOK, NEW t \in Tasks, Resume(t)
    PROVE  Resumed(t) /\ Ended(row[t], "succeeded") \in Row
           /\ RowInv(Ended(row[t], "succeeded")) /\ Ended(row[t], "succeeded").st = "succeeded"
<1>1. row[t] \in Row
  BY DEF TypeOK
<1>2. /\ pc = "transfers" /\ pc' \in {"transfers", "dispatch"}
      /\ UNCHANGED <<thread, item, limit, claimed, stopping>>
  BY DEF Resume
<1>3. \/ UNCHANGED row
      \/ /\ row[t].st # "running" /\ transfer[t] = "done"
         /\ row' = [row EXCEPT ![t] = Ended(row[t], "succeeded")]
  BY DEF Resume
<1>4. QED
  BY <1>1, <1>2, <1>3, RowsAre, RowsKeepInv DEF Resumed

(* What is left: steps that touch neither rows nor threads nor entries,    *)
(* and the recovery, the claim, the hand-over and the crash.               *)
Quiet ==
    /\ UNCHANGED <<row, thread, item, limit, claimed>>
    /\ pc = "claimed" => pc' = "claimed"

LEMMA StepsAre ==
    ASSUME TypeOK, TaskInv, [Next]_vars
    PROVE  \/ \E t \in Tasks, r \in Row : Requested(t, r)
           \/ \E k \in Tokens, rec \in Thread : Ran(k, rec)
           \/ \E t \in Tasks : Minded(t) \/ Claim(t) \/ Submit(t) \/ Resume(t)
           \/ Recover \/ Crash \/ Quiet
<1>1. CASE Open \/ Dispatched \/ Stop \/ Reconfigure \/ Feedback \/ Replay \/ UNCHANGED vars
  BY <1>1 DEF Open, Dispatched, Stop, Reconfigure, Feedback, Replay, vars, volatile, Quiet
<1>2. CASE \E t \in Tasks : Enqueue(t) \/ RetryRequest(t) \/ ResetFailed(t)
  BY <1>2, RequestsAre
<1>3. CASE \E k \in Tokens : Executor(k) \/ Outage(k)
  <2>1. CASE \E k \in Tokens : Move(k)
    BY <2>1 DEF Move, volatile, Quiet
  <2>2. CASE \E k \in Tokens : Begin(k) \/ Work(k) \/ Close(k) \/ Outage(k)
    BY <2>2, ExecutorsRun
  <2>3. QED
    BY <1>3, <2>1, <2>2 DEF Executor
<1>4. CASE \E t \in Tasks : Mind(t)
  BY <1>4, RoundsMind
<1>5. CASE Recover \/ Crash \/ \E t \in Tasks : Claim(t) \/ Submit(t) \/ Resume(t)
  BY <1>5
<1>6. QED
  BY <1>1, <1>2, <1>3, <1>4, <1>5 DEF Next, Round

(***************************************************************************)
(* Types.                                                                  *)
(***************************************************************************)
LEMMA TypeStart == Init => TypeOK /\ TaskInv
<1> SUFFICES ASSUME Init PROVE TypeOK /\ TaskInv
  OBVIOUS
<1>1. Free \in Thread /\ Free.step = "free"
  <2>1. (CHOOSE t \in Tasks : TRUE) \in Tasks
    BY TasksAssumption
  <2>2. QED
    BY <2>1 DEF Free, Thread
<1>2. TypeOK
  <2>1. [st |-> "none", attempts |-> 0, token |-> 0, owner |-> "none", code |-> "none"] \in Row
    BY TasksAssumption DEF Row
  <2>2. NoItem \in Entry
    BY DEF Entry, NoItem
  <2>3. 0 \in 0 .. Extract /\ 0 \in 0 .. MaxTrouble
    BY TasksAssumption DEF Extract
  <2>4. QED
    BY <1>1, <2>1, <2>2, <2>3 DEF Init, TypeOK
<1>3. ListedInv
  <2>1. Listed = {}
    BY DEF Init, Listed, NoItem
  <2>2. \A t \in Tasks : ListedOf(t) = {}
    BY <2>1 DEF ListedOf
  <2>3. QED
    BY <2>1, <2>2, FS_EmptySet, TasksAssumption DEF ListedInv
<1>4. (\A t \in Tasks : RowInv(row[t])) /\ (\A k \in Tokens : ThreadInv(k))
  BY <1>1, TasksAssumption DEF Init, RowInv, ThreadInv, Working
<1>5. QED
  BY <1>2, <1>3, <1>4 DEF TaskInv, Init

LEMMA ControlAfter ==
    ASSUME TypeOK, [Next]_vars
    PROVE  /\ pc' \in {"idle", "mind", "transfers", "dispatch", "claimed"}
           /\ todo' \subseteq Tasks /\ claimed' \subseteq Tasks
           /\ stopping' \in BOOLEAN
           /\ transfer' \in [Tasks -> {"none", "open", "done", "conflict"}]
           /\ journal' \in BOOLEAN /\ config' \in {0, 1} /\ outage' \in BOOLEAN
           /\ trouble' \in 0 .. MaxTrouble
<1>1. Trouble => trouble' \in 0 .. MaxTrouble
  BY TasksAssumption DEF TypeOK, Trouble
<1>2. CASE Round
  <2>1. CASE Open \/ Recover \/ Dispatched
    BY <2>1 DEF TypeOK, Open, Recover, Dispatched, Listed, world
  <2>2. ASSUME NEW t \in Tasks, Mind(t)
        PROVE  pc' \in {"mind", "idle"} /\ todo' \subseteq Tasks /\ UNCHANGED <<claimed, stopping, transfer, world, trouble>>
    BY <2>2 DEF TypeOK, Mind
  <2>3. ASSUME NEW t \in Tasks, Claim(t) \/ Submit(t)
        PROVE  /\ pc' \in {"idle", "dispatch", "claimed"} /\ claimed' \subseteq Tasks
               /\ UNCHANGED <<todo, stopping, transfer, world, trouble>>
    BY <2>3 DEF TypeOK, Claim, Submit
  <2>4. ASSUME NEW t \in Tasks, Resume(t)
        PROVE  /\ pc' \in {"transfers", "dispatch"} /\ todo' \subseteq Tasks
               /\ transfer' \in [Tasks -> {"none", "open", "done", "conflict"}]
               /\ UNCHANGED <<claimed, stopping, world, trouble>>
    BY <2>4 DEF TypeOK, Resume
  <2>5. QED
    BY <1>2, <2>1, <2>2, <2>3, <2>4 DEF TypeOK, Round, world
<1>3. CASE \E k \in Tokens : Executor(k) \/ Outage(k)
  <2>1. CASE \E k \in Tokens : Move(k)
    BY <2>1 DEF TypeOK, Move, volatile, world
  <2>2. CASE \E k \in Tokens : Begin(k) \/ Work(k) \/ Close(k) \/ Outage(k)
    BY <1>1, <2>2 DEF TypeOK, Begin, Work, Close, Outage, world
  <2>3. QED
    BY <1>3, <2>1, <2>2 DEF Executor
<1>4. CASE \E t \in Tasks : Enqueue(t) \/ RetryRequest(t) \/ ResetFailed(t)
  BY <1>1, <1>4 DEF TypeOK, Enqueue, RetryRequest, ResetFailed, volatile, world
<1>5. CASE Stop \/ Crash \/ Reconfigure \/ Feedback \/ Replay \/ UNCHANGED vars
  <2>1. CASE Crash
    <3>1. trouble' \in 0 .. MaxTrouble
      BY <1>1, <2>1 DEF Crash, TypeOK
    <3>2. QED
      BY <2>1, <3>1 DEF Crash, TypeOK, world
  <2>2. CASE Stop
    BY <1>1, <2>2 DEF TypeOK, Stop, world
  <2>3. CASE Reconfigure
    BY <1>1, <2>3 DEF TypeOK, Reconfigure, volatile
  <2>4. CASE Feedback \/ Replay
    BY <1>1, <2>4 DEF TypeOK, Feedback, Replay, volatile
  <2>5. CASE UNCHANGED vars
    BY <2>5 DEF TypeOK, vars, volatile, world
  <2>6. QED
    BY <1>5, <2>1, <2>2, <2>3, <2>4, <2>5
<1>6. QED
  BY <1>2, <1>3, <1>4, <1>5 DEF Next

(* A row at the claim, and at the hand-over.                               *)
LEMMA ClaimIs ==
    ASSUME TypeOK, TaskInv, NEW t \in Tasks, Claim(t)
    PROVE  /\ row[t].st = "queued" /\ Room(t)
           /\ pc' = "claimed" /\ claimed' = {t}
           /\ UNCHANGED <<thread, item, limit>>
           /\ \E k \in Tokens, r \in Row :
                /\ Unused(k)
                /\ row' = [row EXCEPT ![t] = r]
                /\ r.st = "running" /\ r.token = k /\ RowInv(r)
<1>1. /\ row[t].st = "queued" /\ Room(t)
      /\ pc' = "claimed" /\ claimed' = {t}
      /\ UNCHANGED <<thread, item, limit>>
  BY DEF Claim, Claimable
<1>2. PICK k \in Tokens :
        /\ Unused(k)
        /\ row' = [row EXCEPT ![t].st = "running", ![t].token = k, ![t].attempts = @ + 1]
  BY DEF Claim
<1> DEFINE r == [row[t] EXCEPT !.st = "running", !.token = k, !.attempts = @ + 1]
<1>3. row[t] \in Row /\ RowInv(row[t])
  BY DEF TypeOK, TaskInv
<1>4. row' = [row EXCEPT ![t] = r]
  BY <1>2 DEF TypeOK
<1>5. row[t].attempts + 1 \in 0 .. MaxAttempts /\ row[t].attempts + 1 > 0
  BY <1>1, <1>3, TasksAssumption DEF Row, RowInv
<1>6. r \in Row /\ r.st = "running" /\ r.token = k /\ RowInv(r)
  BY <1>1, <1>3, <1>5 DEF Row, RowInv
<1>7. QED
  BY <1>1, <1>2, <1>4, <1>6

LEMMA SubmitIs ==
    ASSUME TypeOK, TaskInv, NEW t \in Tasks, Submit(t)
    PROVE  /\ ClaimInv(t) /\ claimed' = {} /\ pc' # "claimed" /\ UNCHANGED limit
           /\ \E r \in Row :
                /\ row' = [row EXCEPT ![t] = r] /\ RowInv(r)
                /\ \/ r.st = "queued" /\ UNCHANGED <<thread, item>>
                   \/ /\ r.st = "running" /\ r.owner = "live" /\ r.token = row[t].token
                      /\ thread' = [thread EXCEPT ![row[t].token] = [on |-> t, step |-> "waiting"]]
                      /\ item' = [item EXCEPT ![t] = [token |-> row[t].token, cfg |-> config]]
<1>1. ClaimInv(t) /\ claimed' = {} /\ pc' # "claimed" /\ UNCHANGED limit
  BY DEF Submit, TaskInv
<1>2. row[t] \in Row /\ RowInv(row[t]) /\ row[t].st = "running"
  BY <1>1 DEF TypeOK, TaskInv, ClaimInv
<1>3. CASE stopping
  <2> DEFINE r == [Afresh(row[t]) EXCEPT !.attempts = row[t].attempts - 1]
  <2>1. row' = [row EXCEPT ![t] = r] /\ UNCHANGED <<thread, item>>
    <3>1. Afresh(row[t]).attempts = row[t].attempts
      BY <1>2, RowsAre
    <3>2. row' = [row EXCEPT ![t] = [Afresh(row[t]) EXCEPT !.attempts = @ - 1]] /\ UNCHANGED <<thread, item>>
      BY <1>3 DEF Submit
    <3>3. [Afresh(row[t]) EXCEPT !.attempts = @ - 1] = r
      BY <3>1
    <3>4. QED
      BY <3>2, <3>3
  <2>2. /\ row[t].attempts - 1 \in 0 .. MaxAttempts /\ row[t].attempts - 1 < MaxAttempts
    BY <1>2, TasksAssumption DEF Row, RowInv
  <2>3. Afresh(row[t]) \in Row /\ Afresh(row[t]).st = "queued" /\ Afresh(row[t]).code = "none"
    BY <1>2, RowsAre
  <2>4. r \in Row /\ r.st = "queued" /\ RowInv(r)
    BY <2>2, <2>3 DEF Row, RowInv
  <2>5. QED
    BY <1>1, <2>1, <2>4
<1>4. CASE ~stopping
  <2> DEFINE r == [row[t] EXCEPT !.owner = "live"]
  <2>1. /\ row' = [row EXCEPT ![t] = r]
        /\ thread' = [thread EXCEPT ![row[t].token] = [on |-> t, step |-> "waiting"]]
        /\ item' = [item EXCEPT ![t] = [token |-> row[t].token, cfg |-> config]]
    BY <1>4 DEF Submit, TypeOK
  <2>2. r \in Row /\ r.st = "running" /\ r.owner = "live" /\ r.token = row[t].token /\ RowInv(r)
    BY <1>2 DEF Row, RowInv
  <2>3. QED
    BY <1>1, <2>1, <2>2
<1>5. QED
  BY <1>3, <1>4

LEMMA TypeStep == ASSUME TypeOK, TaskInv, [Next]_vars PROVE TypeOK'
<1> USE DEF TypeOK
<1>1. SUFFICES /\ row' \in [Tasks -> Row] /\ thread' \in [Tokens -> Thread]
               /\ item' \in [Tasks -> Entry] /\ limit' \in 0 .. Extract
  BY ControlAfter
<1>2. NoItem \in Entry
  BY DEF NoItem, Entry
<1>3. CASE \E t \in Tasks, r \in Row : Requested(t, r)
  BY <1>3 DEF Requested, volatile
<1>4. CASE \E k \in Tokens, rec \in Thread : Ran(k, rec)
  BY <1>4, ThreadsAre DEF Ran
<1>5. CASE \E t \in Tasks : Minded(t)
  BY <1>2, <1>5 DEF Minded
<1>6. CASE \E t \in Tasks : Claim(t)
  BY <1>6, ClaimIs
<1>7. ASSUME NEW t \in Tasks, Submit(t)
      PROVE  /\ row' \in [Tasks -> Row] /\ thread' \in [Tokens -> Thread]
             /\ item' \in [Tasks -> Entry] /\ limit' \in 0 .. Extract
  <2>1. /\ row[t].token \in Tokens
        /\ [on |-> t, step |-> "waiting"] \in Thread
        /\ [token |-> row[t].token, cfg |-> config] \in Entry
    BY <1>7, SubmitIs DEF ClaimInv, Thread, Entry
  <2>2. QED
    BY <1>7, <2>1, SubmitIs
<1>8. CASE Recover
  <2>1. \A t \in Tasks : Failed(row[t], "other") \in Row
    BY RowsAre DEF Codes
  <2>2. QED
    BY <1>8, <2>1 DEF Recover
<1>9. CASE Crash
  <2>1. \A t \in Tasks : [row[t] EXCEPT !.owner = IF @ = "live" THEN "dead" ELSE @] \in Row
    BY DEF Row
  <2>2. \A k \in Tokens : [thread[k] EXCEPT !.step = "free"] \in Thread
    BY ThreadsAre
  <2>3. 0 \in 0 .. Extract
    BY TasksAssumption DEF Extract
  <2>4. QED
    BY <1>2, <1>9, <2>1, <2>2, <2>3 DEF Crash
<1>10. CASE Quiet
  BY <1>10 DEF Quiet
<1>11. ASSUME NEW t \in Tasks, Resume(t)
       PROVE  /\ row' \in [Tasks -> Row] /\ thread' \in [Tokens -> Thread]
              /\ item' \in [Tasks -> Entry] /\ limit' \in 0 .. Extract
  BY <1>11, RoundsResume DEF Resumed
<1>12. QED
  BY <1>3, <1>4, <1>5, <1>6, <1>7, <1>8, <1>9, <1>10, <1>11, StepsAre

(***************************************************************************)
(* The parts of the invariant, one after the other.                        *)
(***************************************************************************)
LEMMA RowsStep ==
    ASSUME TypeOK, TaskInv, [Next]_vars
    PROVE  \A t \in Tasks : RowInv(row'[t])
<1>1. row \in [Tasks -> Row] /\ \A t \in Tasks : RowInv(row[t])
  BY DEF TypeOK, TaskInv
<1>2. CASE \/ UNCHANGED row
           \/ \E t \in Tasks, r \in Row : row' = [row EXCEPT ![t] = r] /\ RowInv(r)
  BY <1>1, <1>2
<1>3. CASE Recover
  <2>1. \A t \in Tasks : RowInv(Failed(row[t], "other"))
    BY <1>1, RowsKeepInv DEF Codes
  <2>2. QED
    BY <1>1, <1>3, <2>1 DEF Recover
<1>4. CASE Crash
  <2>1. \A t \in Tasks : RowInv([row[t] EXCEPT !.owner = IF @ = "live" THEN "dead" ELSE @])
    BY <1>1 DEF RowInv, Row
  <2>2. QED
    BY <1>1, <1>4, <2>1 DEF Crash
<1>5. CASE \E t \in Tasks : Claim(t) \/ Submit(t)
  BY <1>2, <1>5, ClaimIs, SubmitIs
<1>6. CASE \E t \in Tasks, r \in Row : Requested(t, r)
  BY <1>2, <1>6 DEF Requested
<1>7. CASE \E k \in Tokens, rec \in Thread : Ran(k, rec)
  BY <1>2, <1>7, ThreadsAre DEF Ran
<1>8. CASE \E t \in Tasks : Minded(t)
  BY <1>2, <1>8 DEF Minded
<1>9. CASE Quiet
  BY <1>2, <1>9 DEF Quiet
<1>10. CASE \E t \in Tasks : Resume(t)
  BY <1>2, <1>10, RoundsResume DEF Resumed
<1>11. QED
  BY <1>3, <1>4, <1>5, <1>6, <1>7, <1>8, <1>9, <1>10, StepsAre

LEMMA ThreadsStep ==
    ASSUME TypeOK, TaskInv, [Next]_vars
    PROVE  \A k \in Tokens : ThreadInv(k)'
<1>1. SUFFICES ASSUME NEW k \in Tokens, Working(k)'
               PROVE  /\ item'[thread'[k].on].token = k
                      /\ \/ Over(row'[thread'[k].on])
                         \/ Current(k)' /\ row'[thread'[k].on].owner = "live"
  BY DEF ThreadInv
<1> DEFINE u == thread[k].on
<1>t. /\ row \in [Tasks -> Row] /\ thread \in [Tokens -> Thread] /\ item \in [Tasks -> Entry]
      /\ u \in Tasks
  BY ThreadsAre DEF TypeOK
<1>i. Working(k) =>
        /\ item[u].token = k
        /\ \/ Over(row[u])
           \/ row[u].st = "running" /\ row[u].token = k /\ row[u].owner = "live"
  BY DEF TaskInv, ThreadInv, Current
<1>s. ASSUME Working(k), thread'[k].on = u, item'[u].token = item[u].token,
             row'[u] = row[u] \/ Over(row'[u])
      PROVE  /\ item'[thread'[k].on].token = k
             /\ \/ Over(row'[thread'[k].on])
                \/ Current(k)' /\ row'[thread'[k].on].owner = "live"
  BY <1>i, <1>s DEF Current
<1>2. CASE Quiet
  BY <1>1, <1>2, <1>s DEF Quiet, Working
<1>3. ASSUME NEW t \in Tasks, NEW r \in Row, Requested(t, r)
      PROVE  Working(k) /\ thread'[k].on = u /\ item'[u].token = item[u].token /\ row'[u] = row[u]
  <2>1. Working(k) /\ UNCHANGED <<thread, item>>
    BY <1>1, <1>3 DEF Requested, volatile, Working
  <2>2. u # t
    BY <1>i, <1>3, <2>1 DEF Requested, Over
  <2>3. QED
    BY <1>t, <1>3, <2>1, <2>2 DEF Requested
<1>4. ASSUME NEW j \in Tokens, NEW rec \in Thread, Ran(j, rec)
      PROVE  Working(k) /\ thread'[k].on = u /\ item'[u].token = item[u].token /\ row'[u] = row[u]
  <2>1. CASE k = j
    <3>1. thread'[k] = rec
      BY <1>t, <1>4, <2>1 DEF Ran
    <3>2. Working(k) /\ rec.on = u /\ UNCHANGED <<row, item>>
      BY <1>1, <1>4, <2>1, <3>1 DEF Ran, Working
    <3>3. QED
      BY <3>1, <3>2
  <2>2. CASE k # j
    <3>1. thread'[k] = thread[k] /\ Working(k) /\ UNCHANGED item
      BY <1>1, <1>t, <1>4, <2>2 DEF Ran, Working
    <3>2. Working(j) => thread[j].on # u
      BY <1>i, <2>2, <3>1 DEF TaskInv, ThreadInv
    <3>3. row'[u] = row[u]
      BY <1>t, <1>4, <3>2 DEF Ran
    <3>4. QED
      BY <3>1, <3>3
  <2>3. QED
    BY <2>1, <2>2
<1>5. ASSUME NEW t \in Tasks, Minded(t)
      PROVE  /\ Working(k) /\ thread'[k].on = u /\ item'[u].token = item[u].token
             /\ row'[u] = row[u] \/ Over(row'[u])
  <2>1. Working(k) /\ UNCHANGED thread
    BY <1>1, <1>5 DEF Minded, Working
  <2>2. ~Finished(k) /\ item[u].token = k
    BY <1>i, <2>1 DEF Working, Finished
  <2>3. item'[u].token = item[u].token
    BY <1>t, <1>5, <2>2 DEF Minded
  <2>4. row[u].st # "failed"
    BY <1>i, <2>1 DEF Over
  <2>5. row'[u] = row[u] \/ Over(row'[u])
    BY <1>t, <1>5, <2>4 DEF Minded, Over
  <2>6. QED
    BY <2>1, <2>3, <2>5
<1>6. ASSUME NEW t \in Tasks, Claim(t)
      PROVE  Working(k) /\ thread'[k].on = u /\ item'[u].token = item[u].token /\ row'[u] = row[u]
  <2>1. Working(k) /\ UNCHANGED <<thread, item>> /\ row[t].st = "queued"
    BY <1>1, <1>6, ClaimIs DEF Working
  <2>2. u # t
    BY <1>i, <2>1 DEF Over
  <2>3. QED
    BY <1>t, <1>6, <2>1, <2>2, ClaimIs
<1>7. ASSUME NEW t \in Tasks, Submit(t)
      PROVE  /\ item'[thread'[k].on].token = k
             /\ \/ Over(row'[thread'[k].on])
                \/ Current(k)' /\ row'[thread'[k].on].owner = "live"
  <2>1. ClaimInv(t)
    BY <1>7, SubmitIs
  <2>2. PICK r \in Row :
            /\ row' = [row EXCEPT ![t] = r]
            /\ \/ r.st = "queued" /\ UNCHANGED <<thread, item>>
               \/ /\ r.st = "running" /\ r.owner = "live" /\ r.token = row[t].token
                  /\ thread' = [thread EXCEPT ![row[t].token] = [on |-> t, step |-> "waiting"]]
                  /\ item' = [item EXCEPT ![t] = [token |-> row[t].token, cfg |-> config]]
    BY <1>7, SubmitIs
  <2>3. Working(k) => u # t
    BY <1>i, <2>1 DEF ClaimInv, Working, Over
  <2>4. CASE Working(k)
    <3>1. k # row[t].token
      BY <2>1, <2>4 DEF ClaimInv, Working
    <3>2. thread'[k] = thread[k] /\ item'[u] = item[u] /\ row'[u] = row[u]
      BY <1>t, <2>2, <2>3, <2>4, <3>1
    <3>3. QED
      BY <1>s, <2>4, <3>2
  <2>5. CASE ~Working(k)
    <3>1. k = row[t].token /\ r.st = "running" /\ r.owner = "live" /\ r.token = row[t].token
          /\ thread' = [thread EXCEPT ![row[t].token] = [on |-> t, step |-> "waiting"]]
          /\ item' = [item EXCEPT ![t] = [token |-> row[t].token, cfg |-> config]]
      BY <1>1, <1>t, <2>2, <2>5 DEF Working
    <3>2. thread'[k].on = t /\ item'[t].token = k /\ row'[t] = r
      BY <1>t, <2>2, <3>1
    <3>3. QED
      BY <3>1, <3>2 DEF Current
  <2>6. QED
    BY <2>4, <2>5
<1>8. ASSUME Recover
      PROVE  Working(k) /\ thread'[k].on = u /\ item'[u].token = item[u].token /\ row'[u] = row[u]
  <2>1. Working(k) /\ UNCHANGED <<thread, item>>
    BY <1>1, <1>8 DEF Recover, Working
  <2>2. ~Orphan(u)
    BY <1>i, <2>1 DEF Orphan, Over
  <2>3. QED
    BY <1>t, <1>8, <2>1, <2>2 DEF Recover
<1>9. ASSUME Crash
      PROVE  FALSE
  <2>1. thread'[k].step = "free"
    BY <1>t, <1>9 DEF Crash, Thread
  <2>2. QED
    BY <1>1, <2>1 DEF Working
<1>10. ASSUME NEW t \in Tasks, Resume(t)
       PROVE  /\ Working(k) /\ thread'[k].on = u /\ item'[u].token = item[u].token
              /\ row'[u] = row[u] \/ Over(row'[u])
  <2>1. Working(k) /\ UNCHANGED <<thread, item>>
    BY <1>1, <1>10, RoundsResume DEF Resumed, Working
  <2>2. row'[u] = row[u] \/ Over(row'[u])
    BY <1>t, <1>10, RoundsResume DEF Resumed, Over
  <2>3. QED
    BY <2>1, <2>2
<1>11. QED
  BY <1>2, <1>3, <1>4, <1>5, <1>6, <1>7, <1>8, <1>9, <1>10, <1>s, StepsAre

LEMMA ClaimsStep ==
    ASSUME TypeOK, TaskInv, [Next]_vars
    PROVE  \A t \in claimed' : ClaimInv(t)'
<1>1. SUFFICES ASSUME NEW t \in claimed' PROVE ClaimInv(t)'
  OBVIOUS
<1>t. /\ row \in [Tasks -> Row] /\ thread \in [Tokens -> Thread] /\ claimed \subseteq Tasks
  BY DEF TypeOK
<1>r. UNCHANGED item => (Room(t)' <=> Room(t))
  BY DEF Room, Listed
<1>s. ASSUME t \in claimed, pc' = pc, UNCHANGED item, row'[t] = row[t],
             thread'[row[t].token] = thread[row[t].token]
      PROVE  ClaimInv(t)'
  BY <1>r, <1>s DEF ClaimInv, TaskInv
<1>i. t \in claimed => ClaimInv(t) /\ t \in Tasks
  BY <1>t DEF TaskInv
<1>2. CASE Quiet
  BY <1>1, <1>2, <1>i, <1>s DEF Quiet, ClaimInv
<1>3. ASSUME NEW u \in Tasks, NEW r \in Row, Requested(u, r)
      PROVE  ClaimInv(t)'
  <2>1. t \in claimed /\ pc' = pc /\ UNCHANGED <<thread, item>>
    BY <1>1, <1>3 DEF Requested, volatile
  <2>2. t # u
    BY <1>3, <1>i, <2>1 DEF Requested, ClaimInv
  <2>3. row'[t] = row[t]
    BY <1>t, <1>3, <1>i, <2>1, <2>2 DEF Requested
  <2>4. QED
    BY <1>s, <2>1, <2>3
<1>4. ASSUME NEW j \in Tokens, NEW rec \in Thread, Ran(j, rec)
      PROVE  ClaimInv(t)'
  <2>1. t \in claimed /\ pc' = pc /\ UNCHANGED item
    BY <1>1, <1>4 DEF Ran
  <2>2. j # row[t].token
    BY <1>4, <1>i, <2>1 DEF Ran, ClaimInv
  <2>3. thread'[row[t].token] = thread[row[t].token]
    BY <1>t, <1>4, <1>i, <2>1, <2>2 DEF Ran, ClaimInv
  <2>4. row'[t] = row[t]
    BY <1>t, <1>4, <1>i, <2>1, <2>2, ThreadsAre DEF Ran, Current
  <2>5. QED
    BY <1>s, <2>1, <2>3, <2>4
<1>5. ASSUME NEW u \in Tasks, Minded(u) PROVE ClaimInv(t)'
  BY <1>1, <1>5, <1>i DEF Minded, ClaimInv
<1>6. ASSUME NEW u \in Tasks, Claim(u) PROVE ClaimInv(t)'
  <2>1. t = u /\ Room(t) /\ pc' = "claimed" /\ UNCHANGED <<thread, item>>
    BY <1>1, <1>6, ClaimIs
  <2>2. PICK k \in Tokens, r \in Row :
            /\ Unused(k) /\ row' = [row EXCEPT ![u] = r]
            /\ r.st = "running" /\ r.token = k
    BY <1>6, ClaimIs
  <2>3. row'[t] = r /\ thread'[k].step = "free"
    BY <1>t, <2>1, <2>2 DEF Unused
  <2>4. QED
    BY <1>r, <2>1, <2>2, <2>3 DEF ClaimInv
<1>7. ASSUME NEW u \in Tasks, Submit(u) PROVE FALSE
  BY <1>1, <1>7, SubmitIs
<1>8. CASE Recover
  BY <1>1, <1>8, <1>i DEF Recover, ClaimInv
<1>9. CASE Crash
  BY <1>1, <1>9 DEF Crash
<1>10. ASSUME NEW u \in Tasks, Resume(u) PROVE ClaimInv(t)'
  BY <1>1, <1>10, <1>i, RoundsResume DEF Resumed, ClaimInv
<1>11. QED
  BY <1>2, <1>3, <1>4, <1>5, <1>6, <1>7, <1>8, <1>9, <1>10, StepsAre

(* What is listed can only shrink, or grow by one task that has room.      *)
LEMMA ListedShrinks ==
    ASSUME TypeOK, TaskInv, Listed' \subseteq Listed
    PROVE  ListedInv'
<1>1. IsFiniteSet(Listed)
  BY DEF TaskInv, ListedInv
<1>2. IsFiniteSet(Listed')
  BY <1>1, FS_Subset
<1>3. ASSUME NEW t \in Tasks PROVE Cardinality(ListedOf(t)') <= Capacity[Kind[t]]
  <2>1. ListedOf(t)' \subseteq ListedOf(t) /\ ListedOf(t) \subseteq Listed
    BY DEF ListedOf
  <2>2. /\ IsFiniteSet(ListedOf(t)) /\ IsFiniteSet(ListedOf(t)')
        /\ Cardinality(ListedOf(t)') <= Cardinality(ListedOf(t))
        /\ Cardinality(ListedOf(t)) \in Nat /\ Cardinality(ListedOf(t)') \in Nat
    BY <1>1, <2>1, FS_Subset, FS_CardinalityType
  <2>3. QED
    BY <2>2, TasksAssumption DEF TaskInv, ListedInv
<1>4. QED
  BY <1>2, <1>3 DEF ListedInv

LEMMA ListedGrows ==
    ASSUME TypeOK, TaskInv, NEW t \in Tasks, Room(t), Listed' = Listed \cup {t}
    PROVE  ListedInv'
<1>1. IsFiniteSet(Listed)
  BY DEF TaskInv, ListedInv
<1>2. IsFiniteSet(Listed')
  BY <1>1, FS_AddElement
<1>3. ASSUME NEW u \in Tasks PROVE Cardinality(ListedOf(u)') <= Capacity[Kind[u]]
  <2>1. IsFiniteSet(ListedOf(u)) /\ Cardinality(ListedOf(u)) \in Nat
    <3>1. ListedOf(u) \subseteq Listed
      BY DEF ListedOf
    <3>2. QED
      BY <1>1, <3>1, FS_Subset, FS_CardinalityType
  <2>2. CASE Kind[u] # Kind[t]
    <3>1. ListedOf(u)' = ListedOf(u)
      BY <2>2 DEF ListedOf
    <3>2. QED
      BY <3>1 DEF TaskInv, ListedInv
  <2>3. CASE Kind[u] = Kind[t]
    <3>1. ListedOf(u)' = ListedOf(u) \cup {t}
      BY <2>3 DEF ListedOf
    <3>2. Cardinality(ListedOf(u)) < Capacity[Kind[u]]
      BY <2>3 DEF Room, ListedOf
    <3>3. \/ Cardinality(ListedOf(u) \cup {t}) = Cardinality(ListedOf(u))
          \/ Cardinality(ListedOf(u) \cup {t}) = Cardinality(ListedOf(u)) + 1
      BY <2>1, FS_AddElement
    <3>4. QED
      BY <2>1, <3>1, <3>2, <3>3, TasksAssumption
  <2>4. QED
    BY <2>2, <2>3
<1>4. QED
  BY <1>2, <1>3 DEF ListedInv

LEMMA ListedStep == ASSUME TypeOK, TaskInv, [Next]_vars PROVE ListedInv'
<1>t. item \in [Tasks -> Entry]
  BY DEF TypeOK
<1>1. CASE UNCHANGED item
  BY <1>1, ListedShrinks DEF Listed
<1>2. CASE \E t \in Tasks : item' = [item EXCEPT ![t] = NoItem]
  <2>1. Listed' \subseteq Listed
    BY <1>t, <1>2 DEF Listed, NoItem
  <2>2. QED
    BY <2>1, ListedShrinks
<1>3. ASSUME NEW t \in Tasks, Submit(t) PROVE ListedInv'
  <2>1. ClaimInv(t)
    BY <1>3, SubmitIs
  <2>2. CASE item' = [item EXCEPT ![t] = [token |-> row[t].token, cfg |-> config]]
    <3>1. row[t].token # 0
      BY <2>1, TasksAssumption DEF ClaimInv
    <3>2. Listed' = Listed \cup {t}
      BY <1>t, <2>2, <3>1 DEF Listed
    <3>3. QED
      BY <2>1, <3>2, ListedGrows DEF ClaimInv
  <2>3. QED
    BY <1>1, <1>3, <2>2, SubmitIs
<1>4. CASE Crash
  <2>1. Listed' \subseteq Listed
    BY <1>4 DEF Crash, Listed, NoItem
  <2>2. QED
    BY <2>1, ListedShrinks
<1>5. CASE Quiet \/ Recover \/ \E t \in Tasks : Claim(t) \/ Resume(t)
  BY <1>1, <1>5, ClaimIs, RoundsResume DEF Quiet, Recover, Resumed
<1>6. CASE \E t \in Tasks, r \in Row : Requested(t, r)
  BY <1>1, <1>6 DEF Requested, volatile
<1>7. CASE \E k \in Tokens, rec \in Thread : Ran(k, rec)
  BY <1>1, <1>7 DEF Ran
<1>8. CASE \E t \in Tasks : Minded(t)
  BY <1>1, <1>2, <1>8 DEF Minded
<1>9. QED
  BY <1>3, <1>4, <1>5, <1>6, <1>7, <1>8, StepsAre

(***************************************************************************)
(* The invariant and the types need each other: an attempt is added only   *)
(* where one is left.  Together they hold in every behaviour.              *)
(***************************************************************************)
THEOREM InvariantsHold == Spec => [](TypeOK /\ TaskInv)
<1>1. TypeOK /\ TaskInv /\ [Next]_vars => TypeOK' /\ TaskInv'
  <2> SUFFICES ASSUME TypeOK, TaskInv, [Next]_vars PROVE TypeOK' /\ TaskInv'
    OBVIOUS
  <2>1. TaskInv'
    BY RowsStep, ThreadsStep, ClaimsStep, ListedStep DEF TaskInv
  <2>2. QED
    BY <2>1, TypeStep
<1>2. QED
  BY <1>1, TypeStart, PTL DEF Spec

(* Every variable keeps its type: attempts stay within MaxAttempts and the *)
(* admission limit within the extraction capacity.                         *)
THEOREM TypeCorrect == Spec => []TypeOK
BY InvariantsHold, PTL

(***************************************************************************)
(* The threads at work are the ones _running knows, each for a task of its *)
(* own, so no kind has more of them than its capacity.                     *)
(***************************************************************************)
THEOREM CapacityIsKept == Spec => []CapacityKept
<1>1. TypeOK /\ TaskInv => CapacityKept
  <2> SUFFICES ASSUME TypeOK, TaskInv PROVE CapacityKept
    OBVIOUS
  <2>1. \A k \in Tokens : Working(k) => item[thread[k].on].token = k
    BY DEF TaskInv, ThreadInv
  <2>2. ASSUME NEW t \in Tasks
        PROVE  Cardinality({k \in Tokens : Working(k) /\ Kind[thread[k].on] = Kind[t]}) <= Capacity[Kind[t]]
    <3> DEFINE busy == {k \in Tokens : Working(k) /\ Kind[thread[k].on] = Kind[t]}
               f == [k \in busy |-> thread[k].on]
    <3>1. ASSUME NEW k \in busy PROVE thread[k].on \in ListedOf(t)
      <4>1. k # 0 /\ thread[k].on \in Tasks
        BY TasksAssumption, ThreadsAre
      <4>2. QED
        BY <2>1, <4>1 DEF ListedOf, Listed
    <3>2. f \in Injection(busy, ListedOf(t))
      <4>1. f \in [busy -> ListedOf(t)]
        BY <3>1
      <4>2. \A j, k \in busy : f[j] = f[k] => j = k
        BY <2>1
      <4>3. QED
        BY <4>1, <4>2 DEF Injection, IsInjective
    <3>3. IsFiniteSet(ListedOf(t)) /\ Cardinality(ListedOf(t)) <= Capacity[Kind[t]]
      <4>1. ListedOf(t) \subseteq Listed
        BY DEF ListedOf
      <4>2. QED
        BY <4>1, FS_Subset DEF TaskInv, ListedInv
    <3>4. IsFiniteSet(busy) /\ Cardinality(busy) <= Cardinality(ListedOf(t))
      BY <3>2, <3>3, FS_Injection
    <3>5. Cardinality(busy) \in Nat /\ Cardinality(ListedOf(t)) \in Nat
      BY <3>3, <3>4, FS_CardinalityType
    <3>6. QED
      BY <3>3, <3>4, <3>5, TasksAssumption
  <2>3. QED
    BY <2>1, <2>2 DEF CapacityKept
<1>2. QED
  BY <1>1, InvariantsHold, PTL

(***************************************************************************)
(* What succeeded stays so, and what was cancelled too but for the round   *)
(* that finds its transfer done.                                           *)
(***************************************************************************)
THEOREM EndedIsFinal == Spec => EndedStaysEnded
<1> DEFINE Kept(t) == row'[t].st = row[t].st
           Finishes(t) == pc = "transfers" /\ transfer[t] = "done" /\ row'[t].st = "succeeded"
<1>1. ASSUME TypeOK, TaskInv, [Next]_vars, NEW t \in Tasks, Over(row[t])
      PROVE  Kept(t) \/ Finishes(t)
  <2>t. row \in [Tasks -> Row]
    BY <1>1 DEF TypeOK
  <2>1. CASE \E u \in Tasks, r \in Row : row' = [row EXCEPT ![u] = r] /\ ~Over(row[u])
    BY <1>1, <2>t, <2>1
  <2>2. CASE UNCHANGED row
    BY <2>2
  <2>3. CASE \E u \in Tasks : Claim(u) \/ Submit(u)
    BY <1>1, <2>1, <2>3, ClaimIs, SubmitIs DEF ClaimInv, Over
  <2>4. CASE \E u \in Tasks, r \in Row : Requested(u, r)
    BY <2>1, <2>4 DEF Requested, Over
  <2>5. CASE \E k \in Tokens, rec \in Thread : Ran(k, rec)
    BY <1>1, <2>1, <2>2, <2>5, ThreadsAre DEF Ran, Current, Over
  <2>6. CASE \E u \in Tasks : Minded(u)
    BY <2>1, <2>2, <2>6 DEF Minded, Over
  <2>7. CASE Recover
    BY <1>1, <2>t, <2>7 DEF Recover, Orphan, Over
  <2>8. CASE Crash
    BY <1>1, <2>t, <2>8 DEF Crash, Row
  <2>9. CASE Quiet
    BY <2>2, <2>9 DEF Quiet
  <2>10. ASSUME NEW u \in Tasks, Resume(u) PROVE Kept(t) \/ Finishes(t)
    BY <1>1, <2>t, <2>10, RoundsResume DEF Resumed
  <2>11. QED
    BY <1>1, <2>3, <2>4, <2>5, <2>6, <2>7, <2>8, <2>9, <2>10, StepsAre
<1>2. ASSUME TypeOK, TaskInv, [Next]_vars, NEW t \in Tasks
      PROVE  /\ row[t].st = "succeeded" => row'[t].st = "succeeded"
             /\ row[t].st = "cancelled" => row'[t].st = "cancelled" \/ Finishes(t)
  BY <1>1, <1>2 DEF Over
<1>3. TypeOK /\ TaskInv /\ [Next]_vars =>
        [\A t \in Tasks :
           /\ row[t].st = "succeeded" => row'[t].st = "succeeded"
           /\ row[t].st = "cancelled" =>
                 \/ row'[t].st = "cancelled"
                 \/ pc = "transfers" /\ transfer[t] = "done" /\ row'[t].st = "succeeded"]_vars
  BY <1>2
<1>4. QED
  BY <1>3, InvariantsHold, PTL DEF Spec, EndedStaysEnded
=============================================================================
