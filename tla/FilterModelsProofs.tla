-------------------------- MODULE FilterModelsProofs --------------------------
(***************************************************************************)
(* Models, predictions and feedback of one group, for any assets, kinds,   *)
(* executors and sessions: what a model has learned stays true or is       *)
(* flagged, predictions are written only of what is current, and the row   *)
(* locks never close a circle.                                             *)
(***************************************************************************)
EXTENDS FilterModels, TLAPS, FiniteSetTheorems, SequenceTheorems, WellFoundedInduction

(***************************************************************************)
(* Row locks: exclusive unless two predictions share a model, and taken in *)
(* the order of the rows.                                                  *)
(***************************************************************************)
Exclusive ==
    \A x, y \in Actors : \A r \in held[x] \cap held[y] : x = y \/ Shared(x, y, r)
Ordered ==
    \A x \in Actors : \A r \in held[x], q \in want[x] : r < q
LocksInv == Exclusive /\ Ordered

Locks(x) == held[x] \cup want[x]
NoLocks(x) == held[x] = {} /\ want[x] = {}

(***************************************************************************)
(* What each transaction has locked, and knows by its locks.               *)
(***************************************************************************)
(* A feedback that changes the label has, or waits for, every active model *)
(* that learned from the asset.                                            *)
VoterInv(v) ==
    LET a == vote[v].a IN
    /\ vote[v].pc = "idle" => NoLocks(v)
    /\ vote[v].pc = "asset" => Locks(v) = {a}
    /\ vote[v].pc = "models" =>
          /\ a \in held[v]
          /\ \A m \in Affected(a, vote[v].label) : ModelRow(m) \in Locks(v)

(* A prediction holds the asset at the revision it is about, and at last   *)
(* the models it used, which serve.                                        *)
RunnerInv(r) ==
    LET i == run[r].on IN
    /\ run[r].pc \in {"idle", "start", "work", "save", "score"} => NoLocks(r)
    /\ run[r].pc = "assets" => Locks(r) \subseteq Assets /\ i.a \in Locks(r)
    /\ run[r].pc \in {"models", "write"} =>
          /\ i.a \in held[r] /\ Rev(i.a) = i.rev
          /\ ModelRows(i) \subseteq Locks(r)
    /\ run[r].pc = "write" => want[r] = {} /\ i.models \subseteq Active

(* A training run holds what its model learned from, which is current, and *)
(* the models it is going to retire.                                       *)
TrainInv(k) ==
    LET snap == train[k].snap IN
    /\ train[k].pc = "assets" => Locks("train") = DOMAIN snap
    /\ train[k].pc = "model" =>
          /\ DOMAIN snap \subseteq held["train"] /\ RequireCurrent(snap)
          /\ \A m \in Serving(k) : ModelRow(m) \in Locks("train")
    /\ \A a \in DOMAIN snap : snap[a] <= Rev(a)

OneTraining ==
    /\ \A j, k \in Training : j = k
    /\ (\A k \in Kinds : train[k].pc \notin {"assets", "model"}) => NoLocks("train")

TransactionsInv ==
    /\ \A v \in Voters : VoterInv(v)
    /\ \A r \in Runners : RunnerInv(r)
    /\ \A k \in Kinds : TrainInv(k)
    /\ OneTraining

(***************************************************************************)
(* What a model learned from is not of the future, and the budgets.        *)
(***************************************************************************)
LearnedInv == \A m \in DOMAIN model : \A a \in DOMAIN model[m].snap : model[m].snap[a] <= Rev(a)

Pending(a) == {v \in Voters : vote[v].pc # "idle" /\ vote[v].a = a}
Busy == {k \in Kinds : train[k].pc # "none"}
Given(a) == IF a \in Fresh THEN 0 ELSE 1

BudgetInv ==
    /\ \A a \in Fresh : file[a].stat <= spent.moves + 1 /\ loc[a] <= spent.moves + 1
    /\ \A a \in Assets : /\ IsFiniteSet(Pending(a))
                         /\ Rev(a) + Cardinality(Pending(a)) <= spent.votes + Given(a)
    /\ IsFiniteSet(Busy) /\ Len(model) + Cardinality(Busy) <= MaxModels

(* Voters and executors at work have an asset and a task.                  *)
VotersKnow == \A v \in Voters : vote[v].pc # "idle" => vote[v].a \in Assets
RunnersKnow ==
    \A r \in Runners :
        /\ run[r].pc # "idle" => run[r].on \in Inputs
        /\ run[r].pc \in {"score", "assets", "models", "write"} => run[r].on.models \subseteq DOMAIN model

TypeInv == TypeOK /\ VotersKnow /\ RunnersKnow /\ BudgetInv
ModelsInv == LocksInv /\ TransactionsInv /\ LearnedInv /\ StaleModelIsFlagged

(***************************************************************************)
(* Constants and rows.                                                     *)
(***************************************************************************)
LEMMA Bounds ==
    /\ MaxModels \in Nat /\ MaxVotes \in Nat /\ MaxMoves \in Nat
    /\ Cardinality(Assets) \in Nat /\ Assets = 1 .. Cardinality(Assets)
    /\ Fresh \subseteq Assets /\ Assets \subseteq Rows /\ Rows \subseteq Nat
    /\ Runners \subseteq Actors /\ Voters \subseteq Actors /\ "train" \in Actors
    /\ Runners \cap Voters = {} /\ "train" \notin Runners \cup Voters
<1>1. /\ MaxModels \in Nat /\ MaxVotes \in Nat /\ MaxMoves \in Nat
      /\ Assets = 1 .. Cardinality(Assets) /\ Fresh \subseteq Assets
      /\ Runners \cap Voters = {} /\ "train" \notin Runners \cup Voters
  BY ModelsAssumption
<1>2. Cardinality(Assets) \in Nat
  BY ModelsAssumption, FS_CardinalityType
<1>3. QED
  BY <1>1, <1>2 DEF Rows, Actors

LEMMA ModelRowsAre ==
    ASSUME NEW m \in 1 .. MaxModels
    PROVE  /\ ModelRow(m) \in Rows /\ ModelRow(m) \notin Assets
           /\ \A a \in Assets : a < ModelRow(m)
           /\ \A n \in 1 .. MaxModels : ModelRow(n) = ModelRow(m) => n = m
BY Bounds DEF ModelRow, Rows

LEMMA MinIs ==
    ASSUME NEW S \in SUBSET Nat, S # {}
    PROVE  Min(S) \in S /\ \A y \in S : Min(S) <= y
<1> DEFINE R == OpToRel(<, Nat)
<1>1. IsWellFoundedOn(R, Nat)
  BY NatLessThanWellFounded
<1>2. \A x, y \in Nat : x < y => <<x, y>> \in R
  BY DEF OpToRel
<1> HIDE DEF R
<1>3. PICK x \in S : \A y \in S : ~ (<<y, x>> \in R)
  BY <1>1, WFMin
<1>4. \A y \in S : x <= y
  <2> TAKE y \in S
  <2>1. ~ (y < x)
    BY <1>2, <1>3
  <2>2. QED
    BY <2>1
<1>5. QED
  BY <1>4 DEF Min

LEMMA AppendIs ==
    ASSUME NEW S, NEW s \in Seq(S), NEW x \in S
    PROVE  /\ Append(s, x) \in Seq(S) /\ Len(Append(s, x)) = Len(s) + 1
           /\ Len(s) \in Nat
           /\ \A i \in 1 .. Len(s) : Append(s, x)[i] = s[i]
           /\ Append(s, x)[Len(s) + 1] = x
           /\ DOMAIN s = 1 .. Len(s) /\ DOMAIN Append(s, x) = 1 .. Len(s) + 1
OBVIOUS

LEMMA MapIsSeq ==
    ASSUME NEW S, NEW s \in Seq(S), NEW t \in [DOMAIN s -> S]
    PROVE  t \in Seq(S) /\ Len(t) = Len(s) /\ DOMAIN t = DOMAIN s
<1>1. Len(s) \in Nat /\ DOMAIN s = 1 .. Len(s)
  BY LenProperties
<1>2. t \in Seq(S)
  BY <1>1, SeqDef
<1>3. Len(t) \in Nat /\ DOMAIN t = 1 .. Len(t)
  BY <1>2, LenProperties
<1>4. QED
  BY <1>1, <1>2, <1>3

(***************************************************************************)
(* The state, read off TypeOK.                                             *)
(***************************************************************************)
LEMMA ModelsAre ==
    ASSUME TypeOK
    PROVE  /\ model \in Seq(Model) /\ Len(model) \in 0 .. MaxModels
           /\ DOMAIN model = 1 .. Len(model) /\ DOMAIN model \subseteq 1 .. MaxModels
           /\ \A m \in DOMAIN model : model[m] \in Model
           /\ Active \subseteq DOMAIN model
           /\ \A k \in Kinds : Serving(k) \subseteq Active
<1>1. model \in Seq(Model) /\ Len(model) <= MaxModels
  BY DEF TypeOK
<1>2. Len(model) \in Nat /\ DOMAIN model = 1 .. Len(model)
  BY <1>1, LenProperties
<1>3. \A m \in DOMAIN model : model[m] \in Model
  BY <1>1, <1>2, ElementOfSeq
<1>4. QED
  BY <1>1, <1>2, <1>3, Bounds DEF Active, Serving

LEMMA HistIs ==
    ASSUME TypeOK, NEW a \in Assets
    PROVE  /\ hist[a] \in Seq({"like", "dislike"}) /\ Rev(a) \in 0 .. MaxVotes + 1
           /\ \A r \in 1 .. Rev(a) : Revised(a, r) \in {"like", "dislike"}
<1>1. hist[a] \in Seq({"like", "dislike"}) /\ Rev(a) <= MaxVotes + 1
  BY DEF TypeOK
<1>2. Len(hist[a]) \in Nat
  BY <1>1, LenProperties
<1>3. QED
  BY <1>1, <1>2, Bounds, ElementOfSeq DEF Rev, Revised

LEMMA SnapshotsAre ==
    ASSUME NEW s \in Snapshots
    PROVE  /\ DOMAIN s \subseteq Assets
           /\ \A a \in DOMAIN s : s[a] \in 1 .. MaxVotes + 1
BY DEF Snapshots

(***************************************************************************)
(* Who changes what.                                                       *)
(***************************************************************************)
Files(a) == Touch(a) \/ TakeAway(a) \/ BringBack(a)
Asks == \E a \in Fresh, kind \in {"extract", "predict"} : Ask(kind, a) \/ Discover(kind, a)
Claims == \E r \in Runners, i \in DOMAIN task : Claim(r, i)
Votes(v) == Voter(v) \/ \E a \in Assets, label \in {"like", "dislike"} : Decide(v, a, label)
Trains(k) == RequestTraining(k) \/ Trainer(k)

LEMMA NextIs ==
    ASSUME [Next]_vars
    PROVE  \/ \E v \in Voters : Votes(v)
           \/ \E k \in Kinds : Trains(k)
           \/ \E r \in Runners : Runner(r)
           \/ \E x \in Actors : Lock(x)
           \/ \E a \in Fresh : Files(a)
           \/ Asks \/ Claims \/ Tell \/ Scan \/ UNCHANGED vars
BY DEF Next, People, Files, Asks, Claims, Votes, Trains

LEMMA VotesFrame ==
    ASSUME NEW v \in Voters, Votes(v)
    PROVE  UNCHANGED <<pred, ready, files, task, run, train>> /\ (UNCHANGED <<hist, model>> \/ Apply(v))
BY DEF Votes, Voter, Decide, Judge, Apply, labels

LEMMA TrainsFrame ==
    ASSUME NEW k \in Kinds, Trains(k)
    PROVE  UNCHANGED <<labels, ready, files, task, run, vote>>
BY DEF Trains, Trainer, RequestTraining, StartTraining, Load, Fit, CheckTraining, Activate

LEMMA RunnerFrame ==
    ASSUME NEW r \in Runners, Runner(r)
    PROVE  /\ UNCHANGED <<hist, files, model, train, vote>>
           /\ UNCHANGED ready \/ Save(r)
           /\ UNCHANGED pred \/ Write(r)
BY DEF Runner, StartExtract, Work, Save, Freeze, Score, CheckAsset, CheckModels, Write, labels

LEMMA LockFrame ==
    ASSUME NEW x \in Actors, Lock(x)
    PROVE  UNCHANGED <<labels, ready, files, model, task, run, train, vote, spent>>
BY DEF Lock

LEMMA OutsideFrame ==
    ASSUME (\E a \in Fresh : Files(a)) \/ Tell \/ Scan
    PROVE  UNCHANGED <<labels, ready, model, task, run, train, vote, locks>>
BY DEF Files, Touch, TakeAway, BringBack, Tell, Scan, Outside

LEMMA AsksFrame ==
    ASSUME Asks
    PROVE  UNCHANGED <<labels, ready, files, model, run, train, vote, locks>>
BY DEF Asks, Ask, Discover, Enqueue

LEMMA ClaimsFrame ==
    ASSUME Claims
    PROVE  UNCHANGED <<labels, ready, files, model, train, vote, locks, spent>>
BY DEF Claims, Claim

LEMMA StutterFrame ==
    ASSUME UNCHANGED vars
    PROVE  UNCHANGED <<labels, ready, files, model, task, run, train, vote, locks, spent>>
BY DEF vars

LEMMA Frames ==
    ASSUME [Next]_vars
    PROVE  /\ UNCHANGED hist \/ \E v \in Voters : Apply(v)
           /\ UNCHANGED model \/ (\E v \in Voters : Apply(v)) \/ \E k \in Kinds : Trains(k)
           /\ UNCHANGED pred \/ \E r \in Runners : Write(r)
           /\ UNCHANGED ready \/ \E r \in Runners : Save(r)
           /\ UNCHANGED files \/ Tell \/ Scan \/ \E a \in Fresh : Files(a)
           /\ UNCHANGED task \/ Asks \/ Claims \/ \E r \in Runners : Runner(r)
           /\ UNCHANGED run \/ Claims \/ \E r \in Runners : Runner(r)
           /\ UNCHANGED train \/ \E k \in Kinds : Trains(k)
           /\ UNCHANGED vote \/ \E v \in Voters : Votes(v)
<1>1. CASE \E v \in Voters : Votes(v)
  BY <1>1, VotesFrame
<1>2. CASE \E k \in Kinds : Trains(k)
  BY <1>2, TrainsFrame DEF labels
<1>3. CASE \E r \in Runners : Runner(r)
  BY <1>3, RunnerFrame
<1>4. CASE \E x \in Actors : Lock(x)
  BY <1>4, LockFrame DEF labels
<1>5. CASE (\E a \in Fresh : Files(a)) \/ Tell \/ Scan
  BY <1>5, OutsideFrame DEF labels
<1>6. CASE Asks
  BY <1>6, AsksFrame DEF labels
<1>7. CASE Claims
  BY <1>7, ClaimsFrame DEF labels
<1>8. CASE UNCHANGED vars
  BY <1>8, StutterFrame DEF labels
<1>9. QED
  BY <1>1, <1>2, <1>3, <1>4, <1>5, <1>6, <1>7, <1>8, NextIs

(***************************************************************************)
(* Labels grow, one revision at a time.                                    *)
(***************************************************************************)
LEMMA ApplyIs ==
    ASSUME TypeOK, NEW v \in Voters, Apply(v), NEW a \in Assets, a = vote[v].a
    PROVE  /\ hist' = [hist EXCEPT ![a] = Append(hist[a], vote[v].label)]
           /\ hist'[a] \in Seq({"like", "dislike"})
           /\ Rev(a)' = Rev(a) + 1
           /\ \A r \in 1 .. Rev(a) : Revised(a, r)' = Revised(a, r)
           /\ hist'[a][Rev(a) + 1] = vote[v].label
<1>1. vote[v].label \in {"like", "dislike"}
  BY DEF TypeOK, Vote
<1>2. hist' = [hist EXCEPT ![a] = Append(hist[a], vote[v].label)]
  BY DEF Apply
<1>3. hist'[a] = Append(hist[a], vote[v].label)
  BY <1>2 DEF TypeOK
<1>4. hist[a] \in Seq({"like", "dislike"})
  BY DEF TypeOK
<1>5. /\ Append(hist[a], vote[v].label) \in Seq({"like", "dislike"})
      /\ Len(Append(hist[a], vote[v].label)) = Len(hist[a]) + 1
      /\ \A i \in 1 .. Len(hist[a]) : Append(hist[a], vote[v].label)[i] = hist[a][i]
      /\ Append(hist[a], vote[v].label)[Len(hist[a]) + 1] = vote[v].label
  BY <1>1, <1>4, AppendIs
<1>6. Rev(a)' = Rev(a) + 1 /\ hist'[a] \in Seq({"like", "dislike"})
  BY <1>3, <1>5 DEF Rev
<1>7. \A r \in 1 .. Rev(a) : Revised(a, r)' = Revised(a, r)
  BY <1>3, <1>5 DEF Rev, Revised
<1>8. hist'[a][Rev(a) + 1] = vote[v].label
  BY <1>3, <1>5 DEF Rev
<1>9. QED
  BY <1>2, <1>6, <1>7, <1>8

LEMMA HistGrows ==
    ASSUME TypeOK, VotersKnow, [Next]_vars, NEW a \in Assets
    PROVE  /\ hist'[a] \in Seq({"like", "dislike"})
           /\ Rev(a)' >= Rev(a) /\ Rev(a)' \in Nat
           /\ \A r \in 1 .. Rev(a) : Revised(a, r)' = Revised(a, r)
<1>1. CASE UNCHANGED hist
  BY <1>1, HistIs DEF Rev, Revised
<1>2. ASSUME NEW v \in Voters, Apply(v)
      PROVE  /\ hist'[a] \in Seq({"like", "dislike"})
             /\ Rev(a)' >= Rev(a) /\ Rev(a)' \in Nat
             /\ \A r \in 1 .. Rev(a) : Revised(a, r)' = Revised(a, r)
  <2>1. vote[v].a \in Assets
    BY <1>2 DEF Apply, VotersKnow
  <2>2. CASE a = vote[v].a
    <3>1. /\ hist'[a] \in Seq({"like", "dislike"})
          /\ Rev(a)' = Rev(a) + 1
          /\ \A r \in 1 .. Rev(a) : Revised(a, r)' = Revised(a, r)
      BY <1>2, <2>2, ApplyIs
    <3>2. Rev(a) \in Nat
      BY HistIs
    <3>3. QED
      BY <3>1, <3>2
  <2>3. CASE a # vote[v].a
    <3>1. hist'[a] = hist[a]
      BY <1>2, <2>1, <2>3 DEF Apply, TypeOK
    <3>2. QED
      BY <3>1, HistIs DEF Rev, Revised
  <2>4. QED
    BY <2>2, <2>3
<1>3. QED
  BY <1>1, <1>2, Frames

(***************************************************************************)
(* Models: a feedback flags some, a training run adds one.                 *)
(***************************************************************************)
LEMMA FlagsAre ==
    ASSUME TypeOK, NEW v \in Voters, Apply(v)
    PROVE  /\ model' \in Seq(Model) /\ Len(model') = Len(model) /\ DOMAIN model' = DOMAIN model
           /\ \A m \in DOMAIN model :
                /\ model'[m].kind = model[m].kind /\ model'[m].snap = model[m].snap
                /\ model'[m].st = model[m].st
                /\ model'[m].flag <=> model[m].flag \/ (ModelRow(m) \in held[v] /\ m \in Active)
           /\ Active' = Active
<1>1. model' = [m \in DOMAIN model |-> IF ModelRow(m) \in held[v] /\ m \in Active
                                       THEN [model[m] EXCEPT !.flag = TRUE] ELSE model[m]]
  BY DEF Apply
<1>2. \A m \in DOMAIN model :
        /\ model[m] \in Model
        /\ [model[m] EXCEPT !.flag = TRUE] \in Model
        /\ [model[m] EXCEPT !.flag = TRUE].kind = model[m].kind
        /\ [model[m] EXCEPT !.flag = TRUE].snap = model[m].snap
        /\ [model[m] EXCEPT !.flag = TRUE].st = model[m].st
        /\ [model[m] EXCEPT !.flag = TRUE].flag = TRUE
  BY ModelsAre DEF Model
<1>3. model' \in [DOMAIN model -> Model]
  BY <1>1, <1>2
<1>4. model' \in Seq(Model) /\ Len(model') = Len(model) /\ DOMAIN model' = DOMAIN model
  BY <1>3, ModelsAre, MapIsSeq
<1>5. \A m \in DOMAIN model :
        /\ model'[m].kind = model[m].kind /\ model'[m].snap = model[m].snap
        /\ model'[m].st = model[m].st
        /\ model'[m].flag <=> model[m].flag \/ (ModelRow(m) \in held[v] /\ m \in Active)
  BY <1>1, <1>2
<1>6. Active' = Active
  BY <1>4, <1>5 DEF Active
<1>7. QED
  BY <1>4, <1>5, <1>6

LEMMA NewIs ==
    ASSUME TypeOK, NEW k \in Kinds, NEW st \in {"validated", "active"}
    PROVE  /\ New(k, st) \in Model /\ New(k, st).kind = k /\ New(k, st).st = st
           /\ New(k, st).snap = train[k].snap /\ New(k, st).flag = FALSE
BY DEF TypeOK, Train, New, Model

LEMMA ValidatesIs ==
    ASSUME TypeOK, NEW k \in Kinds, model' = Append(model, New(k, "validated"))
    PROVE  /\ model' \in Seq(Model) /\ Len(model') = Len(model) + 1
           /\ DOMAIN model' = 1 .. Len(model) + 1
           /\ \A m \in DOMAIN model : model'[m] = model[m]
           /\ model'[Len(model) + 1] = New(k, "validated")
           /\ Active' = Active
<1>1. /\ model' \in Seq(Model) /\ Len(model') = Len(model) + 1
      /\ DOMAIN model' = 1 .. Len(model) + 1 /\ Len(model) \in Nat
      /\ DOMAIN model = 1 .. Len(model)
      /\ \A m \in DOMAIN model : model'[m] = model[m]
      /\ model'[Len(model) + 1] = New(k, "validated")
  <2>1. New(k, "validated") \in Model /\ model \in Seq(Model)
    BY ModelsAre, NewIs
  <2> DEFINE new == New(k, "validated")
  <2> HIDE DEF new
  <2>2. model' = Append(model, new) /\ new \in Model
    BY <2>1 DEF new
  <2>3. QED
    BY <2>1, <2>2, AppendIs DEF new
<1>2. Active' = Active
  <2>1. New(k, "validated").st # "active"
    BY NewIs
  <2>2. DOMAIN model' = DOMAIN model \cup {Len(model) + 1}
    BY <1>1
  <2>3. QED
    BY <1>1, <2>1, <2>2 DEF Active
<1>3. QED
  BY <1>1, <1>2

LEMMA ActivatesIs ==
    ASSUME TypeOK, NEW k \in Kinds, Activate(k)
    PROVE  /\ model' \in Seq(Model) /\ Len(model') = Len(model) + 1
           /\ DOMAIN model' = 1 .. Len(model) + 1
           /\ \A m \in DOMAIN model :
                /\ model'[m].kind = model[m].kind /\ model'[m].snap = model[m].snap
                /\ model'[m].flag <=> model[m].flag
           /\ model'[Len(model) + 1] = New(k, "active")
           /\ Active' = (Active \ Serving(k)) \cup {Len(model) + 1}
<1> DEFINE kept == [m \in DOMAIN model |-> IF m \in Serving(k)
                                           THEN [model[m] EXCEPT !.st = "retired"] ELSE model[m]]
<1>1. model' = Append(kept, New(k, "active"))
  BY DEF Activate
<1>2. \A m \in DOMAIN model :
        /\ model[m] \in Model
        /\ [model[m] EXCEPT !.st = "retired"] \in Model
        /\ [model[m] EXCEPT !.st = "retired"].kind = model[m].kind
        /\ [model[m] EXCEPT !.st = "retired"].snap = model[m].snap
        /\ [model[m] EXCEPT !.st = "retired"].flag <=> model[m].flag
        /\ [model[m] EXCEPT !.st = "retired"].st = "retired"
  BY ModelsAre DEF Model
<1>3. kept \in [DOMAIN model -> Model]
  BY <1>2
<1>4. kept \in Seq(Model) /\ Len(kept) = Len(model) /\ DOMAIN kept = DOMAIN model
  BY <1>3, ModelsAre, MapIsSeq
<1>5. \A m \in DOMAIN model :
        /\ kept[m].kind = model[m].kind /\ kept[m].snap = model[m].snap
        /\ kept[m].flag <=> model[m].flag
        /\ kept[m].st = IF m \in Serving(k) THEN "retired" ELSE model[m].st
  BY <1>2
<1> HIDE DEF kept
<1>6. /\ model' \in Seq(Model) /\ Len(model') = Len(model) + 1
      /\ DOMAIN model' = 1 .. Len(model) + 1
      /\ \A m \in 1 .. Len(model) : model'[m] = kept[m]
      /\ model'[Len(model) + 1] = New(k, "active")
  <2>1. New(k, "active") \in Model
    BY NewIs
  <2> DEFINE new == New(k, "active")
  <2> HIDE DEF new
  <2>2. model' = Append(kept, new) /\ new \in Model
    BY <1>1, <2>1 DEF new
  <2>3. QED
    BY <1>4, <2>2, AppendIs DEF new
<1>7. DOMAIN model = 1 .. Len(model) /\ Len(model) \in Nat
  BY ModelsAre
<1>8. Active' = (Active \ Serving(k)) \cup {Len(model) + 1}
  <2>1. New(k, "active").st = "active"
    BY NewIs
  <2>2. DOMAIN model' = DOMAIN model \cup {Len(model) + 1}
    BY <1>6, <1>7
  <2>3. \A m \in DOMAIN model : m \in Active' <=> m \in Active /\ m \notin Serving(k)
    BY <1>5, <1>6, <1>7, <2>2 DEF Active
  <2>4. Len(model) + 1 \in Active'
    BY <1>6, <2>1, <2>2 DEF Active
  <2>5. Active' \subseteq DOMAIN model' /\ Active \subseteq DOMAIN model
    BY DEF Active
  <2>6. Len(model) + 1 \notin DOMAIN model
    BY <1>7
  <2>7. QED
    BY <2>2, <2>3, <2>4, <2>5, <2>6
<1>9. QED
  BY <1>5, <1>6, <1>7, <1>8

(* A step keeps all the models and what they learned from, or adds one.    *)
LEMMA ModelAfter ==
    ASSUME TypeOK, [Next]_vars
    PROVE  /\ model' \in Seq(Model) /\ DOMAIN model \subseteq DOMAIN model'
           /\ \A m \in DOMAIN model : model'[m].snap = model[m].snap /\ model'[m].kind = model[m].kind
           /\ DOMAIN model' \subseteq DOMAIN model \cup {Len(model) + 1}
<1>0. DOMAIN model = 1 .. Len(model) /\ Len(model) \in Nat /\ model \in Seq(Model)
  BY ModelsAre
<1>1. CASE UNCHANGED model
  BY <1>0, <1>1
<1>2. CASE \E v \in Voters : Apply(v)
  BY <1>2, FlagsAre
<1>3. CASE \E k \in Kinds : model' = Append(model, New(k, "validated"))
  BY <1>0, <1>3, ValidatesIs
<1>4. CASE \E k \in Kinds : Activate(k)
  BY <1>0, <1>4, ActivatesIs
<1>5. \A k \in Kinds : Trains(k) => UNCHANGED model \/ Activate(k) \/ model' = Append(model, New(k, "validated"))
  BY DEF Trains, Trainer, RequestTraining, StartTraining, Load, Fit, CheckTraining
<1>6. QED
  BY <1>1, <1>2, <1>3, <1>4, <1>5, Frames

(***************************************************************************)
(* Row locks, as the steps take and release them.  A transaction locks     *)
(* assets first, from nothing, and models when it holds only assets.       *)
(***************************************************************************)
LEMMA ModelRowsOf ==
    ASSUME NEW S \in SUBSET (1 .. MaxModels)
    PROVE  {ModelRow(m) : m \in S} \subseteq Rows /\ {ModelRow(m) : m \in S} \cap Assets = {}
BY ModelRowsAre

Takes(x, rows) ==
    /\ Wants(x, rows)
    /\ \/ rows \subseteq Assets /\ held[x] = {}
       \/ rows \cap Assets = {} /\ held[x] \subseteq Assets

LEMMA VotesTake ==
    ASSUME TypeInv, TransactionsInv, NEW v \in Voters, Votes(v)
    PROVE  Ends(v) \/ \E rows \in SUBSET Rows : Takes(v, rows)
<1>1. VoterInv(v) /\ (vote[v].pc # "idle" => vote[v].a \in Assets)
  BY DEF TransactionsInv, TypeInv, VotersKnow
<1>2. ASSUME NEW a \in Assets, NEW label \in {"like", "dislike"}, Decide(v, a, label)
      PROVE  {a} \in SUBSET Rows /\ Takes(v, {a})
  BY <1>1, <1>2, Bounds DEF Decide, Takes, VoterInv, NoLocks
<1>3. CASE Judge(v)
  <2> DEFINE rows == {ModelRow(m) : m \in Affected(vote[v].a, vote[v].label)}
  <2>1. Ends(v) \/ Wants(v, rows)
    BY <1>3 DEF Judge
  <2>2. Affected(vote[v].a, vote[v].label) \subseteq 1 .. MaxModels
    BY ModelsAre DEF Affected, TypeInv
  <2>3. rows \subseteq Rows /\ rows \cap Assets = {}
    BY <2>2, ModelRowsOf
  <2>4. held[v] \subseteq Assets
    BY <1>1, <1>3 DEF VoterInv, Judge, Locks
  <2> HIDE DEF rows
  <2>5. QED
    BY <2>1, <2>3, <2>4 DEF Takes
<1>4. CASE Apply(v)
  BY <1>4 DEF Apply
<1>5. QED
  BY <1>2, <1>3, <1>4 DEF Votes, Voter

LEMMA TrainsTake ==
    ASSUME TypeInv, TransactionsInv, NEW k \in Kinds, Trains(k)
    PROVE  UNCHANGED locks \/ Ends("train") \/ \E rows \in SUBSET Rows : Takes("train", rows)
<1>1. TrainInv(k) /\ OneTraining /\ train[k] \in Train
  BY DEF TransactionsInv, TypeInv, TypeOK
<1>2. DOMAIN train[k].snap \subseteq Assets /\ Assets \subseteq Rows
  BY <1>1, SnapshotsAre, Bounds DEF Train
<1>3. CASE RequestTraining(k) \/ StartTraining(k) \/ Load(k)
  BY <1>3 DEF RequestTraining, StartTraining, Load
<1>4. CASE Fit(k)
  <2>1. UNCHANGED locks \/ Wants("train", DOMAIN train[k].snap)
    BY <1>4 DEF Fit
  <2>2. k \in Training /\ train[k].pc = "fit"
    BY <1>4 DEF Fit, Training
  <2>3. NoLocks("train")
    <3>1. ASSUME NEW j \in Kinds, train[j].pc \in {"assets", "model"} PROVE FALSE
      <4>1. j \in Training
        BY <3>1 DEF Training
      <4>2. QED
        BY <1>1, <2>2, <3>1, <4>1 DEF OneTraining
    <3>2. QED
      BY <1>1, <3>1 DEF OneTraining
  <2>4. QED
    BY <1>2, <2>1, <2>3 DEF Takes, NoLocks
<1>5. CASE CheckTraining(k)
  <2> DEFINE rows == {ModelRow(m) : m \in Serving(k)}
  <2>1. Ends("train") \/ Wants("train", rows)
    BY <1>5 DEF CheckTraining
  <2>2. Serving(k) \subseteq 1 .. MaxModels
    BY ModelsAre DEF TypeInv
  <2>3. rows \subseteq Rows /\ rows \cap Assets = {}
    BY <2>2, ModelRowsOf
  <2>4. held["train"] \subseteq Assets
    BY <1>1, <1>2, <1>5 DEF TrainInv, CheckTraining, Locks
  <2> HIDE DEF rows
  <2>5. QED
    BY <2>1, <2>3, <2>4 DEF Takes
<1>6. CASE Activate(k)
  BY <1>6 DEF Activate
<1>7. QED
  BY <1>3, <1>4, <1>5, <1>6 DEF Trains, Trainer

LEMMA RunnersTake ==
    ASSUME TypeInv, TransactionsInv, NEW r \in Runners, Runner(r)
    PROVE  UNCHANGED locks \/ Ends(r) \/ \E rows \in SUBSET Rows : Takes(r, rows)
<1>1. RunnerInv(r) /\ RunnersKnow
  BY DEF TransactionsInv, TypeInv
<1>2. CASE StartExtract(r) \/ Work(r) \/ Save(r) \/ Freeze(r) \/ CheckModels(r) \/ Write(r)
  BY <1>2 DEF StartExtract, Work, Save, Freeze, CheckModels, Write, Finish
<1>3. CASE Score(r)
  <2> DEFINE i == run[r].on
             rows == {i.a} \cup UNION {DOMAIN model[m].snap : m \in i.models}
  <2>1. Ends(r) \/ Wants(r, rows)
    BY <1>3 DEF Score, Finish
  <2>2. run[r].pc = "score" /\ i \in Inputs /\ i.models \subseteq DOMAIN model
    BY <1>1, <1>3 DEF Score, At, RunnersKnow
  <2>3. i.a \in Assets
    BY <2>2, Bounds DEF Inputs
  <2>4. \A m \in i.models : DOMAIN model[m].snap \subseteq Assets
    BY <2>2, ModelsAre, SnapshotsAre DEF Model, TypeInv
  <2>5. rows \subseteq Assets /\ rows \subseteq Rows
    BY <2>3, <2>4, Bounds
  <2>6. held[r] = {}
    BY <1>1, <2>2 DEF RunnerInv, NoLocks
  <2> HIDE DEF rows
  <2>7. QED
    BY <2>1, <2>5, <2>6 DEF Takes
<1>4. CASE CheckAsset(r)
  <2> DEFINE i == run[r].on
  <2>1. Ends(r) \/ Wants(r, ModelRows(i))
    BY <1>4 DEF CheckAsset, Finish
  <2>2. run[r].pc = "assets" /\ i \in Inputs
    BY <1>1, <1>4 DEF CheckAsset, At, RunnersKnow
  <2>3. ModelRows(i) \subseteq Rows /\ ModelRows(i) \cap Assets = {}
    BY <2>2, ModelRowsOf DEF ModelRows, Inputs
  <2>4. held[r] \subseteq Assets
    BY <1>1, <2>2 DEF RunnerInv, Locks
  <2>5. QED
    BY <2>1, <2>3, <2>4 DEF Takes
<1>5. QED
  BY <1>2, <1>3, <1>4 DEF Runner

LEMMA LocksAre ==
    ASSUME TypeInv, TransactionsInv, [Next]_vars
    PROVE  \/ UNCHANGED locks
           \/ \E x \in Actors : \/ Lock(x) \/ Ends(x)
                              \/ \E rows \in SUBSET Rows : Takes(x, rows)
<1>1. CASE \E v \in Voters : Votes(v)
  BY <1>1, VotesTake, Bounds
<1>2. CASE \E k \in Kinds : Trains(k)
  BY <1>2, TrainsTake, Bounds
<1>3. CASE \E r \in Runners : Runner(r)
  BY <1>3, RunnersTake, Bounds
<1>4. CASE \E x \in Actors : Lock(x)
  BY <1>4
<1>5. CASE Asks \/ Claims \/ Tell \/ Scan \/ UNCHANGED vars \/ \E a \in Fresh : Files(a)
  BY <1>5, AsksFrame, ClaimsFrame, OutsideFrame, StutterFrame
<1>6. QED
  BY <1>1, <1>2, <1>3, <1>4, <1>5, NextIs

LEMMA LockIs ==
    ASSUME TypeOK, NEW x \in Actors, Lock(x)
    PROVE  \E r \in want[x] :
                /\ r = First(x) /\ r \in Rows /\ Free(x, r)
                /\ \A q \in want[x] : r <= q
                /\ held' = [held EXCEPT ![x] = held[x] \cup {r}]
                /\ want' = [want EXCEPT ![x] = want[x] \ {r}]
<1>1. want[x] \in SUBSET Nat /\ want[x] # {} /\ want[x] \subseteq Rows
  BY Bounds DEF TypeOK, Lock
<1>2. First(x) \in want[x] /\ \A q \in want[x] : First(x) <= q
  BY <1>1, MinIs DEF First
<1>3. QED
  BY <1>1, <1>2 DEF Lock

LEMMA LocksType ==
    ASSUME TypeInv, TransactionsInv, [Next]_vars
    PROVE  held' \in [Actors -> SUBSET Rows] /\ want' \in [Actors -> SUBSET Rows]
<1>1. held \in [Actors -> SUBSET Rows] /\ want \in [Actors -> SUBSET Rows]
  BY DEF TypeInv, TypeOK
<1>2. CASE \E x \in Actors : Lock(x)
  BY <1>1, <1>2, LockIs DEF TypeInv
<1>3. CASE \E x \in Actors : Ends(x) \/ \E rows \in SUBSET Rows : Takes(x, rows)
  BY <1>1, <1>3 DEF Ends, Takes, Wants
<1>4. QED
  BY <1>1, <1>2, <1>3, LocksAre DEF locks

(***************************************************************************)
(* Row locks are exclusive and ordered.                                    *)
(***************************************************************************)
LEMMA LocksStep ==
    ASSUME TypeInv, TransactionsInv, LocksInv, [Next]_vars
    PROVE  LocksInv'
<1>t. held \in [Actors -> SUBSET Rows] /\ want \in [Actors -> SUBSET Rows]
  BY DEF TypeInv, TypeOK
<1>1. CASE UNCHANGED locks
  BY <1>1 DEF LocksInv, Exclusive, Ordered, locks, Shared
<1>2. ASSUME NEW x \in Actors, Lock(x)
      PROVE  LocksInv'
  <2>1. PICK r \in want[x] :
                /\ r \in Rows /\ Free(x, r)
                /\ \A q \in want[x] : r <= q
                /\ held' = [held EXCEPT ![x] = held[x] \cup {r}]
                /\ want' = [want EXCEPT ![x] = want[x] \ {r}]
    BY <1>2, LockIs DEF TypeInv
  <2>2. Ordered'
    <3>1. SUFFICES ASSUME NEW y \in Actors, NEW h \in held'[y], NEW w \in want'[y] PROVE h < w
      BY DEF Ordered
    <3>2. w \in want[y] /\ (h \in held[y] \/ (y = x /\ h = r /\ w # r))
      BY <1>t, <2>1, <3>1
    <3>3. h \in Nat /\ w \in Nat
      BY <1>t, <2>1, <3>2, Bounds
    <3>4. CASE h \in held[y]
      BY <3>2, <3>4 DEF LocksInv, Ordered
    <3>5. CASE y = x /\ h = r /\ w # r
      BY <2>1, <3>2, <3>3, <3>5
    <3>6. QED
      BY <3>2, <3>4, <3>5
  <2>3. Exclusive'
    <3>1. SUFFICES ASSUME NEW y \in Actors, NEW z \in Actors, NEW h \in held'[y] \cap held'[z], y # z
                   PROVE  Shared(y, z, h)
      BY DEF Exclusive, Shared
    <3>2. CASE h \in held[y] /\ h \in held[z]
      BY <3>1, <3>2 DEF LocksInv, Exclusive
    <3>3. CASE ~(h \in held[y] /\ h \in held[z])
      <4>1. h = r /\ ((y = x /\ h \in held[z]) \/ (z = x /\ h \in held[y]))
        BY <1>t, <2>1, <3>1, <3>3
      <4>2. QED
        BY <2>1, <3>1, <4>1 DEF Free, Shared
    <3>4. QED
      BY <3>2, <3>3
  <2>4. QED
    BY <2>2, <2>3 DEF LocksInv
<1>3. ASSUME NEW x \in Actors, Ends(x)
      PROVE  LocksInv'
  <2>1. \A y \in Actors : held'[y] \subseteq held[y] /\ want'[y] = want[y]
    BY <1>t, <1>3 DEF Ends
  <2>2. QED
    BY <2>1 DEF LocksInv, Exclusive, Ordered, Shared
<1>4. ASSUME NEW x \in Actors, NEW rows \in SUBSET Rows, Takes(x, rows)
      PROVE  LocksInv'
  <2>1. UNCHANGED held /\ want' = [want EXCEPT ![x] = rows]
    BY <1>4 DEF Takes, Wants
  <2>2. Exclusive'
    BY <2>1 DEF LocksInv, Exclusive, Shared
  <2>3. \A h \in held[x], w \in rows : h < w
    <3>1. \A a \in Assets, w \in Rows \ Assets : a < w
      BY Bounds DEF Rows
    <3>2. QED
      BY <1>4, <3>1 DEF Takes
  <2>4. Ordered'
    BY <1>t, <2>1, <2>3 DEF LocksInv, Ordered
  <2>5. QED
    BY <2>2, <2>4 DEF LocksInv
<1>5. QED
  BY <1>1, <1>2, <1>3, <1>4, LocksAre

(***************************************************************************)
(* Budgets: what they bound stays within them.                             *)
(***************************************************************************)
LEMMA SpentStep ==
    ASSUME TypeOK, [Next]_vars
    PROVE  /\ spent' \in [votes : 0 .. MaxVotes, moves : 0 .. MaxMoves]
           /\ spent'.votes >= spent.votes /\ spent'.moves >= spent.moves
<1>0. spent \in [votes : 0 .. MaxVotes, moves : 0 .. MaxMoves]
  BY DEF TypeOK
<1>1. CASE UNCHANGED spent
  BY <1>0, <1>1
<1>2. CASE Moves
  BY <1>0, <1>2, Bounds DEF Moves
<1>3. CASE \E v \in Voters, a \in Assets, label \in {"like", "dislike"} : Decide(v, a, label)
  BY <1>0, <1>3, Bounds DEF Decide
<1>4. \A v \in Voters : Votes(v) => UNCHANGED spent \/ \E a \in Assets, label \in {"like", "dislike"} : Decide(v, a, label)
  BY DEF Votes, Voter, Judge, Apply
<1>5. \A k \in Kinds : Trains(k) => UNCHANGED spent \/ Moves
  BY DEF Trains, RequestTraining, Trainer, StartTraining, Load, Fit, CheckTraining, Activate, Faultless
<1>6. \A r \in Runners : Runner(r) => UNCHANGED spent \/ Moves
  BY DEF Runner, StartExtract, Work, Save, Freeze, Score, CheckAsset, CheckModels, Write, Faultless
<1>7. (\E x \in Actors : Lock(x)) \/ Claims \/ Scan \/ UNCHANGED vars => UNCHANGED spent
  BY LockFrame, ClaimsFrame, StutterFrame DEF Scan
<1>8. (\E a \in Fresh : Files(a)) \/ Tell \/ Asks => UNCHANGED spent \/ Moves
  BY DEF Files, Touch, TakeAway, BringBack, Tell, Asks, Ask, Discover
<1>9. QED
  BY <1>1, <1>2, <1>3, <1>4, <1>5, <1>6, <1>7, <1>8, NextIs

LEMMA FilesStep ==
    ASSUME TypeInv, [Next]_vars
    PROVE  /\ file' \in [Fresh -> [stat : 1 .. MaxMoves + 1, here : BOOLEAN]]
           /\ loc' \in [Fresh -> 0 .. MaxMoves + 1] /\ behind' \in BOOLEAN
           /\ \A a \in Fresh : file'[a].stat <= spent'.moves + 1 /\ loc'[a] <= spent'.moves + 1
<1>0. /\ file \in [Fresh -> [stat : 1 .. MaxMoves + 1, here : BOOLEAN]]
      /\ loc \in [Fresh -> 0 .. MaxMoves + 1] /\ behind \in BOOLEAN
      /\ \A a \in Fresh : file[a].stat <= spent.moves + 1 /\ loc[a] <= spent.moves + 1
      /\ spent \in [votes : 0 .. MaxVotes, moves : 0 .. MaxMoves]
  BY DEF TypeInv, TypeOK, BudgetInv
<1>s. /\ spent' \in [votes : 0 .. MaxVotes, moves : 0 .. MaxMoves]
      /\ spent'.moves >= spent.moves
  BY SpentStep DEF TypeInv
<1>1. CASE UNCHANGED files
  BY <1>0, <1>1, <1>s DEF files
<1>2. ASSUME NEW a \in Fresh, Touch(a)
      PROVE  /\ file' \in [Fresh -> [stat : 1 .. MaxMoves + 1, here : BOOLEAN]]
             /\ UNCHANGED <<loc, behind>>
             /\ \A b \in Fresh : file'[b].stat <= spent'.moves + 1
  <2>1. /\ spent'.moves = spent.moves + 1 /\ spent.moves < MaxMoves
        /\ file' = [file EXCEPT ![a].stat = file[a].stat + 1]
    BY <1>0, <1>2 DEF Touch, Moves
  <2>2. file[a].stat + 1 \in 1 .. MaxMoves + 1 /\ file[a].stat + 1 <= spent'.moves + 1
    BY <1>0, <2>1, Bounds
  <2>3. [file[a] EXCEPT !.stat = file[a].stat + 1] \in [stat : 1 .. MaxMoves + 1, here : BOOLEAN]
    BY <1>0, <2>2
  <2>4. file' \in [Fresh -> [stat : 1 .. MaxMoves + 1, here : BOOLEAN]]
    BY <1>0, <2>1, <2>3
  <2>5. ASSUME NEW b \in Fresh PROVE file'[b].stat <= spent'.moves + 1
    <3>1. CASE b = a
      BY <1>0, <2>1, <2>2, <3>1
    <3>2. CASE b # a
      <4>1. file'[b] = file[b] /\ file[b].stat \in Nat /\ spent.moves \in Nat
        BY <1>0, <2>1, <3>2
      <4>2. QED
        BY <1>0, <2>1, <4>1
    <3>3. QED
      BY <3>1, <3>2
  <2>6. QED
    BY <1>2, <2>4, <2>5 DEF Touch
<1>3. ASSUME NEW a \in Fresh, TakeAway(a) \/ BringBack(a)
      PROVE  /\ file' \in [Fresh -> [stat : 1 .. MaxMoves + 1, here : BOOLEAN]]
             /\ UNCHANGED <<loc, behind>>
             /\ \A b \in Fresh : file'[b].stat = file[b].stat
  <2>1. PICK here \in BOOLEAN : file' = [file EXCEPT ![a].here = here]
    BY <1>3 DEF TakeAway, BringBack
  <2>2. [file[a] EXCEPT !.here = here] \in [stat : 1 .. MaxMoves + 1, here : BOOLEAN]
    BY <1>0
  <2>3. file' \in [Fresh -> [stat : 1 .. MaxMoves + 1, here : BOOLEAN]]
    BY <1>0, <2>1, <2>2
  <2>4. \A b \in Fresh : file'[b].stat = file[b].stat
    BY <1>0, <2>1
  <2>5. QED
    BY <1>3, <2>3, <2>4 DEF TakeAway, BringBack
<1>4. CASE Tell
  BY <1>0, <1>4, <1>s DEF Tell
<1>5. CASE Scan
  <2>1. /\ loc' = [a \in Fresh |-> IF file[a].here THEN file[a].stat ELSE 0]
        /\ behind' = FALSE /\ UNCHANGED file
    BY <1>5 DEF Scan
  <2>2. \A a \in Fresh : loc'[a] = file[a].stat \/ loc'[a] = 0
    BY <2>1
  <2>3. \A a \in Fresh : file[a].stat \in 1 .. MaxMoves + 1
    BY <1>0
  <2>4. loc' \in [Fresh -> 0 .. MaxMoves + 1]
    BY <2>1, <2>3, Bounds
  <2>5. \A a \in Fresh : file[a].stat <= spent'.moves + 1 /\ 0 <= spent'.moves + 1
    BY <1>0, <1>s, <2>3
  <2>6. QED
    BY <1>0, <2>1, <2>2, <2>4, <2>5
<1>6. QED
  <2>1. CASE \E a \in Fresh : Touch(a)
    BY <1>0, <1>s, <1>2, <2>1
  <2>2. CASE \E a \in Fresh : TakeAway(a) \/ BringBack(a)
    BY <1>0, <1>s, <1>3, <2>2
  <2>3. QED
    BY <1>1, <1>4, <1>5, <2>1, <2>2, Frames DEF Files

LEMMA VoteStep ==
    ASSUME TypeInv, [Next]_vars
    PROVE  vote' \in [Voters -> Vote] /\ VotersKnow'
<1>0. vote \in [Voters -> Vote] /\ VotersKnow
  BY DEF TypeInv, TypeOK
<1>1. CASE UNCHANGED vote
  BY <1>0, <1>1 DEF VotersKnow
<1>2. ASSUME NEW v \in Voters, NEW a \in Assets, NEW label \in {"like", "dislike"}, Decide(v, a, label)
      PROVE  vote' \in [Voters -> Vote] /\ VotersKnow'
  <2> DEFINE new == [pc |-> "asset", a |-> a, label |-> label, rev |-> Rev(a)]
  <2>1. vote' = [vote EXCEPT ![v] = new]
    BY <1>2 DEF Decide
  <2>2. new \in Vote /\ new.a \in Assets
    BY HistIs DEF Vote, TypeInv
  <2> HIDE DEF new
  <2>3. QED
    BY <1>0, <2>1, <2>2 DEF VotersKnow
<1>3. ASSUME NEW v \in Voters, vote' = [vote EXCEPT ![v] = NoVote]
      PROVE  vote' \in [Voters -> Vote] /\ VotersKnow'
  <2>1. NoVote \in Vote /\ NoVote.pc = "idle"
    BY Bounds DEF NoVote, Vote
  <2>2. QED
    BY <1>0, <1>3, <2>1 DEF VotersKnow
<1>4. ASSUME NEW v \in Voters, vote[v].pc # "idle", vote' = [vote EXCEPT ![v].pc = "models"]
      PROVE  vote' \in [Voters -> Vote] /\ VotersKnow'
  BY <1>0, <1>4 DEF VotersKnow, Vote
<1>5. QED
  <2>1. \A v \in Voters : Judge(v) =>
          \/ vote' = [vote EXCEPT ![v] = NoVote]
          \/ vote[v].pc # "idle" /\ vote' = [vote EXCEPT ![v].pc = "models"]
    BY DEF Judge
  <2>2. \A v \in Voters : Apply(v) => vote' = [vote EXCEPT ![v] = NoVote]
    BY DEF Apply
  <2>3. QED
    BY <1>1, <1>2, <1>3, <1>4, <2>1, <2>2, Frames DEF Votes, Voter

LEMMA PendingStep ==
    ASSUME TypeInv, [Next]_vars, NEW a \in Assets
    PROVE  /\ IsFiniteSet(Pending(a)')
           /\ Rev(a)' + Cardinality(Pending(a)') <= spent'.votes + Given(a)
<1>0. /\ IsFiniteSet(Pending(a)) /\ Cardinality(Pending(a)) \in Nat
      /\ Rev(a) + Cardinality(Pending(a)) <= spent.votes + Given(a)
      /\ Rev(a) \in Nat /\ Given(a) \in Nat /\ spent.votes \in Nat
      /\ spent'.votes \in Nat /\ spent'.votes >= spent.votes
  <2>1. IsFiniteSet(Pending(a)) /\ Rev(a) + Cardinality(Pending(a)) <= spent.votes + Given(a)
    BY DEF TypeInv, BudgetInv
  <2>2. spent.votes \in Nat /\ spent'.votes \in Nat /\ spent'.votes >= spent.votes
    BY SpentStep DEF TypeInv, TypeOK
  <2>3. QED
    BY <2>1, <2>2, HistIs, FS_CardinalityType DEF Given, TypeInv
<1>t. vote \in [Voters -> Vote] /\ VotersKnow
  BY DEF TypeInv, TypeOK
<1>1. CASE UNCHANGED <<vote, hist>>
  <2>1. Pending(a)' = Pending(a) /\ Rev(a)' = Rev(a)
    BY <1>1 DEF Pending, Rev
  <2>2. QED
    BY <1>0, <2>1
<1>2. ASSUME NEW v \in Voters, NEW b \in Assets, NEW label \in {"like", "dislike"}, Decide(v, b, label)
      PROVE  /\ IsFiniteSet(Pending(a)')
             /\ Rev(a)' + Cardinality(Pending(a)') <= spent'.votes + Given(a)
  <2>1. /\ vote[v].pc = "idle" /\ spent'.votes = spent.votes + 1
        /\ vote' = [vote EXCEPT ![v] = [pc |-> "asset", a |-> b, label |-> label, rev |-> Rev(b)]]
        /\ UNCHANGED hist
    BY <1>2 DEF Decide, labels, TypeInv, TypeOK
  <2>2. Rev(a)' = Rev(a)
    BY <2>1 DEF Rev
  <2>3. Pending(a)' = IF a = b THEN Pending(a) \cup {v} ELSE Pending(a)
    <3>1. \A w \in Voters : vote'[w] = IF w = v THEN [pc |-> "asset", a |-> b, label |-> label, rev |-> Rev(b)] ELSE vote[w]
      BY <1>t, <2>1
    <3>2. QED
      BY <2>1, <3>1 DEF Pending
  <2>4. v \notin Pending(a)
    BY <2>1 DEF Pending
  <2>5. IsFiniteSet(Pending(a)') /\ Cardinality(Pending(a)') <= Cardinality(Pending(a)) + 1
    <3>1. /\ IsFiniteSet(Pending(a) \cup {v})
          /\ Cardinality(Pending(a) \cup {v}) = Cardinality(Pending(a)) + 1
      BY <1>0, <2>4, FS_AddElement
    <3>2. CASE a = b
      BY <1>0, <2>3, <3>1, <3>2
    <3>3. CASE a # b
      BY <1>0, <2>3, <3>3
    <3>4. QED
      BY <3>2, <3>3
  <2>6. Cardinality(Pending(a)') \in Nat
    BY <2>5, FS_CardinalityType
  <2>7. QED
    BY <1>0, <2>1, <2>2, <2>5, <2>6
<1>3. ASSUME NEW v \in Voters, vote' = [vote EXCEPT ![v] = NoVote], UNCHANGED hist \/ Apply(v)
      PROVE  /\ IsFiniteSet(Pending(a)')
             /\ Rev(a)' + Cardinality(Pending(a)') <= spent'.votes + Given(a)
  <2>1. Pending(a)' = Pending(a) \ {v}
    BY <1>t, <1>3 DEF Pending, NoVote
  <2>2. /\ IsFiniteSet(Pending(a) \ {v})
        /\ Cardinality(Pending(a) \ {v}) = IF v \in Pending(a) THEN Cardinality(Pending(a)) - 1
                                                              ELSE Cardinality(Pending(a))
    BY <1>0, FS_RemoveElement
  <2>3. Rev(a)' = Rev(a) \/ (Rev(a)' = Rev(a) + 1 /\ v \in Pending(a))
    <3>1. CASE UNCHANGED hist
      BY <3>1 DEF Rev
    <3>2. CASE Apply(v) /\ a = vote[v].a
      <4>1. v \in Pending(a)
        BY <3>2 DEF Apply, Pending
      <4>2. QED
        BY <3>2, <4>1, ApplyIs DEF TypeInv
    <3>3. CASE Apply(v) /\ a # vote[v].a
      <4>1. vote[v].a \in Assets
        BY <1>t, <3>3 DEF Apply, VotersKnow
      <4>2. QED
        BY <3>3, <4>1 DEF Apply, Rev, TypeInv, TypeOK
    <3>4. QED
      BY <1>3, <3>1, <3>2, <3>3
  <2>4. Cardinality(Pending(a) \ {v}) \in Nat
    BY <2>2, FS_CardinalityType
  <2>5. QED
    BY <1>0, <2>1, <2>2, <2>3, <2>4
<1>4. ASSUME NEW v \in Voters, vote[v].pc # "idle", vote' = [vote EXCEPT ![v].pc = "models"], UNCHANGED hist
      PROVE  /\ IsFiniteSet(Pending(a)')
             /\ Rev(a)' + Cardinality(Pending(a)') <= spent'.votes + Given(a)
  <2>1. \A w \in Voters : vote'[w].a = vote[w].a /\ (vote'[w].pc = "idle" <=> vote[w].pc = "idle")
    BY <1>t, <1>4 DEF Vote
  <2>2. Pending(a)' = Pending(a) /\ Rev(a)' = Rev(a)
    BY <1>4, <2>1 DEF Pending, Rev
  <2>3. QED
    BY <1>0, <2>2
<1>5. QED
  <2>1. \A v \in Voters : Judge(v) =>
          \/ vote' = [vote EXCEPT ![v] = NoVote] /\ UNCHANGED hist
          \/ vote[v].pc # "idle" /\ vote' = [vote EXCEPT ![v].pc = "models"] /\ UNCHANGED hist
    BY DEF Judge, labels
  <2>2. \A v \in Voters : Apply(v) => vote' = [vote EXCEPT ![v] = NoVote]
    BY DEF Apply
  <2>3. (\E v \in Voters : Votes(v)) \/ UNCHANGED <<vote, hist>>
    BY Frames DEF Votes, Voter
  <2>4. QED
    BY <1>1, <1>2, <1>3, <1>4, <2>1, <2>2, <2>3 DEF Votes, Voter

LEMMA HistStep ==
    ASSUME TypeInv, [Next]_vars
    PROVE  /\ hist' \in [Assets -> Seq({"like", "dislike"})]
           /\ \A a \in Assets : Rev(a)' <= MaxVotes + 1
<1>1. hist' \in [Assets -> Seq({"like", "dislike"})]
  <2>0. hist \in [Assets -> Seq({"like", "dislike"})]
    BY DEF TypeInv, TypeOK
  <2>1. ASSUME NEW v \in Voters, Apply(v) PROVE hist' \in [Assets -> Seq({"like", "dislike"})]
    <3>1. vote[v].a \in Assets
      BY <2>1 DEF Apply, TypeInv, VotersKnow
    <3>2. PICK a \in Assets : a = vote[v].a
      BY <3>1
    <3>3. hist' = [hist EXCEPT ![a] = Append(hist[a], vote[v].label)] /\ hist'[a] \in Seq({"like", "dislike"})
      BY <2>1, <3>2, ApplyIs DEF TypeInv
    <3>4. QED
      BY <2>0, <3>3
  <2>2. QED
    BY <2>0, <2>1, Frames
<1>2. ASSUME NEW a \in Assets PROVE Rev(a)' <= MaxVotes + 1
  <2>1. Cardinality(Pending(a)') \in Nat /\ Rev(a)' + Cardinality(Pending(a)') <= spent'.votes + Given(a)
    BY PendingStep, FS_CardinalityType
  <2>2. spent'.votes \in 0 .. MaxVotes /\ Given(a) \in 0 .. 1 /\ Rev(a)' \in Nat
    BY SpentStep, HistGrows DEF Given, TypeInv
  <2>3. QED
    BY <2>1, <2>2, Bounds
<1>3. QED
  BY <1>1, <1>2

LEMMA DatasetIs ==
    ASSUME TypeOK
    PROVE  /\ Dataset \in Snapshots /\ <<>> \in Snapshots
           /\ DOMAIN Dataset \subseteq Assets
           /\ \A a \in DOMAIN Dataset : Dataset[a] = Rev(a) /\ Rev(a) \in 1 .. MaxVotes + 1
<1> DEFINE S == {b \in ready : Labelled(b)}
<1>1. S \in SUBSET Assets
  BY DEF TypeOK
<1>2. \A a \in S : Rev(a) \in 1 .. MaxVotes + 1
  BY <1>1, HistIs DEF Labelled
<1>3. Dataset = [a \in S |-> Rev(a)]
  BY DEF Dataset
<1> HIDE DEF S
<1>4. Dataset \in [S -> 1 .. MaxVotes + 1] /\ DOMAIN Dataset = S
  BY <1>2, <1>3
<1>5. <<>> \in [{} -> 1 .. MaxVotes + 1]
  OBVIOUS
<1>6. QED
  BY <1>1, <1>2, <1>3, <1>4, <1>5 DEF Snapshots

(* What a training run may do: go on with the data it has or reads, or end *)
(* and give its place up, to a model of its own or to nobody.              *)
LEMMA TrainsAre ==
    ASSUME TypeOK, NEW k \in Kinds, Trains(k)
    PROVE  \/ /\ train[k].pc = "none" /\ UNCHANGED model
              /\ Len(model) + Cardinality(Busy) < MaxModels
              /\ Stage(k, "queued", Dataset)
           \/ /\ train[k].pc # "none" /\ UNCHANGED model
              /\ \E pc \in {"load", "fit", "assets", "model"} :
                    Stage(k, pc, Dataset) \/ Stage(k, pc, train[k].snap)
           \/ /\ train[k].pc # "none" /\ Abandon(k)
              /\ \/ UNCHANGED model
                 \/ model' = Append(model, New(k, "validated"))
                 \/ Activate(k)
<1>1. CASE RequestTraining(k)
  BY <1>1 DEF RequestTraining, Busy
<1>2. CASE StartTraining(k)
  BY <1>2 DEF StartTraining
<1>3. CASE Load(k)
  BY <1>3 DEF Load
<1>4. CASE Fit(k)
  BY <1>4 DEF Fit
<1>5. CASE CheckTraining(k)
  BY <1>5 DEF CheckTraining
<1>6. CASE Activate(k)
  BY <1>6 DEF Activate
<1>7. QED
  BY <1>1, <1>2, <1>3, <1>4, <1>5, <1>6 DEF Trains, Trainer

LEMMA TrainStep ==
    ASSUME TypeInv, [Next]_vars
    PROVE  train' \in [Kinds -> Train]
<1>0. train \in [Kinds -> Train]
  BY DEF TypeInv, TypeOK
<1>1. ASSUME NEW k \in Kinds, Trains(k) PROVE train' \in [Kinds -> Train]
  <2>1. PICK pc \in {"none", "queued", "load", "fit", "assets", "model"}, snap \in Snapshots :
            train' = [train EXCEPT ![k] = [pc |-> pc, snap |-> snap]]
    <3>1. Dataset \in Snapshots /\ <<>> \in Snapshots /\ train[k].snap \in Snapshots
      BY <1>0, DatasetIs DEF TypeInv, Train
    <3>2. QED
      BY <1>1, <3>1, TrainsAre DEF TypeInv, Stage, Abandon, NoTrain
  <2>2. [pc |-> pc, snap |-> snap] \in Train
    BY DEF Train
  <2>3. QED
    BY <1>0, <2>1, <2>2
<1>2. QED
  BY <1>0, <1>1, Frames

LEMMA BusyStep ==
    ASSUME TypeInv, [Next]_vars
    PROVE  IsFiniteSet(Busy') /\ Len(model') + Cardinality(Busy') <= MaxModels
<1>0. /\ IsFiniteSet(Busy) /\ Cardinality(Busy) \in Nat /\ Len(model) \in Nat
      /\ Len(model) + Cardinality(Busy) <= MaxModels /\ MaxModels \in Nat
      /\ train \in [Kinds -> Train]
  BY ModelsAre, Bounds, FS_CardinalityType DEF TypeInv, TypeOK, BudgetInv
<1>1. CASE UNCHANGED <<train, model>>
  BY <1>0, <1>1 DEF Busy
<1>2. CASE UNCHANGED train /\ \E v \in Voters : Apply(v)
  <2>1. Len(model') = Len(model)
    BY <1>2, FlagsAre DEF TypeInv
  <2>2. Busy' = Busy
    BY <1>2 DEF Busy
  <2>3. QED
    BY <1>0, <2>1, <2>2
<1>3. ASSUME NEW k \in Kinds, Trains(k)
      PROVE  IsFiniteSet(Busy') /\ Len(model') + Cardinality(Busy') <= MaxModels
  <2>1. CASE /\ train[k].pc = "none" /\ UNCHANGED model
             /\ Len(model) + Cardinality(Busy) < MaxModels
             /\ Stage(k, "queued", Dataset)
    <3>1. Busy' = Busy \cup {k} /\ k \notin Busy
      BY <1>0, <2>1 DEF Busy, Stage
    <3>2. /\ IsFiniteSet(Busy \cup {k})
          /\ Cardinality(Busy \cup {k}) = Cardinality(Busy) + 1
      BY <1>0, <3>1, FS_AddElement
    <3>3. QED
      BY <1>0, <2>1, <3>1, <3>2
  <2>2. CASE /\ train[k].pc # "none" /\ UNCHANGED model
             /\ \E pc \in {"load", "fit", "assets", "model"} :
                    Stage(k, pc, Dataset) \/ Stage(k, pc, train[k].snap)
    <3>1. Busy' = Busy
      BY <1>0, <2>2 DEF Busy, Stage
    <3>2. QED
      BY <1>0, <2>2, <3>1
  <2>3. CASE /\ train[k].pc # "none" /\ Abandon(k)
             /\ \/ UNCHANGED model
                \/ model' = Append(model, New(k, "validated"))
                \/ Activate(k)
    <3>1. Busy' = Busy \ {k} /\ k \in Busy
      BY <1>0, <2>3 DEF Busy, Abandon, NoTrain
    <3>2. /\ IsFiniteSet(Busy \ {k})
          /\ Cardinality(Busy \ {k}) = Cardinality(Busy) - 1
      BY <1>0, <3>1, FS_RemoveElement
    <3>3. Len(model') = Len(model) \/ Len(model') = Len(model) + 1
      BY <2>3, ValidatesIs, ActivatesIs DEF TypeInv
    <3>4. QED
      BY <1>0, <3>1, <3>2, <3>3
  <2>4. QED
    BY <1>3, <2>1, <2>2, <2>3, TrainsAre DEF TypeInv
<1>4. QED
  BY <1>1, <1>2, <1>3, Frames, VotesFrame DEF Votes, Voter

(* Of each kind at most one model serves.                                  *)
LEMMA OneServes ==
    ASSUME TypeInv, [Next]_vars, NEW j \in Kinds
    PROVE  Cardinality({m \in Active' : model'[m].kind = j}) <= 1
<1>0. Cardinality({m \in Active : model[m].kind = j}) <= 1
  BY DEF TypeInv, TypeOK
<1>1. ASSUME Active' = Active, \A m \in Active : model'[m].kind = model[m].kind
      PROVE  Cardinality({m \in Active' : model'[m].kind = j}) <= 1
  <2>1. {m \in Active' : model'[m].kind = j} = {m \in Active : model[m].kind = j}
    BY <1>1
  <2>2. QED
    BY <1>0, <2>1
<1>2. CASE UNCHANGED model
  BY <1>1, <1>2 DEF Active
<1>3. CASE \E v \in Voters : Apply(v)
  BY <1>1, <1>3, FlagsAre DEF TypeInv, Active
<1>4. ASSUME NEW k \in Kinds, model' = Append(model, New(k, "validated"))
      PROVE  Cardinality({m \in Active' : model'[m].kind = j}) <= 1
  <2>1. Active' = Active /\ \A m \in DOMAIN model : model'[m] = model[m]
    BY <1>4, ValidatesIs DEF TypeInv
  <2>2. Active \subseteq DOMAIN model
    BY DEF Active
  <2>3. QED
    BY <1>1, <2>1, <2>2
<1>5. ASSUME NEW k \in Kinds, Activate(k)
      PROVE  Cardinality({m \in Active' : model'[m].kind = j}) <= 1
  <2>1. /\ Active' = (Active \ Serving(k)) \cup {Len(model) + 1}
        /\ \A m \in DOMAIN model : model'[m].kind = model[m].kind
        /\ model'[Len(model) + 1].kind = k
    BY <1>5, ActivatesIs, NewIs DEF TypeInv
  <2>2. Active \subseteq DOMAIN model /\ Len(model) + 1 \notin Active
    BY ModelsAre DEF TypeInv
  <2>3. CASE j = k
    <3>1. {m \in Active' : model'[m].kind = j} = {Len(model) + 1}
      BY <2>1, <2>2, <2>3 DEF Serving
    <3>2. Cardinality({Len(model) + 1}) = 1
      BY FS_Singleton
    <3>3. Cardinality({m \in Active' : model'[m].kind = j}) = 1
      BY <3>1, <3>2, Zenon
    <3>4. QED
      BY <3>3
  <2>4. CASE j # k
    <3>1. {m \in Active' : model'[m].kind = j} = {m \in Active : model[m].kind = j}
      BY <2>1, <2>2, <2>4 DEF Serving
    <3>2. QED
      BY <1>0, <3>1
  <2>5. QED
    BY <2>3, <2>4
<1>6. QED
  <2>1. \A k \in Kinds : Trains(k) => UNCHANGED model \/ Activate(k) \/ model' = Append(model, New(k, "validated"))
    BY TrainsAre DEF TypeInv
  <2>2. QED
    BY <1>2, <1>3, <1>4, <1>5, <2>1, Frames

(***************************************************************************)
(* Tasks and executors.                                                    *)
(***************************************************************************)
Statuses == {"queued", "running", "succeeded", "failed", "cancelled"}

LEMMA InputsAre ==
    ASSUME TypeInv, NEW a \in Fresh, NEW kind \in {"extract", "predict"}, loc[a] # 0
    PROVE  InputsOf(kind, a) \in Inputs
<1>1. loc[a] \in 1 .. MaxMoves + 1
  BY Bounds DEF TypeInv, TypeOK
<1>2. Rev(a) \in 0 .. MaxVotes
  <2>1. /\ a \in Assets /\ IsFiniteSet(Pending(a)) /\ Given(a) = 0
        /\ Rev(a) + Cardinality(Pending(a)) <= spent.votes + Given(a)
    <3>1. a \in Assets
      BY Bounds
    <3>2. IsFiniteSet(Pending(a)) /\ Rev(a) + Cardinality(Pending(a)) <= spent.votes + Given(a)
      BY <3>1 DEF TypeInv, BudgetInv
    <3>3. QED
      BY <3>1, <3>2 DEF Given
  <2>2. Cardinality(Pending(a)) \in Nat /\ Rev(a) \in Nat /\ spent.votes \in 0 .. MaxVotes
    BY <2>1, FS_CardinalityType, HistIs DEF TypeInv, TypeOK
  <2>3. QED
    BY <2>1, <2>2, Bounds
<1>3. Active \subseteq 1 .. MaxModels
  BY ModelsAre DEF TypeInv
<1>4. (IF kind = "predict" THEN Active ELSE {}) \in SUBSET (1 .. MaxModels)
  BY <1>3
<1>5. QED
  BY <1>1, <1>2, <1>4 DEF InputsOf, Inputs

(* What an executor may do: go on with its task, or end it.                *)
LEMMA RunnerIs ==
    ASSUME NEW r \in Runners, Runner(r)
    PROVE  /\ run[r].pc # "idle"
           /\ \/ /\ UNCHANGED task
                 /\ \/ run[r].pc \in {"start", "work"} /\ \E pc \in {"work", "save"} : Go(r, pc)
                    \/ run[r].pc = "start" /\ run[r].on.models \subseteq Active /\ Go(r, "score")
                    \/ /\ run[r].pc \in {"score", "assets", "models"}
                       /\ \E pc \in {"assets", "models", "write"} : Go(r, pc)
              \/ \E st \in {"succeeded", "failed", "cancelled"} : Finish(r, st)
<1>1. CASE StartExtract(r)
  BY <1>1 DEF StartExtract, At
<1>2. CASE Work(r)
  BY <1>2 DEF Work, At
<1>3. CASE Save(r)
  BY <1>3 DEF Save, At
<1>4. CASE Freeze(r)
  BY <1>4 DEF Freeze, At
<1>5. CASE Score(r)
  BY <1>5 DEF Score, At
<1>6. CASE CheckAsset(r)
  BY <1>6 DEF CheckAsset, At
<1>7. CASE CheckModels(r)
  BY <1>7 DEF CheckModels, At
<1>8. CASE Write(r)
  BY <1>8 DEF Write, At
<1>9. QED
  BY <1>1, <1>2, <1>3, <1>4, <1>5, <1>6, <1>7, <1>8 DEF Runner

LEMMA TaskStep ==
    ASSUME TypeInv, [Next]_vars
    PROVE  DOMAIN task' \subseteq Inputs /\ \A i \in DOMAIN task' : task'[i] \in Statuses
<1>0. DOMAIN task \subseteq Inputs /\ \A i \in DOMAIN task : task[i] \in Statuses
  BY DEF TypeInv, TypeOK, Statuses
<1>1. CASE UNCHANGED task
  BY <1>0, <1>1
<1>2. ASSUME NEW a \in Fresh, NEW kind \in {"extract", "predict"}, Enqueue(kind, a)
      PROVE  DOMAIN task' \subseteq Inputs /\ \A i \in DOMAIN task' : task'[i] \in Statuses
  <2>1. PICK i \in Inputs : task' = [j \in DOMAIN task \cup {i} |-> IF j = i THEN "queued" ELSE task[j]]
    <3>1. InputsOf(kind, a) \in Inputs
      BY <1>2, InputsAre DEF Enqueue
    <3>2. QED
      BY <1>2, <3>1 DEF Enqueue
  <2>2. QED
    BY <1>0, <2>1 DEF Statuses
<1>3. ASSUME NEW i, NEW st \in Statuses, task' = [task EXCEPT ![i] = st]
      PROVE  DOMAIN task' \subseteq Inputs /\ \A j \in DOMAIN task' : task'[j] \in Statuses
  BY <1>0, <1>3
<1>4. QED
  <2>1. Asks => \E a \in Fresh, kind \in {"extract", "predict"} : Enqueue(kind, a)
    BY DEF Asks, Ask, Discover
  <2>2. Claims \/ (\E r \in Runners : Runner(r)) => UNCHANGED task \/ \E i, st : st \in Statuses /\ task' = [task EXCEPT ![i] = st]
    <3>1. Claims => \E i, st : st \in Statuses /\ task' = [task EXCEPT ![i] = st]
      BY DEF Claims, Claim, Statuses
    <3>2. (\E r \in Runners : Runner(r)) => UNCHANGED task \/ \E i, st : st \in Statuses /\ task' = [task EXCEPT ![i] = st]
      BY RunnerIs DEF Finish, Statuses
    <3>3. QED
      BY <3>1, <3>2
  <2>3. QED
    BY <1>1, <1>2, <1>3, <2>1, <2>2, Frames

LEMMA RunStep ==
    ASSUME TypeInv, [Next]_vars
    PROVE  run' \in [Runners -> Run] /\ RunnersKnow'
<1>0. run \in [Runners -> Run] /\ RunnersKnow /\ DOMAIN task \subseteq Inputs
  BY DEF TypeInv, TypeOK
<1>1. DOMAIN model \subseteq DOMAIN model' /\ Active \subseteq DOMAIN model
  BY ModelAfter DEF TypeInv, Active
<1>2. CASE UNCHANGED run
  BY <1>0, <1>1, <1>2 DEF RunnersKnow
<1>3. ASSUME NEW r \in Runners, NEW pc \in {"work", "save", "score", "assets", "models", "write"},
             run[r].pc # "idle", Go(r, pc),
             pc \in {"score", "assets", "models", "write"} => run[r].on.models \subseteq DOMAIN model
      PROVE  run' \in [Runners -> Run] /\ RunnersKnow'
  <2>1. run' = [run EXCEPT ![r].pc = pc]
    BY <1>3 DEF Go
  <2>2. run' \in [Runners -> Run]
    BY <1>0, <2>1 DEF Run
  <2>3. \A s \in Runners : run'[s].on = run[s].on /\ (s # r => run'[s].pc = run[s].pc)
    BY <1>0, <2>1 DEF Run
  <2>4. run'[r].pc = pc
    BY <1>0, <2>1 DEF Run
  <2>5. QED
    BY <1>0, <1>1, <1>3, <2>2, <2>3, <2>4 DEF RunnersKnow
<1>4. ASSUME NEW r \in Runners, NEW pc \in {"idle", "start"}, NEW i \in Inputs \cup {NoTask},
             run' = [run EXCEPT ![r] = [pc |-> pc, on |-> i]], pc = "idle" \/ i \in Inputs
      PROVE  run' \in [Runners -> Run] /\ RunnersKnow'
  <2>1. [pc |-> pc, on |-> i] \in Run
    BY DEF Run
  <2>2. run' \in [Runners -> Run]
    BY <1>0, <1>4, <2>1
  <2>3. QED
    BY <1>0, <1>1, <1>4, <2>2 DEF RunnersKnow
<1>5. QED
  <2>1. ASSUME NEW r \in Runners, NEW i \in DOMAIN task, Claim(r, i)
        PROVE  run' \in [Runners -> Run] /\ RunnersKnow'
    BY <1>0, <1>4, <2>1 DEF Claim
  <2>2. ASSUME NEW r \in Runners, Runner(r)
        PROVE  run' \in [Runners -> Run] /\ RunnersKnow'
    <3>1. CASE \E st \in {"succeeded", "failed", "cancelled"} : Finish(r, st)
      BY <1>4, <3>1 DEF Finish
    <3>2. CASE \E pc \in {"work", "save"} : Go(r, pc)
      BY <1>3, <2>2, <3>2, RunnerIs
    <3>3. CASE run[r].on.models \subseteq Active /\ Go(r, "score")
      BY <1>1, <1>3, <2>2, <3>3, RunnerIs
    <3>4. CASE /\ run[r].pc \in {"score", "assets", "models"}
               /\ \E pc \in {"assets", "models", "write"} : Go(r, pc)
      BY <1>0, <1>3, <3>4 DEF RunnersKnow
    <3>5. QED
      BY <2>2, <3>1, <3>2, <3>3, <3>4, RunnerIs
  <2>3. QED
    BY <1>2, <2>1, <2>2, Frames DEF Claims

LEMMA PredStep ==
    ASSUME TypeInv, [Next]_vars
    PROVE  pred' \subseteq [a : Fresh, rev : 0 .. MaxVotes, model : DOMAIN model']
<1>0. /\ pred \subseteq [a : Fresh, rev : 0 .. MaxVotes, model : DOMAIN model]
      /\ DOMAIN model \subseteq DOMAIN model'
  BY ModelAfter DEF TypeInv, TypeOK
<1>1. ASSUME NEW r \in Runners, Write(r)
      PROVE  pred' \subseteq [a : Fresh, rev : 0 .. MaxVotes, model : DOMAIN model]
  <2>1. run[r].on \in Inputs /\ run[r].on.models \subseteq DOMAIN model
    BY <1>1 DEF Write, At, TypeInv, RunnersKnow
  <2>2. \/ UNCHANGED pred
        \/ pred' = pred \cup {[a |-> run[r].on.a, rev |-> run[r].on.rev, model |-> m] : m \in run[r].on.models}
    BY <1>1 DEF Write
  <2>3. run[r].on.a \in Fresh /\ run[r].on.rev \in 0 .. MaxVotes
    BY <2>1 DEF Inputs
  <2>4. QED
    BY <1>0, <2>1, <2>2, <2>3
<1>2. QED
  BY <1>0, <1>1, Frames

LEMMA ReadyStep ==
    ASSUME TypeInv, [Next]_vars
    PROVE  ready' \subseteq Assets /\ ready \subseteq ready'
<1>0. ready \subseteq Assets
  BY DEF TypeInv, TypeOK
<1>1. ASSUME NEW r \in Runners, Save(r) PROVE ready' \subseteq Assets /\ ready \subseteq ready'
  <2>1. run[r].on \in Inputs
    BY <1>1 DEF Save, At, TypeInv, RunnersKnow
  <2>2. run[r].on.a \in Assets
    BY <2>1, Bounds DEF Inputs
  <2>3. ready' = ready \/ ready' = ready \cup {run[r].on.a}
    BY <1>1 DEF Save
  <2>4. QED
    BY <1>0, <2>2, <2>3
<1>2. QED
  BY <1>0, <1>1, Frames

LEMMA TypeStep ==
    ASSUME TypeInv, TransactionsInv, [Next]_vars
    PROVE  TypeInv'
<1>1. TypeOK'
  <2>1. model' \in Seq(Model) /\ Len(model') <= MaxModels
    <3>1. model' \in Seq(Model)
      BY ModelAfter DEF TypeInv
    <3>2. Len(model') \in Nat /\ Cardinality(Busy') \in Nat /\ Len(model') + Cardinality(Busy') <= MaxModels
      BY <3>1, BusyStep, FS_CardinalityType, LenProperties
    <3>3. QED
      BY <3>1, <3>2, Bounds
  <2>2. Assets \ Fresh \subseteq ready
    BY DEF TypeInv, TypeOK
  <2>3. QED
    BY <2>1, <2>2, HistStep, ReadyStep, FilesStep, OneServes, TaskStep, PredStep, RunStep,
       TrainStep, VoteStep, LocksType, SpentStep DEF TypeInv, TypeOK, Statuses
<1>2. BudgetInv'
  <2>1. \A a \in Assets : Given(a)' = Given(a)
    BY DEF Given
  <2>2. QED
    BY <2>1, FilesStep, PendingStep, BusyStep DEF BudgetInv
<1>3. QED
  BY <1>1, <1>2, VoteStep, RunStep DEF TypeInv

(***************************************************************************)
(* What a transaction knows by its locks stays so while others go on.      *)
(***************************************************************************)
Keeps(x) == Locks(x)' = Locks(x) /\ held[x] \subseteq held'[x] /\ want'[x] \subseteq want[x]

LEMMA OthersKeep ==
    ASSUME TypeOK, NEW y \in Actors,
           UNCHANGED locks \/ Lock(y) \/ Ends(y) \/ \E rows : Wants(y, rows),
           NEW x \in Actors, x # y
    PROVE  Keeps(x)
<1>1. held \in [Actors -> SUBSET Rows] /\ want \in [Actors -> SUBSET Rows]
  BY DEF TypeOK
<1>2. held'[x] = held[x] /\ want'[x] = want[x]
  BY <1>1 DEF locks, Lock, Ends, Wants
<1>3. QED
  BY <1>2 DEF Keeps, Locks

LEMMA AllKeep ==
    ASSUME TypeOK, UNCHANGED locks \/ \E y \in Actors : Lock(y), NEW x \in Actors
    PROVE  Keeps(x)
<1>1. held \in [Actors -> SUBSET Rows] /\ want \in [Actors -> SUBSET Rows]
  BY DEF TypeOK
<1>2. CASE UNCHANGED locks
  BY <1>2 DEF locks, Keeps, Locks
<1>3. CASE Lock(x)
  <2>1. PICK r \in want[x] : /\ held' = [held EXCEPT ![x] = held[x] \cup {r}]
                             /\ want' = [want EXCEPT ![x] = want[x] \ {r}]
    BY <1>3, LockIs
  <2>2. held'[x] = held[x] \cup {r} /\ want'[x] = want[x] \ {r}
    BY <1>1, <2>1
  <2>3. QED
    BY <2>1, <2>2 DEF Keeps, Locks
<1>4. ASSUME NEW y \in Actors, Lock(y), y # x PROVE Keeps(x)
  BY <1>4, OthersKeep
<1>5. QED
  BY <1>2, <1>3, <1>4

(* Nobody relabels an asset another one has locked.                        *)
LEMMA HeldLabel ==
    ASSUME TypeInv, LocksInv, TransactionsInv, [Next]_vars,
           NEW x \in Actors, NEW a \in Assets, a \in held[x]
    PROVE  hist'[a] = hist[a] \/ (x \in Voters /\ Apply(x))
<1>1. ASSUME NEW v \in Voters, Apply(v), hist'[a] # hist[a] PROVE x = v
  <2>1. vote[v].pc = "models" /\ vote[v].a \in held[v] /\ vote[v].a \in Assets
    BY <1>1 DEF Apply, TransactionsInv, VoterInv, TypeInv, VotersKnow
  <2>2. vote[v].a = a
    BY <1>1, <2>1 DEF Apply, TypeInv, TypeOK
  <2>3. x = v \/ Shared(x, v, a)
    BY <2>1, <2>2, Bounds DEF LocksInv, Exclusive
  <2>4. QED
    BY <2>3 DEF Shared
<1>2. QED
  BY <1>1, Frames

(* A model that comes to serve is a training run's.                        *)
LEMMA NewServes ==
    ASSUME TypeOK, [Next]_vars
    PROVE  \/ Active' = Active
           \/ \E k \in Kinds : Activate(k)
<1>1. CASE UNCHANGED model
  BY <1>1 DEF Active
<1>2. CASE \E v \in Voters : Apply(v)
  BY <1>2, FlagsAre
<1>3. \A k \in Kinds : Trains(k) => UNCHANGED model \/ Activate(k) \/ model' = Append(model, New(k, "validated"))
  BY TrainsAre
<1>4. CASE \E k \in Kinds : model' = Append(model, New(k, "validated"))
  BY <1>4, ValidatesIs
<1>5. QED
  BY <1>1, <1>2, <1>3, <1>4, Frames

LEMMA ActivateHolds ==
    ASSUME TypeInv, TransactionsInv, NEW k \in Kinds, Activate(k)
    PROVE  /\ DOMAIN train[k].snap \subseteq held["train"] /\ RequireCurrent(train[k].snap)
           /\ \A m \in Serving(k) : ModelRow(m) \in held["train"]
BY DEF Activate, TransactionsInv, TrainInv, Granted, Locks

LEMMA VoterKeeps ==
    ASSUME TypeInv, LocksInv, TransactionsInv, [Next]_vars,
           NEW v \in Voters, vote'[v] = vote[v], Keeps(v)
    PROVE  VoterInv(v)'
<1>0. VoterInv(v)
  BY DEF TransactionsInv
<1>1. CASE vote[v].pc # "models"
  BY <1>0, <1>1 DEF VoterInv, Keeps, NoLocks, Locks
<1>2. CASE vote[v].pc = "models"
  <2> DEFINE a == vote[v].a  label == vote[v].label
  <2>1. a \in held[v] /\ a \in Assets /\ \A m \in Affected(a, label) : ModelRow(m) \in Locks(v)
    BY <1>0, <1>2 DEF VoterInv, TypeInv, VotersKnow
  <2>2. hist'[a] = hist[a]
    <3>1. ~Apply(v)
      BY <1>2 DEF Apply, NoVote, TypeInv, TypeOK
    <3>2. QED
      BY <2>1, <3>1, HeldLabel, Bounds
  <2>3. ASSUME NEW m \in Active', Changes(a, label)', a \in DOMAIN model'[m].snap
        PROVE  ModelRow(m) \in Locks(v)
    <3>1. Changes(a, label)
      BY <2>2, <2>3 DEF Changes, Labelled, Revised, Rev
    <3>2. ASSUME m \in Active PROVE ModelRow(m) \in Locks(v)
      <4>1. model'[m].snap = model[m].snap
        BY <3>2, ModelAfter DEF Active, TypeInv
      <4>2. QED
        BY <2>1, <2>3, <3>1, <3>2, <4>1 DEF Affected
    <3>3. ASSUME NEW k \in Kinds, Activate(k), m \notin Active PROVE FALSE
      <4>1. m = Len(model) + 1 /\ model'[m].snap = train[k].snap
        <5>1. TypeOK
          BY DEF TypeInv
        <5>2. /\ Active' = (Active \ Serving(k)) \cup {Len(model) + 1}
              /\ model'[Len(model) + 1] = New(k, "active")
              /\ New(k, "active").snap = train[k].snap
          BY <3>3, <5>1, ActivatesIs, NewIs
        <5>3. QED
          BY <2>3, <3>3, <5>2
      <4>2. a \in held["train"]
        BY <2>3, <3>3, <4>1, ActivateHolds
      <4>3. Shared(v, "train", a) \/ v = "train"
        BY <2>1, <4>2, Bounds DEF LocksInv, Exclusive
      <4>4. QED
        BY <4>3, Bounds DEF Shared
    <3>4. QED
      BY <2>3, <3>2, <3>3, NewServes DEF TypeInv
  <2>4. \A m \in Affected(a, label)' : ModelRow(m) \in Locks(v)
    BY <2>3 DEF Affected
  <2>5. QED
    BY <1>2, <2>1, <2>4 DEF VoterInv, Keeps, ModelRow
<1>3. QED
  BY <1>1, <1>2

LEMMA RunnerKeeps ==
    ASSUME TypeInv, LocksInv, TransactionsInv, [Next]_vars,
           NEW r \in Runners, run'[r] = run[r], Keeps(r)
    PROVE  RunnerInv(r)'
<1> DEFINE i == run[r].on
<1>0. RunnerInv(r) /\ (run[r].pc # "idle" => i \in Inputs)
  BY DEF TransactionsInv, TypeInv, RunnersKnow
<1>1. ASSUME run[r].pc \in {"models", "write"}
      PROVE  Rev(i.a)' = Rev(i.a)
  <2>1. i.a \in held[r] /\ i.a \in Assets
    BY <1>0, <1>1, Bounds DEF RunnerInv, Inputs
  <2>2. hist'[i.a] = hist[i.a]
    BY <2>1, HeldLabel, Bounds
  <2>3. QED
    BY <2>2 DEF Rev
<1>2. ASSUME run[r].pc = "write"
      PROVE  i.models \subseteq Active'
  <2>1. ModelRows(i) \subseteq held[r] /\ i.models \subseteq Active
    BY <1>0, <1>2 DEF RunnerInv, Locks
  <2>2. ASSUME NEW k \in Kinds, Activate(k), NEW m \in i.models PROVE m \notin Serving(k)
    <3>1. SUFFICES ASSUME m \in Serving(k) PROVE FALSE
      OBVIOUS
    <3>2. ModelRow(m) \in held["train"] /\ ModelRow(m) \in held[r]
      BY <2>1, <2>2, <3>1, ActivateHolds DEF ModelRows
    <3>3. Shared(r, "train", ModelRow(m)) \/ r = "train"
      BY <3>2, Bounds DEF LocksInv, Exclusive
    <3>4. QED
      BY <3>3, Bounds DEF Shared
  <2>3. QED
    BY <2>1, <2>2, NewServes, ActivatesIs DEF TypeInv
<1>3. QED
  <2>1. UNCHANGED ModelRows(i)
    BY DEF ModelRows, ModelRow
  <2>2. QED
    BY <1>0, <1>1, <1>2 DEF RunnerInv, Keeps, NoLocks, Locks, ModelRows, ModelRow

LEMMA TrainKeeps ==
    ASSUME TypeInv, LocksInv, TransactionsInv, [Next]_vars,
           NEW k \in Kinds, train'[k] = train[k], Keeps("train")
    PROVE  TrainInv(k)'
<1> DEFINE snap == train[k].snap
<1>0. TrainInv(k) /\ OneTraining /\ train \in [Kinds -> Train]
  BY DEF TransactionsInv, TypeInv, TypeOK
<1>1. DOMAIN snap \subseteq Assets /\ \A a \in DOMAIN snap : snap[a] \in Nat
  BY <1>0, SnapshotsAre DEF Train
<1>2. \A a \in DOMAIN snap : snap[a] <= Rev(a)'
  BY <1>0, <1>1, HistGrows, HistIs DEF TrainInv, TypeInv
<1>3. ASSUME train[k].pc = "model"
      PROVE  RequireCurrent(snap)' /\ \A m \in Serving(k)' : m \in Serving(k)
  <2>1. \A a \in DOMAIN snap : hist'[a] = hist[a]
    BY <1>0, <1>1, <1>3, HeldLabel, Bounds DEF TrainInv
  <2>2. RequireCurrent(snap)'
    BY <1>0, <1>3, <2>1 DEF TrainInv, RequireCurrent, Revised, Rev
  <2>3. ASSUME NEW j \in Kinds, Activate(j) PROVE FALSE
    <3>1. j \in Training /\ k \in Training
      BY <1>3, <2>3 DEF Training, Activate
    <3>2. j = k
      BY <1>0, <3>1 DEF OneTraining
    <3>3. QED
      BY <1>0, <1>3, <2>3, <3>2 DEF Activate, Abandon, NoTrain
  <2>4. Active' = Active
    BY <2>3, NewServes DEF TypeInv
  <2>5. \A m \in Active : model'[m].kind = model[m].kind
    BY ModelAfter DEF Active, TypeInv
  <2>6. QED
    BY <2>2, <2>4, <2>5 DEF Serving
<1>4. QED
  BY <1>0, <1>2, <1>3 DEF TrainInv, Keeps, ModelRow

(***************************************************************************)
(* The transaction that takes the step.                                    *)
(***************************************************************************)
LEMMA VoterMoves ==
    ASSUME TypeInv, TransactionsInv, NEW v \in Voters, Votes(v)
    PROVE  VoterInv(v)'
<1>0. /\ held \in [Actors -> SUBSET Rows] /\ want \in [Actors -> SUBSET Rows]
      /\ vote \in [Voters -> Vote] /\ v \in Actors /\ VoterInv(v)
  BY Bounds DEF TypeInv, TypeOK, TransactionsInv
<1>1. ASSUME NEW a \in Assets, NEW label \in {"like", "dislike"}, Decide(v, a, label)
      PROVE  VoterInv(v)'
  <2>1. /\ vote[v].pc = "idle" /\ UNCHANGED held /\ want' = [want EXCEPT ![v] = {a}]
        /\ vote' = [vote EXCEPT ![v] = [pc |-> "asset", a |-> a, label |-> label, rev |-> Rev(a)]]
    BY <1>1 DEF Decide, Wants
  <2>2. held'[v] = {} /\ want'[v] = {a} /\ vote'[v].pc = "asset" /\ vote'[v].a = a
    BY <1>0, <2>1 DEF VoterInv, NoLocks
  <2>3. QED
    BY <2>2 DEF VoterInv, Locks
<1>2. ASSUME Granted(v), vote' = [vote EXCEPT ![v] = NoVote], Ends(v)
      PROVE  VoterInv(v)'
  <2>1. held'[v] = {} /\ want'[v] = {} /\ vote'[v].pc = "idle"
    BY <1>0, <1>2 DEF Granted, Ends, NoVote
  <2>2. QED
    BY <2>1 DEF VoterInv, NoLocks
<1>3. ASSUME vote[v].pc = "asset", Granted(v), vote' = [vote EXCEPT ![v].pc = "models"],
             UNCHANGED <<hist, model>>,
             Wants(v, {ModelRow(m) : m \in Affected(vote[v].a, vote[v].label)})
      PROVE  VoterInv(v)'
  <2> DEFINE a == vote[v].a  label == vote[v].label
             rows == {ModelRow(m) : m \in Affected(a, label)}
  <2>1. vote'[v].pc = "models" /\ vote'[v].a = a /\ vote'[v].label = label
    BY <1>0, <1>3 DEF Vote
  <2>2. held'[v] = {a} /\ want'[v] = rows
    <3>1. held' = held /\ want' = [want EXCEPT ![v] = rows]
      BY <1>3 DEF Wants
    <3>2. held[v] = {a}
      BY <1>0, <1>3 DEF VoterInv, Locks, Granted
    <3> HIDE DEF rows
    <3>3. QED
      BY <1>0, <3>1, <3>2
  <2>3. Affected(a, label)' = Affected(a, label)
    BY <1>3 DEF Affected, Active, Changes, Labelled, Revised, Rev
  <2>4. \A m \in Affected(a, label)' : ModelRow(m) \in rows
    BY <2>3
  <2> HIDE DEF rows
  <2>5. a \in held'[v] /\ Locks(v)' = {a} \cup rows
    BY <2>2 DEF Locks
  <2>6. QED
    BY <2>1, <2>4, <2>5 DEF VoterInv, ModelRow
<1>4. CASE Judge(v)
  <2>1. CASE vote' = [vote EXCEPT ![v] = NoVote] /\ Ends(v)
    BY <1>2, <1>4, <2>1 DEF Judge
  <2>2. CASE ~(vote' = [vote EXCEPT ![v] = NoVote] /\ Ends(v))
    <3>1. /\ vote[v].pc = "asset" /\ Granted(v) /\ vote' = [vote EXCEPT ![v].pc = "models"]
          /\ UNCHANGED <<hist, model>>
          /\ Wants(v, {ModelRow(m) : m \in Affected(vote[v].a, vote[v].label)})
      BY <1>4, <2>2 DEF Judge, labels
    <3>2. QED
      BY <1>3, <3>1
  <2>3. QED
    BY <2>1, <2>2
<1>5. CASE Apply(v)
  BY <1>2, <1>5 DEF Apply
<1>6. QED
  BY <1>1, <1>4, <1>5 DEF Votes, Voter

LEMMA RunnerMoves ==
    ASSUME TypeInv, TransactionsInv, NEW r \in Runners, Runner(r)
    PROVE  RunnerInv(r)'
<1> DEFINE i == run[r].on
<1>0. /\ held \in [Actors -> SUBSET Rows] /\ want \in [Actors -> SUBSET Rows]
      /\ run \in [Runners -> Run] /\ r \in Actors /\ RunnerInv(r) /\ UNCHANGED <<hist, model>>
      /\ run[r].pc # "idle" => i \in Inputs
  BY Bounds, RunnerFrame DEF TypeInv, TypeOK, TransactionsInv, RunnersKnow
<1>1. ASSUME NEW st, Finish(r, st), Granted(r)
      PROVE  RunnerInv(r)'
  <2>1. held'[r] = {} /\ want'[r] = {} /\ run'[r].pc = "idle"
    BY <1>0, <1>1 DEF Granted, Finish, Ends
  <2>2. QED
    BY <2>1 DEF RunnerInv, NoLocks
<1>2. ASSUME NoLocks(r), UNCHANGED locks, NEW pc \in {"work", "save", "score"}, Go(r, pc)
      PROVE  RunnerInv(r)'
  <2>1. NoLocks(r)' /\ run'[r].pc = pc
    BY <1>0, <1>2 DEF NoLocks, locks, Go, Run
  <2>2. QED
    BY <2>1 DEF RunnerInv
<1>3. \A pc \in {"assets", "models", "write"} : Go(r, pc) => run'[r].pc = pc /\ run'[r].on = i
  BY <1>0 DEF Go, Run
<1>4. CASE StartExtract(r) \/ Work(r) \/ Save(r) \/ Freeze(r)
  <2>1. NoLocks(r) /\ Granted(r)
    BY <1>0, <1>4 DEF StartExtract, Work, Save, Freeze, At, RunnerInv, NoLocks, Granted
  <2>2. QED
    BY <1>1, <1>2, <1>4, <2>1 DEF StartExtract, Work, Save, Freeze
<1>5. CASE Score(r)
  <2>0. NoLocks(r) /\ run[r].pc = "score" /\ i \in Inputs
    BY <1>0, <1>5 DEF Score, At, RunnerInv
  <2>1. CASE Finish(r, "failed")
    BY <1>1, <2>0, <2>1 DEF NoLocks, Granted
  <2> DEFINE rows == {i.a} \cup UNION {DOMAIN model[m].snap : m \in i.models}
  <2>2. CASE Go(r, "assets") /\ Wants(r, rows)
    <3>1. rows \subseteq Assets
      <4>1. i.models \subseteq DOMAIN model
        BY <2>0 DEF TypeInv, RunnersKnow
      <4>2. \A m \in i.models : DOMAIN model[m].snap \subseteq Assets
        BY <4>1, ModelsAre, SnapshotsAre DEF Model, TypeInv
      <4>3. i.a \in Assets
        BY <2>0, Bounds DEF Inputs
      <4>4. QED
        BY <4>2, <4>3
    <3>2. i.a \in rows
      OBVIOUS
    <3> HIDE DEF rows
    <3>3. held'[r] = {} /\ want'[r] = rows
      BY <1>0, <2>0, <2>2 DEF Wants, NoLocks
    <3>4. QED
      BY <1>3, <2>2, <3>1, <3>2, <3>3 DEF RunnerInv, Locks
  <2>3. QED
    BY <1>5, <2>1, <2>2 DEF Score
<1>6. CASE CheckAsset(r)
  <2>0. Granted(r) /\ run[r].pc = "assets" /\ i.a \in held[r]
    BY <1>0, <1>6 DEF CheckAsset, At, RunnerInv, Locks, Granted
  <2>1. CASE Finish(r, "cancelled")
    BY <1>1, <2>0, <2>1
  <2>2. CASE Rev(i.a) = i.rev /\ Go(r, "models") /\ Wants(r, ModelRows(i))
    <3>1. held'[r] = held[r] /\ want'[r] = ModelRows(i)
      BY <1>0, <2>2 DEF Wants
    <3>2. run'[r].pc = "models" /\ run'[r].on = i
      BY <1>3, <2>2
    <3>3. Rev(run[r].on.a)' = i.rev
      BY <1>0, <2>2, <3>2 DEF Rev
    <3>4. QED
      BY <2>0, <3>1, <3>2, <3>3 DEF RunnerInv, Locks, ModelRows, ModelRow
  <2>3. QED
    BY <1>6, <2>1, <2>2 DEF CheckAsset
<1>7. CASE CheckModels(r)
  <2>0. /\ Granted(r) /\ run[r].pc = "models"
        /\ i.a \in held[r] /\ Rev(i.a) = i.rev /\ ModelRows(i) \subseteq Locks(r)
    BY <1>0, <1>7 DEF CheckModels, At, RunnerInv
  <2>1. CASE Finish(r, "cancelled")
    BY <1>1, <2>0, <2>1
  <2>2. CASE StillServed(i) /\ Go(r, "write") /\ UNCHANGED locks
    <3>1. held'[r] = held[r] /\ want'[r] = want[r] /\ want[r] = {}
      BY <2>0, <2>2 DEF locks, Granted
    <3>2. run'[r].pc = "write" /\ run'[r].on = i
      BY <1>3, <2>2
    <3>3. Rev(run[r].on.a)' = i.rev /\ i.models \subseteq Active'
      BY <1>0, <2>0, <2>2, <3>2 DEF Rev, Active, StillServed
    <3>4. QED
      BY <2>0, <3>1, <3>2, <3>3 DEF RunnerInv, Locks, ModelRows, ModelRow
  <2>3. QED
    BY <1>7, <2>1, <2>2 DEF CheckModels
<1>8. CASE Write(r)
  <2>1. Granted(r)
    BY <1>0, <1>8 DEF Write, At, RunnerInv, Granted
  <2>2. QED
    BY <1>1, <1>8, <2>1 DEF Write
<1>9. QED
  BY <1>4, <1>5, <1>6, <1>7, <1>8 DEF Runner

LEMMA TrainMoves ==
    ASSUME TypeInv, TransactionsInv, NEW k \in Kinds, Trains(k)
    PROVE  TrainInv(k)'
<1>0. /\ held \in [Actors -> SUBSET Rows] /\ want \in [Actors -> SUBSET Rows]
      /\ train \in [Kinds -> Train] /\ "train" \in Actors /\ TrainInv(k) /\ UNCHANGED hist
  BY Bounds, TrainsFrame DEF TypeInv, TypeOK, TransactionsInv, labels
<1>1. \A a : Rev(a)' = Rev(a)
  BY <1>0 DEF Rev
<1>2. ASSUME NEW pc \in {"none", "queued", "load", "fit"}, NEW snap, Stage(k, pc, snap),
             \A a \in DOMAIN snap : snap[a] <= Rev(a)
      PROVE  TrainInv(k)'
  <2>1. train'[k] = [pc |-> pc, snap |-> snap]
    BY <1>0, <1>2 DEF Stage
  <2>2. train'[k].pc = pc /\ train'[k].snap = snap
    BY <2>1
  <2>3. QED
    BY <1>1, <1>2, <2>2 DEF TrainInv
<1>3. \A a \in DOMAIN Dataset : Dataset[a] <= Rev(a)
  BY DatasetIs, Bounds DEF TypeInv
<1>4. \A a \in DOMAIN train[k].snap : train[k].snap[a] <= Rev(a)
  BY <1>0 DEF TrainInv
<1>5. Abandon(k) => TrainInv(k)'
  <2>1. Abandon(k) => Stage(k, "none", <<>>)
    BY DEF Abandon, Stage, NoTrain
  <2>2. QED
    BY <1>2, <2>1
<1>6. CASE RequestTraining(k) \/ StartTraining(k) \/ Load(k)
  BY <1>2, <1>3, <1>4, <1>5, <1>6 DEF RequestTraining, StartTraining, Load
<1>7. CASE Fit(k)
  <2>1. CASE Abandon(k)
    BY <1>5, <2>1
  <2>2. CASE Stage(k, "assets", train[k].snap) /\ Wants("train", DOMAIN train[k].snap)
    <3>1. held["train"] = {}
      <4>1. k \in Training /\ train[k].pc = "fit"
        BY <1>7 DEF Fit, Training
      <4>2. \A j \in Kinds : train[j].pc \notin {"assets", "model"}
        BY <4>1 DEF TransactionsInv, OneTraining, Training
      <4>3. QED
        BY <4>2 DEF TransactionsInv, OneTraining, NoLocks
    <3>2. train'[k].pc = "assets" /\ train'[k].snap = train[k].snap
      BY <1>0, <2>2 DEF Stage
    <3>3. held'["train"] = {} /\ want'["train"] = DOMAIN train[k].snap
      BY <1>0, <2>2, <3>1 DEF Wants
    <3>4. QED
      BY <1>1, <1>4, <3>2, <3>3 DEF TrainInv, Locks
  <2>3. QED
    BY <1>7, <2>1, <2>2 DEF Fit
<1>8. CASE CheckTraining(k)
  <2>1. CASE Abandon(k)
    BY <1>5, <2>1
  <2>2. CASE /\ RequireCurrent(train[k].snap)
             /\ Stage(k, "model", train[k].snap)
             /\ Wants("train", {ModelRow(m) : m \in Serving(k)})
             /\ UNCHANGED model
    <3> DEFINE snap == train[k].snap  rows == {ModelRow(m) : m \in Serving(k)}
    <3>1. held["train"] = DOMAIN snap
      BY <1>0, <1>8 DEF CheckTraining, TrainInv, Locks, Granted
    <3>2. train'[k].pc = "model" /\ train'[k].snap = snap
      BY <1>0, <2>2 DEF Stage
    <3>3. UNCHANGED held /\ want' = [want EXCEPT !["train"] = rows]
      BY <2>2 DEF Wants
    <3>4. Serving(k)' = Serving(k) /\ \A m \in Serving(k) : ModelRow(m) \in rows
      BY <2>2 DEF Serving, Active
    <3>5. RequireCurrent(train[k].snap)'
      <4>1. RequireCurrent(snap) /\ UNCHANGED hist
        BY <1>0, <2>2
      <4> HIDE DEF snap
      <4>2. QED
        BY <3>2, <4>1 DEF RequireCurrent, Revised, Rev
    <3> HIDE DEF rows
    <3>6. held'["train"] = DOMAIN snap /\ want'["train"] = rows
      BY <1>0, <3>1, <3>3
    <3>7. \A a \in DOMAIN train'[k].snap : train'[k].snap[a] <= Rev(a)'
      BY <1>1, <1>4, <3>2
    <3>8. /\ DOMAIN train'[k].snap \subseteq held'["train"]
          /\ \A m \in Serving(k)' : ModelRow(m) \in Locks("train")'
      BY <3>2, <3>4, <3>6 DEF Locks
    <3> HIDE DEF snap
    <3>9. QED
      BY <3>2, <3>5, <3>7, <3>8 DEF TrainInv, ModelRow
  <2>3. QED
    BY <1>8, <2>1, <2>2 DEF CheckTraining
<1>9. CASE Activate(k)
  BY <1>5, <1>9 DEF Activate
<1>10. QED
  BY <1>6, <1>7, <1>8, <1>9 DEF Trains, Trainer

LEMMA OneTrainingMoves ==
    ASSUME TypeInv, TransactionsInv, NEW k \in Kinds, Trains(k)
    PROVE  OneTraining'
<1>0. /\ held \in [Actors -> SUBSET Rows] /\ want \in [Actors -> SUBSET Rows]
      /\ train \in [Kinds -> Train] /\ "train" \in Actors /\ OneTraining
  BY Bounds DEF TypeInv, TypeOK, TransactionsInv
<1>1. \A j \in Kinds : j # k => train'[j] = train[j]
  BY <1>0, TrainsAre DEF TypeInv, Stage, Abandon
<1>2. \A i, j \in Training' : i = j
  <2>1. CASE StartTraining(k)
    <3>1. \A j \in Training' : j = k
      BY <1>1, <2>1 DEF StartTraining, Training
    <3>2. QED
      BY <3>1
  <2>2. CASE ~StartTraining(k)
    <3>1. k \in Training' => k \in Training
      <4>1. CASE RequestTraining(k)
        BY <1>0, <4>1 DEF RequestTraining, Stage, Training
      <4>2. CASE Load(k) \/ Fit(k) \/ CheckTraining(k) \/ Activate(k)
        BY <4>2 DEF Load, Fit, CheckTraining, Activate, Training
      <4>3. QED
        BY <2>2, <4>1, <4>2 DEF Trains, Trainer
    <3>2. Training' \subseteq Training
      BY <1>1, <3>1 DEF Training
    <3>3. QED
      BY <1>0, <3>2 DEF OneTraining
  <2>3. QED
    BY <2>1, <2>2
<1>3. ASSUME \A j \in Kinds : train'[j].pc \notin {"assets", "model"}
      PROVE  NoLocks("train")'
  <2>1. CASE UNCHANGED locks /\ train[k].pc \notin {"assets", "model"}
    <3>1. \A j \in Kinds : train[j].pc \notin {"assets", "model"}
      BY <1>1, <1>3, <2>1
    <3>2. QED
      BY <1>0, <2>1, <3>1 DEF OneTraining, NoLocks, locks
  <2>2. CASE Granted("train") /\ Ends("train")
    BY <1>0, <2>2 DEF Granted, Ends, NoLocks
  <2>3. CASE \E pc \in {"assets", "model"} : \E snap : Stage(k, pc, snap)
    BY <1>0, <1>3, <2>3 DEF Stage
  <2>4. CASE RequestTraining(k) \/ StartTraining(k) \/ Load(k)
    BY <2>1, <2>4 DEF RequestTraining, StartTraining, Load
  <2>5. CASE Fit(k)
    BY <2>1, <2>3, <2>5 DEF Fit
  <2>6. CASE CheckTraining(k)
    BY <2>2, <2>3, <2>6 DEF CheckTraining
  <2>7. CASE Activate(k)
    BY <2>2, <2>7 DEF Activate
  <2>8. QED
    BY <2>4, <2>5, <2>6, <2>7 DEF Trains, Trainer
<1>4. QED
  BY <1>2, <1>3 DEF OneTraining

(***************************************************************************)
(* What the transactions have locked and know.                             *)
(***************************************************************************)
LEMMA TrainingKeeps ==
    ASSUME TransactionsInv, UNCHANGED train, Keeps("train")
    PROVE  OneTraining'
BY DEF TransactionsInv, OneTraining, Training, Keeps, NoLocks, Locks

LEMMA VotesStep ==
    ASSUME TypeInv, LocksInv, TransactionsInv, NEW v \in Voters, Votes(v), [Next]_vars
    PROVE  TransactionsInv'
<1>1. UNCHANGED <<run, train>> /\ vote \in [Voters -> Vote] /\ v \in Actors
  BY VotesFrame, Bounds DEF TypeInv, TypeOK
<1>2. \A x \in Actors : x # v => Keeps(x)
  BY <1>1, VotesTake, OthersKeep DEF TypeInv, Takes
<1>3. ASSUME NEW w \in Voters, w # v PROVE VoterInv(w)'
  <2>1. vote'[w] = vote[w]
    BY <1>1, <1>3 DEF Votes, Voter, Decide, Judge, Apply
  <2>2. QED
    BY <1>2, <1>3, <2>1, VoterKeeps, Bounds
<1>4. \A r \in Runners : RunnerInv(r)'
  BY <1>1, <1>2, RunnerKeeps, Bounds
<1>5. \A k \in Kinds : TrainInv(k)'
  BY <1>1, <1>2, TrainKeeps, Bounds
<1>6. OneTraining'
  BY <1>1, <1>2, TrainingKeeps, Bounds
<1>7. QED
  BY <1>3, <1>4, <1>5, <1>6, VoterMoves DEF TransactionsInv

LEMMA TrainsStep ==
    ASSUME TypeInv, LocksInv, TransactionsInv, NEW k \in Kinds, Trains(k), [Next]_vars
    PROVE  TransactionsInv'
<1>1. UNCHANGED <<run, vote>> /\ train \in [Kinds -> Train]
  BY TrainsFrame DEF TypeInv, TypeOK
<1>2. \A x \in Actors : x # "train" => Keeps(x)
  BY TrainsTake, OthersKeep, Bounds DEF TypeInv, Takes
<1>3. \A v \in Voters : VoterInv(v)'
  BY <1>1, <1>2, VoterKeeps, Bounds
<1>4. \A r \in Runners : RunnerInv(r)'
  BY <1>1, <1>2, RunnerKeeps, Bounds
<1>5. ASSUME NEW j \in Kinds, j # k PROVE TrainInv(j)'
  <2>1. train'[j] = train[j]
    BY <1>1, <1>5, TrainsAre DEF TypeInv, Stage, Abandon
  <2>2. TrainInv(j) /\ (train[j].pc \in {"assets", "model"} => UNCHANGED locks)
    <3>1. ASSUME train[j].pc \in {"assets", "model"} PROVE UNCHANGED locks
      <4>1. j \in Training /\ k \notin Training
        BY <1>5, <3>1 DEF Training, TransactionsInv, OneTraining
      <4>2. train[k].pc \in {"none", "queued"}
        BY <4>1 DEF Training
      <4>3. RequestTraining(k) \/ StartTraining(k)
        BY <4>2 DEF Trains, Trainer, Load, Fit, CheckTraining, Activate
      <4>4. QED
        BY <4>3 DEF RequestTraining, StartTraining
    <3>2. QED
      BY <3>1 DEF TransactionsInv
  <2>3. CASE UNCHANGED locks
    BY <2>1, <2>3, TrainKeeps, AllKeep, Bounds DEF TypeInv
  <2>4. CASE train[j].pc \notin {"assets", "model"}
    <3>1. train[j] \in Train /\ UNCHANGED hist
      BY <1>1, TrainsFrame DEF labels
    <3>2. \A a \in DOMAIN train[j].snap : train[j].snap[a] <= Rev(a)'
      BY <2>2, <3>1 DEF TrainInv, Rev
    <3>3. QED
      BY <2>1, <2>4, <3>2 DEF TrainInv
  <2>5. QED
    BY <2>2, <2>3, <2>4
<1>6. QED
  BY <1>3, <1>4, <1>5, TrainMoves, OneTrainingMoves DEF TransactionsInv

LEMMA RunnersStep ==
    ASSUME TypeInv, LocksInv, TransactionsInv, NEW r \in Runners, Runner(r), [Next]_vars
    PROVE  TransactionsInv'
<1>1. UNCHANGED <<train, vote>> /\ run \in [Runners -> Run] /\ r \in Actors
  BY RunnerFrame, Bounds DEF TypeInv, TypeOK
<1>2. \A x \in Actors : x # r => Keeps(x)
  BY <1>1, RunnersTake, OthersKeep DEF TypeInv, Takes
<1>3. \A v \in Voters : VoterInv(v)'
  BY <1>1, <1>2, VoterKeeps, Bounds
<1>4. ASSUME NEW s \in Runners, s # r PROVE RunnerInv(s)'
  <2>1. run'[s] = run[s]
    BY <1>1, <1>4, RunnerIs DEF Go, Finish
  <2>2. QED
    BY <1>2, <1>4, <2>1, RunnerKeeps, Bounds
<1>5. \A k \in Kinds : TrainInv(k)'
  BY <1>1, <1>2, TrainKeeps, Bounds
<1>6. OneTraining'
  BY <1>1, <1>2, TrainingKeeps, Bounds
<1>7. QED
  BY <1>3, <1>4, <1>5, <1>6, RunnerMoves DEF TransactionsInv

LEMMA TransactionsStep ==
    ASSUME TypeInv, LocksInv, TransactionsInv, [Next]_vars
    PROVE  TransactionsInv'
<1>1. CASE \E v \in Voters : Votes(v)
  BY <1>1, VotesStep
<1>2. CASE \E k \in Kinds : Trains(k)
  BY <1>2, TrainsStep
<1>3. CASE \E r \in Runners : Runner(r)
  BY <1>3, RunnersStep
<1>4. ASSUME UNCHANGED <<train, vote>>, UNCHANGED locks \/ \E x \in Actors : Lock(x),
             UNCHANGED run \/ Claims
      PROVE  TransactionsInv'
  <2>1. \A x \in Actors : Keeps(x)
    BY <1>4, AllKeep DEF TypeInv
  <2>2. ASSUME NEW r \in Runners, run'[r] # run[r] PROVE RunnerInv(r)'
    <3>1. run[r].pc = "idle" /\ run'[r].pc = "start"
      BY <1>4, <2>2 DEF Claims, Claim, TypeInv, TypeOK
    <3>2. NoLocks(r)
      BY <3>1 DEF TransactionsInv, RunnerInv
    <3>3. NoLocks(r)'
      BY <2>1, <3>2, Bounds DEF Keeps, Locks, NoLocks
    <3>4. QED
      BY <3>1, <3>3 DEF RunnerInv
  <2>3. \A r \in Runners : RunnerInv(r)'
    BY <2>1, <2>2, RunnerKeeps, Bounds
  <2>4. \A v \in Voters : VoterInv(v)'
    BY <1>4, <2>1, VoterKeeps, Bounds
  <2>5. \A k \in Kinds : TrainInv(k)'
    BY <1>4, <2>1, TrainKeeps, Bounds
  <2>6. OneTraining'
    BY <1>4, <2>1, TrainingKeeps, Bounds
  <2>7. QED
    BY <2>3, <2>4, <2>5, <2>6 DEF TransactionsInv
<1>5. CASE \E x \in Actors : Lock(x)
  BY <1>4, <1>5, LockFrame
<1>6. CASE (\E a \in Fresh : Files(a)) \/ Tell \/ Scan
  BY <1>4, <1>6, OutsideFrame
<1>7. CASE Asks \/ Claims \/ UNCHANGED vars
  BY <1>4, <1>7, AsksFrame, ClaimsFrame, StutterFrame
<1>8. QED
  BY <1>1, <1>2, <1>3, <1>5, <1>6, <1>7, NextIs

(***************************************************************************)
(* What a model learned from is not of the future, and true or flagged.    *)
(***************************************************************************)
LEMMA LearnedStep ==
    ASSUME TypeInv, TransactionsInv, LearnedInv, [Next]_vars
    PROVE  LearnedInv'
<1>1. SUFFICES ASSUME NEW m \in DOMAIN model', NEW a \in DOMAIN model'[m].snap
               PROVE  model'[m].snap[a] <= Rev(a)'
  BY DEF LearnedInv
<1>2. CASE m \in DOMAIN model
  <2>1. model'[m].snap = model[m].snap /\ model[m].snap \in Snapshots
    BY <1>2, ModelAfter, ModelsAre DEF TypeInv, Model
  <2>2. a \in Assets /\ model[m].snap[a] \in Nat
    BY <2>1, SnapshotsAre
  <2>3. model[m].snap[a] <= Rev(a)
    BY <1>2, <2>1 DEF LearnedInv
  <2>4. Rev(a) \in Nat /\ Rev(a)' \in Nat /\ Rev(a)' >= Rev(a)
    BY <2>2, HistGrows, HistIs DEF TypeInv
  <2>5. QED
    BY <2>1, <2>2, <2>3, <2>4
<1>3. CASE m \notin DOMAIN model
  <2>1. ~UNCHANGED model /\ \A v \in Voters : ~Apply(v)
    BY <1>3, FlagsAre DEF TypeInv
  <2>2. PICK k \in Kinds : Trains(k)
    BY <2>1, Frames
  <2>3. model'[m].snap = train[k].snap
    <3>1. Activate(k) \/ model' = Append(model, New(k, "validated"))
      BY <2>1, <2>2, TrainsAre DEF TypeInv
    <3>2. m = Len(model) + 1
      BY <1>3, ModelAfter DEF TypeInv
    <3>3. TypeOK
      BY DEF TypeInv
    <3>4. CASE Activate(k)
      BY <3>2, <3>3, <3>4, ActivatesIs, NewIs
    <3>5. CASE model' = Append(model, New(k, "validated"))
      <4>1. model'[Len(model) + 1] = New(k, "validated")
        BY <3>3, <3>5, ValidatesIs
      <4>2. New(k, "validated").snap = train[k].snap
        BY <3>3, NewIs
      <4>3. QED
        BY <3>2, <4>1, <4>2
    <3>6. QED
      BY <3>1, <3>4, <3>5
  <2>4. train[k].snap[a] <= Rev(a)
    BY <2>3 DEF TransactionsInv, TrainInv
  <2>5. Rev(a)' = Rev(a)
    BY <2>2, TrainsFrame DEF labels, Rev
  <2>6. QED
    BY <2>3, <2>4, <2>5
<1>4. QED
  BY <1>2, <1>3

LEMMA StaleIs ==
    ASSUME TypeOK
    PROVE  StaleModelIsFlagged <=>
             \A m \in Active : \A a \in DOMAIN model[m].snap :
                \A r \in model[m].snap[a] .. Len(hist[a]) :
                    hist[a][r] = hist[a][model[m].snap[a]] \/ model[m].flag
BY DEF StaleModelIsFlagged, Revised, Rev

LEMMA StaleStep ==
    ASSUME TypeInv, TransactionsInv, LearnedInv, StaleModelIsFlagged, [Next]_vars
    PROVE  StaleModelIsFlagged'
<1>1. SUFFICES ASSUME NEW m \in Active', NEW a \in DOMAIN model'[m].snap,
                      NEW r \in model'[m].snap[a] .. Len(hist'[a]), ~model'[m].flag
               PROVE  hist'[a][r] = hist'[a][model'[m].snap[a]]
  BY DEF StaleModelIsFlagged, Revised, Rev
<1>2. Active \subseteq DOMAIN model /\ TypeOK
  BY DEF Active, TypeInv
<1>3. ASSUME m \in Active, ~model[m].flag, model'[m].snap = model[m].snap
      PROVE  hist'[a][r] = hist'[a][model'[m].snap[a]]
  <2> DEFINE s == model[m].snap[a]
  <2>1. a \in Assets /\ s \in 1 .. MaxVotes + 1 /\ s <= Rev(a) /\ Rev(a) \in Nat
    <3>1. model[m].snap \in Snapshots /\ a \in DOMAIN model[m].snap
      BY <1>1, <1>2, <1>3, ModelsAre DEF Model
    <3>2. a \in Assets /\ s \in 1 .. MaxVotes + 1
      BY <3>1, SnapshotsAre
    <3>3. s <= Rev(a)
      BY <1>2, <1>3, <3>1 DEF LearnedInv
    <3>4. QED
      BY <1>2, <3>2, <3>3, HistIs
  <2>2. \A q \in s .. Rev(a) : hist[a][q] = hist[a][s]
    <3>1. a \in DOMAIN model[m].snap
      BY <1>1, <1>3
    <3>2. QED
      BY <1>2, <1>3, <3>1, StaleIs DEF Rev
  <2>3. s \in Nat /\ s \in 1 .. Rev(a)
    BY <2>1, Bounds
  <2>4. r \in s .. Len(hist'[a])
    BY <1>1, <1>3
  <2>5. CASE UNCHANGED hist
    BY <1>3, <2>2, <2>4, <2>5 DEF Rev
  <2>6. ASSUME NEW v \in Voters, Apply(v) PROVE hist'[a][r] = hist'[a][s]
    <3>1. CASE a # vote[v].a
      <4>1. hist'[a] = hist[a]
        <5>1. vote[v].a \in Assets
          BY <2>6 DEF Apply, TypeInv, VotersKnow
        <5>2. QED
          BY <2>1, <2>6, <3>1, <5>1 DEF Apply, TypeInv, TypeOK
      <4>2. QED
        BY <2>2, <2>4, <4>1 DEF Rev
    <3>2. CASE a = vote[v].a
      <4>1. /\ Len(hist'[a]) = Rev(a) + 1
            /\ \A q \in 1 .. Rev(a) : hist'[a][q] = hist[a][q]
            /\ hist'[a][Rev(a) + 1] = vote[v].label
        BY <1>2, <2>1, <2>6, <3>2, ApplyIs DEF Rev, Revised
      <4>2. hist'[a][s] = hist[a][s]
        BY <2>3, <4>1
      <4>3. CASE r \in s .. Rev(a)
        <5>1. r \in 1 .. Rev(a)
          BY <2>1, <2>3, <4>3
        <5>2. QED
          BY <2>2, <4>1, <4>2, <4>3, <5>1
      <4>4. CASE r = Rev(a) + 1
        <5>1. m \notin Affected(a, vote[v].label)
          <6>1. SUFFICES ASSUME m \in Affected(a, vote[v].label) PROVE FALSE
            OBVIOUS
          <6>2. ModelRow(m) \in held[v]
            BY <2>6, <3>2, <6>1 DEF Apply, TransactionsInv, VoterInv, Locks, Granted
          <6>3. model'[m].flag
            BY <1>2, <1>3, <2>6, <6>2, FlagsAre
          <6>4. QED
            BY <1>1, <6>3
        <5>2. ~Changes(a, vote[v].label)
          BY <1>1, <1>3, <5>1 DEF Affected
        <5>3. hist[a][Rev(a)] = vote[v].label
          BY <5>2 DEF Changes, Revised
        <5>4. hist[a][Rev(a)] = hist[a][s]
          BY <2>1, <2>2, <2>3
        <5>5. QED
          BY <4>1, <4>2, <4>4, <5>3, <5>4
      <4>5. QED
        BY <2>1, <2>3, <2>4, <4>1, <4>3, <4>4
    <3>3. QED
      BY <3>1, <3>2
  <2>7. QED
    BY <1>3, <2>5, <2>6, Frames
<1>4. CASE m \in Active
  <2>1. m \in DOMAIN model /\ model'[m].snap = model[m].snap
    BY <1>2, <1>4, ModelAfter
  <2>2. model[m].flag => model'[m].flag
    <3>1. CASE \E v \in Voters : Apply(v)
      BY <1>2, <2>1, <3>1, FlagsAre
    <3>2. ASSUME NEW k \in Kinds, Trains(k) PROVE model[m].flag => model'[m].flag
      BY <1>2, <2>1, <3>2, TrainsAre, ValidatesIs, ActivatesIs
    <3>3. QED
      BY <3>1, <3>2, Frames
  <2>3. QED
    BY <1>1, <1>3, <1>4, <2>1, <2>2
<1>5. CASE m \notin Active
  <2>1. PICK k \in Kinds : Activate(k)
    BY <1>1, <1>2, <1>5, NewServes
  <2>2. m = Len(model) + 1 /\ model'[m].snap = train[k].snap
    <3>1. /\ Active' = (Active \ Serving(k)) \cup {Len(model) + 1}
          /\ model'[Len(model) + 1].snap = train[k].snap
      BY <1>2, <2>1, ActivatesIs, NewIs
    <3>2. QED
      BY <1>1, <1>5, <3>1
  <2>3. RequireCurrent(train[k].snap) /\ UNCHANGED hist
    BY <2>1, ActivateHolds DEF Activate, labels
  <2>4. QED
    BY <1>1, <2>2, <2>3 DEF RequireCurrent, Revised, Rev
<1>6. QED
  BY <1>4, <1>5

(***************************************************************************)
(* The invariants, and what they are for.                                  *)
(***************************************************************************)
LEMMA InitHolds ==
    ASSUME Init
    PROVE  TypeInv /\ ModelsInv
<1> USE DEF Init
<1>1. Active = {}
  BY DEF Active
<1>2. TypeOK
  <2>1. hist \in [Assets -> Seq({"like", "dislike"})] /\ \A a \in Assets : Rev(a) \in 0 .. 1
    <3>1. \A a \in Assets \ Fresh : <<Confirmed[a]>> \in Seq({"like", "dislike"}) /\ Len(<<Confirmed[a]>>) = 1
      BY ModelsAssumption
    <3>2. <<>> \in Seq({"like", "dislike"}) /\ Len(<<>>) = 0
      OBVIOUS
    <3>3. \A a \in Assets : hist[a] = IF a \in Fresh THEN <<>> ELSE <<Confirmed[a]>>
      OBVIOUS
    <3>4. \A a \in Assets : hist[a] \in Seq({"like", "dislike"}) /\ Len(hist[a]) \in 0 .. 1
      <4>1. SUFFICES ASSUME NEW a \in Assets
                     PROVE  hist[a] \in Seq({"like", "dislike"}) /\ Len(hist[a]) \in 0 .. 1
        OBVIOUS
      <4>2. CASE a \in Fresh
        <5>1. hist[a] = <<>>
          BY <3>3, <4>2
        <5>2. QED
          BY <3>2, <5>1
      <4>3. CASE a \notin Fresh
        <5>1. hist[a] = <<Confirmed[a]>>
          BY <3>3, <4>3
        <5>2. <<Confirmed[a]>> \in Seq({"like", "dislike"}) /\ Len(<<Confirmed[a]>>) = 1
          BY <3>1, <4>3
        <5>3. hist[a] \in Seq({"like", "dislike"}) /\ Len(hist[a]) = 1
          BY <5>1, <5>2, Zenon
        <5>4. QED
          BY <5>3
      <4>4. QED
        BY <4>2, <4>3
    <3>5. hist \in [Assets -> Seq({"like", "dislike"})]
      BY <3>4
    <3>6. QED
      BY <3>4, <3>5 DEF Rev
  <2>2. \A a \in Assets : Rev(a) <= MaxVotes + 1
    BY <2>1, Bounds
  <2>3. /\ file \in [Fresh -> [stat : 1 .. MaxMoves + 1, here : BOOLEAN]]
        /\ loc \in [Fresh -> 0 .. MaxMoves + 1] /\ behind \in BOOLEAN
    <3>1. /\ [stat |-> 1, here |-> TRUE] \in [stat : 1 .. MaxMoves + 1, here : BOOLEAN]
          /\ 1 \in 0 .. MaxMoves + 1
      BY Bounds
    <3>2. /\ file = [a \in Fresh |-> [stat |-> 1, here |-> TRUE]]
          /\ loc = [a \in Fresh |-> 1] /\ behind = FALSE
      OBVIOUS
    <3>3. QED
      BY <3>1, <3>2
  <2>4. model \in Seq(Model) /\ Len(model) <= MaxModels /\ DOMAIN task = {}
    <3>1. <<>> \in Seq(Model) /\ Len(<<>>) = 0 /\ DOMAIN <<>> = {}
      OBVIOUS
    <3>2. QED
      BY <3>1, Bounds
  <2>5. \A k \in Kinds : Cardinality({m \in Active : model[m].kind = k}) <= 1
    <3>1. \A k \in Kinds : {m \in Active : model[m].kind = k} = {}
      BY <1>1
    <3>2. Cardinality({}) = 0
      BY FS_EmptySet
    <3>3. \A k \in Kinds : Cardinality({m \in Active : model[m].kind = k}) = 0
      BY <3>1, <3>2, Zenon
    <3>4. QED
      BY <3>3
  <2>6. run \in [Runners -> Run]
    BY DEF Run
  <2>7. train \in [Kinds -> Train]
    <3>1. <<>> \in Snapshots
      <4>1. <<>> \in [{} -> 1 .. MaxVotes + 1]
        OBVIOUS
      <4>2. QED
        BY <4>1 DEF Snapshots
    <3>2. QED
      BY <3>1 DEF NoTrain, Train
  <2>8. vote \in [Voters -> Vote]
    BY Bounds DEF NoVote, Vote
  <2>9. {held, want} \subseteq [Actors -> SUBSET Rows]
    OBVIOUS
  <2>10. spent \in [votes : 0 .. MaxVotes, moves : 0 .. MaxMoves]
    BY Bounds
  <2>11. ready \subseteq Assets /\ Assets \ Fresh \subseteq ready /\ pred = {}
    OBVIOUS
  <2>12. QED
    BY <2>1, <2>2, <2>3, <2>4, <2>5, <2>6, <2>7, <2>8, <2>9, <2>10, <2>11 DEF TypeOK
<1>3. VotersKnow /\ RunnersKnow
  BY DEF VotersKnow, RunnersKnow, NoVote
<1>4. BudgetInv
  <2>1. \A a \in Assets : Pending(a) = {} /\ Rev(a) = Given(a)
    <3>1. \A a \in Assets : Pending(a) = {}
      BY DEF Pending, NoVote
    <3>2. \A a \in Assets : Rev(a) = Given(a)
      BY DEF Rev, Given
    <3>3. QED
      BY <3>1, <3>2
  <2>2. Busy = {} /\ Len(model) = 0
    BY DEF Busy, NoTrain
  <2>3. IsFiniteSet({}) /\ Cardinality({}) = 0
    BY FS_EmptySet
  <2>4. \A a \in Assets : /\ IsFiniteSet(Pending(a))
                          /\ Rev(a) + Cardinality(Pending(a)) <= spent.votes + Given(a)
    <3>1. \A a \in Assets : Given(a) \in Nat /\ Cardinality(Pending(a)) = 0 /\ IsFiniteSet(Pending(a))
      BY <2>1, <2>3 DEF Given
    <3>2. spent.votes = 0
      OBVIOUS
    <3>3. QED
      BY <2>1, <3>1, <3>2
  <2>5. IsFiniteSet(Busy) /\ Len(model) + Cardinality(Busy) <= MaxModels
    BY <2>2, <2>3, Bounds
  <2>6. \A a \in Fresh : file[a].stat <= spent.moves + 1 /\ loc[a] <= spent.moves + 1
    OBVIOUS
  <2>7. QED
    BY <2>4, <2>5, <2>6 DEF BudgetInv
<1>5. LocksInv
  BY DEF LocksInv, Exclusive, Ordered
<1>6. TransactionsInv
  <2>1. \A x \in Actors : NoLocks(x)
    BY DEF NoLocks
  <2>2. \A v \in Voters : VoterInv(v)
    BY <2>1, Bounds DEF VoterInv, NoVote
  <2>3. \A r \in Runners : RunnerInv(r)
    BY <2>1, Bounds DEF RunnerInv
  <2>4. \A k \in Kinds : TrainInv(k)
    BY DEF TrainInv, NoTrain
  <2>5. OneTraining
    BY <2>1, Bounds DEF OneTraining, Training, NoTrain
  <2>6. QED
    BY <2>2, <2>3, <2>4, <2>5 DEF TransactionsInv
<1>7. LearnedInv /\ StaleModelIsFlagged
  BY <1>1 DEF LearnedInv, StaleModelIsFlagged
<1>8. QED
  BY <1>2, <1>3, <1>4, <1>5, <1>6, <1>7 DEF TypeInv, ModelsInv

(* The state keeps its types and budgets, every transaction what it knows  *)
(* by its locks, and every model what it learned from.                     *)
THEOREM InvariantsHold == Spec => [](TypeInv /\ ModelsInv)
<1>1. Init => TypeInv /\ ModelsInv
  BY InitHolds
<1>2. TypeInv /\ ModelsInv /\ [Next]_vars => (TypeInv /\ ModelsInv)'
  BY TypeStep, LocksStep, TransactionsStep, LearnedStep, StaleStep DEF ModelsInv
<1>3. QED
  BY <1>1, <1>2, PTL DEF Spec

(* Labels, summaries, files, models, tasks, predictions and row locks stay *)
(* within their types and bounds, and of each kind at most one model       *)
(* serves: the service retires the version it replaces (learning.py).      *)
THEOREM TypeCorrect == Spec => []TypeOK
<1>1. TypeInv => TypeOK
  BY DEF TypeInv
<1>2. QED
  BY <1>1, InvariantsHold, PTL

(* An active model whose label was contradicted after it had been read     *)
(* says so, even when the user came back to it: _require_current_snapshot  *)
(* of learning.py and the flags of feedback.py meet on the asset's row.    *)
THEOREM StaleModelsAreFlagged == Spec => []StaleModelIsFlagged
<1>1. ModelsInv => StaleModelIsFlagged
  BY DEF ModelsInv
<1>2. QED
  BY <1>1, InvariantsHold, PTL

(* The rows are locked in one order by predictions, training and feedback, *)
(* so that whoever waits for the greatest row is not waited for in vain.   *)
LEMMA NoCycle ==
    ASSUME TypeOK, LocksInv
    PROVE  LocksNeverCycle
<1> DEFINE top == Cardinality(Assets) + MaxModels
           S == {top - First(x) : x \in {y \in Actors : want[y] # {}}}
<1>1. \A x \in Actors : want[x] # {} => /\ First(x) \in want[x] /\ First(x) \in 1 .. top
                                        /\ held[x] \subseteq 1 .. top
  <2>1. SUFFICES ASSUME NEW x \in Actors, want[x] # {}
                 PROVE  First(x) \in want[x] /\ First(x) \in 1 .. top /\ held[x] \subseteq 1 .. top
    OBVIOUS
  <2>2. want[x] \in SUBSET Rows /\ held[x] \in SUBSET Rows
    BY DEF TypeOK
  <2>3. First(x) \in want[x]
    BY <2>1, <2>2, MinIs, Bounds DEF First
  <2>4. QED
    BY <2>2, <2>3 DEF Rows
<1>2. SUFFICES ASSUME NEW z \in Actors, want[z] # {},
                      \A x \in Actors : /\ want[x] # {} => ~Free(x, First(x))
                                        /\ want[x] = {} => held[x] = {}
               PROVE  FALSE
  BY DEF LocksNeverCycle
<1>3. top \in Nat /\ S \in SUBSET Nat /\ S # {}
  <2>1. top \in Nat
    BY Bounds
  <2>2. \A x \in Actors : want[x] # {} => top - First(x) \in Nat
    BY <1>1, <2>1
  <2>3. QED
    BY <1>2, <2>1, <2>2
<1>4. PICK x \in Actors : want[x] # {} /\ \A y \in Actors : want[y] # {} => First(y) <= First(x)
  <2>1. Min(S) \in S /\ \A s \in S : Min(S) <= s
    BY <1>3, MinIs
  <2>2. PICK x \in Actors : want[x] # {} /\ Min(S) = top - First(x)
    BY <2>1
  <2>3. ASSUME NEW y \in Actors, want[y] # {} PROVE First(y) <= First(x)
    <3>1. top - First(x) <= top - First(y)
      BY <2>1, <2>2, <2>3
    <3>2. First(x) \in Nat /\ First(y) \in Nat
      BY <1>1, <1>3, <2>2, <2>3
    <3>3. QED
      BY <1>3, <3>1, <3>2
  <2>4. QED
    BY <2>2, <2>3
<1>5. PICK y \in Actors : First(x) \in held[y]
  BY <1>2, <1>4 DEF Free
<1>6. want[y] # {} /\ First(y) \in want[y]
  BY <1>1, <1>2, <1>5
<1>7. First(x) < First(y)
  BY <1>5, <1>6 DEF LocksInv, Ordered
<1>8. First(y) <= First(x) /\ First(x) \in Nat /\ First(y) \in Nat
  BY <1>1, <1>3, <1>4, <1>6
<1>9. QED
  BY <1>7, <1>8

(* Predictions, training and feedback never wait for each other in a       *)
(* circle: _lock_assets and the locks on models go in the order of the     *)
(* identifiers, assets before models (prediction.py, learning.py).         *)
THEOREM NoTransactionWaitsForItself == Spec => []LocksNeverCycle
<1>1. TypeInv /\ ModelsInv => LocksNeverCycle
  BY NoCycle DEF TypeInv, ModelsInv
<1>2. QED
  BY <1>1, InvariantsHold, PTL

(* What a prediction is written of is current at its commit: the label     *)
(* revision, the models and the file, whatever happened since the scores   *)
(* were computed (the checks under locks of prediction.py).                *)
THEOREM PredictionsAreOfTheMoment == Spec => PredictionsAreCurrent
<1>1. TypeInv /\ ModelsInv /\ [Next]_vars =>
        [\A p \in pred' \ pred :
            /\ p.rev = Rev(p.a) /\ p.model \in Active
            /\ file[p.a].here
            /\ \E r \in Runners : run[r].on.a = p.a /\ Unchanged(run[r].on)]_vars
  <2>1. SUFFICES ASSUME TypeInv, ModelsInv, [Next]_vars, NEW p \in pred' \ pred
                 PROVE  /\ p.rev = Rev(p.a) /\ p.model \in Active
                        /\ file[p.a].here
                        /\ \E r \in Runners : run[r].on.a = p.a /\ Unchanged(run[r].on)
    OBVIOUS
  <2>2. PICK r \in Runners : Write(r)
    BY <2>1, Frames
  <2>3. /\ run[r].pc = "write" /\ Unchanged(run[r].on)
        /\ p \in {[a |-> run[r].on.a, rev |-> run[r].on.rev, model |-> m] : m \in run[r].on.models}
    BY <2>1, <2>2 DEF Write, At
  <2>4. Rev(run[r].on.a) = run[r].on.rev /\ run[r].on.models \subseteq Active
    BY <2>1, <2>3 DEF ModelsInv, TransactionsInv, RunnerInv
  <2>5. p.a = run[r].on.a /\ p.rev = run[r].on.rev /\ p.model \in run[r].on.models
    BY <2>3
  <2>6. QED
    BY <2>3, <2>4, <2>5 DEF Unchanged
<1>2. QED
  BY <1>1, InvariantsHold, PTL DEF Spec, PredictionsAreCurrent
===============================================================================
