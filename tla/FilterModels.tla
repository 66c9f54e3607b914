----------------------------- MODULE FilterModels -----------------------------
(***************************************************************************)
(* Summaries, classifiers, predictions and feedback of one group:          *)
(* video_filter/learning.py, prediction.py, feature_store.py, feedback.py  *)
(* and the discovery and execution of runtime.py.                          *)
(*                                                                         *)
(* A prediction and a training run read what they need, give the database  *)
(* connection back while they compute, and then lock the rows they relied  *)
(* on one by one, look again and commit.  A user's decision is a           *)
(* transaction on the same rows.  A step ends where a transaction reads,   *)
(* waits for a row lock, or commits.                                       *)
(*                                                                         *)
(* Abstracted: scores, features and what a model has learned; a file is a  *)
(* number for size, time and identity; the scan that registers files       *)
(* (FilterTracking) is one step per video; tasks have no attempts and no   *)
(* process that dies (FilterTasks), and people do not retry failed ones.   *)
(* Row numbers stand for the order of identifiers: models come after       *)
(* assets, as the code locks them.                                         *)
(***************************************************************************)
EXTENDS Integers, Sequences, FiniteSets, FiniteSetsExt

CONSTANTS
    Assets,        \* identifiers of assets, 1 .. their number
    Fresh,         \* those not yet labelled, without a summary
    Confirmed,     \* the label of each of the others
    Kinds,         \* classifier types, each with an active slot of its own
    MinPerClass,   \* minimum_per_class
    Runners,       \* executors of extract and predict tasks
    Voters,        \* sessions that apply feedback
    Opinions,      \* the decisions users may come to, asset and label
    MaxModels,     \* bound: model runs that are kept
    MaxVotes,      \* bound: decisions of the user
    MaxMoves       \* bound: what happens to files, lineage events, requests, workers that fail

ASSUME ModelsAssumption ==
    /\ IsFiniteSet(Assets) /\ Assets = 1 .. Cardinality(Assets)
    /\ Runners \cap Voters = {} /\ "train" \notin Runners \cup Voters
    /\ Fresh \subseteq Assets
    /\ Confirmed \in [Assets \ Fresh -> {"like", "dislike"}]
    /\ Opinions \subseteq Assets \X {"like", "dislike"}
    /\ {MinPerClass, MaxModels, MaxVotes, MaxMoves} \subseteq Nat /\ MinPerClass > 0

VARIABLES
    hist,     \* labels of each asset, one per label_revision
    ready,    \* assets with a ready summary
    file,     \* the file of each fresh asset: its stat, and whether it is here
    loc,      \* the stat its present location registered, 0 when it is missing
    behind,   \* lineage events that no complete scan has consumed
    model,    \* the model runs, oldest first
    task,     \* status of the task with each inputs (dedup_key)
    pred,     \* predictions
    run,      \* each executor: its step and the inputs of its task
    train,    \* the training task of each kind
    vote,     \* the feedback each voter applies
    held,     \* rows locked by each transaction
    want,     \* rows it has still to lock
    spent     \* budgets used: votes, moves

labels == <<hist, pred>>
files == <<file, loc, behind>>
locks == <<held, want>>
vars == <<labels, ready, files, model, task, run, train, vote, locks, spent>>

Moves == spent.moves < MaxMoves /\ spent' = [spent EXCEPT !.moves = @ + 1]
Faultless == UNCHANGED spent

Actors == Runners \cup Voters \cup {"train"}
Rev(a) == Len(hist[a])
Revised(a, r) == hist[a][r]               \* the label of that revision
Labelled(a) == Rev(a) > 0
ModelRow(m) == Cardinality(Assets) + m
Active == {m \in DOMAIN model : model[m].st = "active"}

NoTask == [kind |-> "none", a |-> 0, stat |-> 0, rev |-> 0, models |-> {}]
NoVote == [pc |-> "idle", a |-> 0, label |-> "like", rev |-> 0]
NoTrain == [pc |-> "none", snap |-> <<>>]

Snapshots == UNION {[S -> 1 .. MaxVotes + 1] : S \in SUBSET Assets}
Inputs == [kind : {"extract", "predict"}, a : Fresh, stat : 1 .. MaxMoves + 1,
           rev : 0 .. MaxVotes, models : SUBSET (1 .. MaxModels)]

Model == [kind : Kinds, snap : Snapshots, st : {"validated", "active", "retired"}, flag : BOOLEAN]
Run == [pc : {"idle", "start", "work", "save", "score", "assets", "models", "write"},
        on : Inputs \cup {NoTask}]
Train == [pc : {"none", "queued", "load", "fit", "assets", "model"}, snap : Snapshots]
Vote == [pc : {"idle", "asset", "models"}, a : Assets \cup {0},
         label : {"like", "dislike"}, rev : 0 .. MaxVotes + 1]
Rows == 1 .. Cardinality(Assets) + MaxModels

TypeOK ==
    /\ hist \in [Assets -> Seq({"like", "dislike"})]
    /\ \A a \in Assets : Rev(a) <= MaxVotes + 1
    /\ ready \subseteq Assets /\ Assets \ Fresh \subseteq ready
    /\ file \in [Fresh -> [stat : 1 .. MaxMoves + 1, here : BOOLEAN]]
    /\ loc \in [Fresh -> 0 .. MaxMoves + 1] /\ behind \in BOOLEAN
    /\ model \in Seq(Model) /\ Len(model) <= MaxModels
    /\ \A k \in Kinds : Cardinality({m \in Active : model[m].kind = k}) <= 1
    /\ DOMAIN task \subseteq Inputs
    /\ \A i \in DOMAIN task : task[i] \in {"queued", "running", "succeeded", "failed", "cancelled"}
    /\ pred \subseteq [a : Fresh, rev : 0 .. MaxVotes, model : DOMAIN model]
    /\ run \in [Runners -> Run]
    /\ train \in [Kinds -> Train]
    /\ vote \in [Voters -> Vote]
    /\ {held, want} \subseteq [Actors -> SUBSET Rows]
    /\ spent \in [votes : 0 .. MaxVotes, moves : 0 .. MaxMoves]

(* A group after its first scan: new videos, and some confirmed ones.      *)
Init ==
    /\ hist = [a \in Assets |-> IF a \in Fresh THEN <<>> ELSE <<Confirmed[a]>>]
    /\ ready = Assets \ Fresh
    /\ file = [a \in Fresh |-> [stat |-> 1, here |-> TRUE]]
    /\ loc = [a \in Fresh |-> 1]
    /\ behind = FALSE
    /\ model = <<>> /\ task = <<>> /\ pred = {}
    /\ run = [r \in Runners |-> [pc |-> "idle", on |-> NoTask]]
    /\ train = [k \in Kinds |-> NoTrain]
    /\ vote = [v \in Voters |-> NoVote]
    /\ held = [x \in Actors |-> {}] /\ want = [x \in Actors |-> {}]
    /\ spent = [votes |-> 0, moves |-> 0]

(***************************************************************************)
(* Row locks.  A transaction locks one row after the other and holds them  *)
(* until it ends; only predictions share rows, and only models.            *)
(***************************************************************************)
(* A slip: a prediction locks the asset it is about before those its       *)
(* models were trained on.                                                 *)
FirstTarget(x) ==
    IF x \in Runners /\ run[x].on.a \in want[x] THEN run[x].on.a ELSE Min(want[x])
First(x) == Min(want[x])

Shared(x, y, r) == {x, y} \subseteq Runners /\ r \notin Assets
Free(x, r) == \A y \in Actors \ {x} : r \in held[y] => Shared(x, y, r)

Lock(x) ==
    /\ want[x] # {} /\ Free(x, First(x))
    /\ held' = [held EXCEPT ![x] = @ \cup {First(x)}]
    /\ want' = [want EXCEPT ![x] = @ \ {First(x)}]
    /\ UNCHANGED <<labels, ready, files, model, task, run, train, vote, spent>>

Wants(x, rows) == want' = [want EXCEPT ![x] = rows] /\ UNCHANGED held
Granted(x) == want[x] = {}
Ends(x) == held' = [held EXCEPT ![x] = {}] /\ UNCHANGED want

(***************************************************************************)
(* Feedback.  It locks the asset, and if the label changes the active      *)
(* models that learned from it, to flag them; then it commits.             *)
(***************************************************************************)
Decide(v, a, label) ==
    /\ vote[v].pc = "idle" /\ spent.votes < MaxVotes /\ <<a, label>> \in Opinions
    /\ spent' = [spent EXCEPT !.votes = @ + 1]
    /\ vote' = [vote EXCEPT ![v] = [pc |-> "asset", a |-> a, label |-> label, rev |-> Rev(a)]]
    /\ Wants(v, {a})
    /\ UNCHANGED <<labels, ready, files, model, task, run, train>>

Changes(a, label) == ~Labelled(a) \/ Revised(a, Rev(a)) # label

Affected(a, label) == {m \in Active : Changes(a, label) /\ a \in DOMAIN model[m].snap}

(* A decision about a revision that has passed is a conflict.              *)
Judge(v) ==
    /\ vote[v].pc = "asset" /\ Granted(v)
    /\ IF vote[v].rev # Rev(vote[v].a)
       THEN vote' = [vote EXCEPT ![v] = NoVote] /\ Ends(v)
       ELSE /\ vote' = [vote EXCEPT ![v].pc = "models"]
            /\ Wants(v, {ModelRow(m) : m \in Affected(vote[v].a, vote[v].label)})
    /\ UNCHANGED <<labels, ready, files, model, task, run, train, spent>>

(* A model that was replaced while this waited for its row is passed over. *)
Apply(v) ==
    /\ vote[v].pc = "models" /\ Granted(v)
    /\ hist' = [hist EXCEPT ![vote[v].a] = Append(@, vote[v].label)]
    /\ model' = [m \in DOMAIN model |->
                    IF ModelRow(m) \in held[v] /\ m \in Active
                    THEN [model[m] EXCEPT !.flag = TRUE] ELSE model[m]]
    /\ vote' = [vote EXCEPT ![v] = NoVote]
    /\ Ends(v)
    /\ UNCHANGED <<pred, ready, files, task, run, train, spent>>

(***************************************************************************)
(* Training, one run at a time.                                            *)
(***************************************************************************)
Dataset == [a \in {b \in ready : Labelled(b)} |-> Rev(a)]
Enough(snap) ==
    \A label \in {"like", "dislike"} :
        Cardinality({a \in DOMAIN snap : Revised(a, snap[a]) = label}) >= MinPerClass

Training == {k \in Kinds : train[k].pc \notin {"none", "queued"}}
Stage(k, pc, snap) == train' = [train EXCEPT ![k] = [pc |-> pc, snap |-> snap]]
Abandon(k) == train' = [train EXCEPT ![k] = NoTrain]

RequestTraining(k) ==
    /\ train[k].pc = "none" /\ ~behind /\ Enough(Dataset)
    /\ Len(model) + Cardinality({j \in Kinds : train[j].pc # "none"}) < MaxModels
    /\ Stage(k, "queued", Dataset)
    /\ UNCHANGED <<labels, ready, files, model, task, run, vote, locks, spent>>

StartTraining(k) ==
    /\ train[k].pc = "queued" /\ Training = {}
    /\ IF train[k].snap = Dataset THEN Stage(k, "load", train[k].snap) ELSE Abandon(k)
    /\ UNCHANGED <<labels, ready, files, model, task, run, vote, locks, spent>>

(* The data set is read once more, and is what the model is fitted to.     *)
Load(k) ==
    /\ train[k].pc = "load"
    /\ IF Enough(Dataset) THEN Stage(k, "fit", Dataset) ELSE Abandon(k)
    /\ UNCHANGED <<labels, ready, files, model, task, run, vote, locks, spent>>

Fit(k) ==
    /\ train[k].pc = "fit"
    /\ \/ Abandon(k) /\ UNCHANGED locks /\ Moves
       \/ /\ Stage(k, "assets", train[k].snap)
          /\ Wants("train", DOMAIN train[k].snap) /\ Faultless
    /\ UNCHANGED <<labels, ready, files, model, task, run, vote>>

(* A slip: labels that were changed and changed back are taken for the     *)
(* same.                                                                   *)
CurrentByLabel(snap) ==
    \A a \in DOMAIN snap : Revised(a, Rev(a)) = Revised(a, snap[a])
RequireCurrent(snap) ==
    \A a \in DOMAIN snap : \A r \in snap[a] .. Rev(a) : Revised(a, r) = Revised(a, snap[a])

New(k, st) == [kind |-> k, snap |-> train[k].snap, st |-> st, flag |-> FALSE]
Serving(k) == {m \in Active : model[m].kind = k}

(* A model that misses its precision is kept without being activated.      *)
CheckTraining(k) ==
    /\ train[k].pc = "assets" /\ Granted("train")
    /\ \/ /\ ~RequireCurrent(train[k].snap)
          /\ Abandon(k) /\ Ends("train") /\ UNCHANGED model
       \/ /\ RequireCurrent(train[k].snap)
          /\ model' = Append(model, New(k, "validated"))
          /\ Abandon(k) /\ Ends("train")
       \/ /\ RequireCurrent(train[k].snap)
          /\ Stage(k, "model", train[k].snap)
          /\ Wants("train", {ModelRow(m) : m \in Serving(k)})
          /\ UNCHANGED model
    /\ UNCHANGED <<labels, ready, files, task, run, vote, spent>>

(* A slip: the version that served stays active.                           *)
ActivateBeside(k) ==
    /\ train[k].pc = "model" /\ Granted("train")
    /\ model' = Append(model, New(k, "active"))
    /\ Abandon(k) /\ Ends("train")
    /\ UNCHANGED <<labels, ready, files, task, run, vote, spent>>

Activate(k) ==
    /\ train[k].pc = "model" /\ Granted("train")
    /\ model' = Append([m \in DOMAIN model |-> IF m \in Serving(k)
                            THEN [model[m] EXCEPT !.st = "retired"] ELSE model[m]],
                       New(k, "active"))
    /\ Abandon(k) /\ Ends("train")
    /\ UNCHANGED <<labels, ready, files, task, run, vote, spent>>

(***************************************************************************)
(* Discovery and requests.  Inputs that are those of an older task, ended  *)
(* or not, add nothing.                                                    *)
(***************************************************************************)
Complete(a) == \A m \in Active : [a |-> a, rev |-> Rev(a), model |-> m] \in pred
Unchanged(i) == file[i.a].here /\ file[i.a].stat = i.stat

InputsOf(kind, a) ==
    [kind |-> kind, a |-> a, stat |-> loc[a], rev |-> Rev(a),
     models |-> IF kind = "predict" THEN Active ELSE {}]

Enqueue(kind, a) ==
    LET i == InputsOf(kind, a) IN
    /\ ~behind /\ loc[a] # 0 /\ Unchanged(i)
    /\ kind = "predict" => a \in ready /\ Active # {}
    /\ i \notin DOMAIN task
    /\ task' = [j \in DOMAIN task \cup {i} |-> IF j = i THEN "queued" ELSE task[j]]
    /\ UNCHANGED <<labels, ready, files, model, run, train, vote, locks>>

(* A slip: a video that has been predicted once is left alone.             *)
WorthOnce(kind, a) ==
    IF kind = "extract" THEN a \notin ready
    ELSE ~Labelled(a) /\ \A p \in pred : p.a # a
Worth(kind, a) ==
    IF kind = "extract" THEN a \notin ready ELSE ~Labelled(a) /\ ~Complete(a)

Discover(kind, a) == Worth(kind, a) /\ Enqueue(kind, a) /\ UNCHANGED spent
Ask(kind, a) == Enqueue(kind, a) /\ Moves

(***************************************************************************)
(* The executors.                                                          *)
(***************************************************************************)
Go(r, pc) == run' = [run EXCEPT ![r].pc = pc]
Finish(r, st) ==
    /\ task' = [task EXCEPT ![run[r].on] = st]
    /\ run' = [run EXCEPT ![r] = [pc |-> "idle", on |-> NoTask]]
    /\ Ends(r)
At(r, pc, kind) == run[r].pc = pc /\ run[r].on.kind = kind

Claim(r, i) ==
    /\ run[r].pc = "idle" /\ i \in DOMAIN task /\ task[i] = "queued"
    /\ task' = [task EXCEPT ![i] = "running"]
    /\ run' = [run EXCEPT ![r] = [pc |-> "start", on |-> i]]
    /\ UNCHANGED <<labels, ready, files, model, train, vote, locks, spent>>

(* A summary that exists is reused; the source is hashed before the worker *)
(* starts.                                                                 *)
StartExtract(r) ==
    /\ At(r, "start", "extract")
    /\ IF run[r].on.a \in ready THEN Finish(r, "succeeded")
       ELSE IF ~Unchanged(run[r].on) THEN Finish(r, "cancelled")
       ELSE Go(r, "work") /\ UNCHANGED <<task, locks>>
    /\ UNCHANGED <<labels, ready, files, model, train, vote, spent>>

(* The worker hashes the source again before it hands its summary over,    *)
(* and fails when it has changed, or for a reason of its own.              *)
Work(r) ==
    /\ At(r, "work", "extract")
    /\ \/ Unchanged(run[r].on) /\ Go(r, "save") /\ UNCHANGED <<task, locks>> /\ Faultless
       \/ ~Unchanged(run[r].on) /\ Finish(r, "failed") /\ Faultless
       \/ Finish(r, "failed") /\ Moves
    /\ UNCHANGED <<labels, ready, files, model, train, vote>>

(* Of a verified source that has gone since, the summary is kept; next to  *)
(* the summary of another task it is refused.                              *)
Save(r) ==
    LET i == run[r].on IN
    /\ At(r, "save", "extract")
    /\ IF file[i.a].here /\ ~Unchanged(i)
       THEN Finish(r, "cancelled") /\ UNCHANGED ready
       ELSE IF i.a \in ready THEN Finish(r, "failed") /\ UNCHANGED ready
       ELSE Finish(r, "succeeded") /\ ready' = ready \cup {i.a}
    /\ UNCHANGED <<labels, files, model, train, vote, spent>>

Freeze(r) ==
    LET i == run[r].on IN
    /\ At(r, "start", "predict")
    /\ IF i.models \subseteq Active /\ Unchanged(i)
       THEN Go(r, "score") /\ UNCHANGED <<task, locks>>
       ELSE Finish(r, "cancelled")
    /\ UNCHANGED <<labels, ready, files, model, train, vote, spent>>

(* The scores are computed, or a worker fails; then the transaction locks  *)
(* the video's asset and all the models have learned from.                 *)
Score(r) ==
    LET i == run[r].on IN
    /\ At(r, "score", "predict")
    /\ \/ Finish(r, "failed") /\ Moves
       \/ /\ Go(r, "assets") /\ UNCHANGED task /\ Faultless
          /\ Wants(r, {i.a} \cup UNION {DOMAIN model[m].snap : m \in i.models})
    /\ UNCHANGED <<labels, ready, files, model, train, vote>>

ModelRows(i) == {ModelRow(m) : m \in i.models}

CheckAsset(r) ==
    LET i == run[r].on IN
    /\ At(r, "assets", "predict") /\ Granted(r)
    /\ IF Rev(i.a) = i.rev
       THEN Go(r, "models") /\ Wants(r, ModelRows(i)) /\ UNCHANGED task
       ELSE Finish(r, "cancelled")
    /\ UNCHANGED <<labels, ready, files, model, train, vote, spent>>

(* A slip: that the models serve was seen before the scores were computed. *)
StillThere(i) == Unchanged(i)
StillServed(i) == Unchanged(i) /\ i.models \subseteq Active

CheckModels(r) ==
    LET i == run[r].on IN
    /\ At(r, "models", "predict") /\ Granted(r)
    /\ IF StillServed(i)
       THEN Go(r, "write") /\ UNCHANGED <<task, locks>>
       ELSE Finish(r, "cancelled")
    /\ UNCHANGED <<labels, ready, files, model, train, vote, spent>>

(* The source is looked at a last time, and the predictions of all models  *)
(* are committed together.                                                 *)
Write(r) ==
    LET i == run[r].on IN
    /\ At(r, "write", "predict")
    /\ IF Unchanged(i)
       THEN /\ pred' = pred \cup {[a |-> i.a, rev |-> i.rev, model |-> m] : m \in i.models}
            /\ Finish(r, "succeeded")
       ELSE Finish(r, "cancelled") /\ UNCHANGED pred
    /\ UNCHANGED <<hist, ready, files, model, train, vote, spent>>

(***************************************************************************)
(* People move and edit files, other programs tell of theirs, and scans    *)
(* register what they find.                                                *)
(***************************************************************************)
Outside == UNCHANGED <<labels, ready, model, task, run, train, vote, locks>>

Touch(a) ==
    /\ file[a].here /\ Moves
    /\ file' = [file EXCEPT ![a].stat = @ + 1]
    /\ Outside /\ UNCHANGED <<loc, behind>>

TakeAway(a) ==
    /\ file[a].here /\ Moves
    /\ file' = [file EXCEPT ![a].here = FALSE]
    /\ Outside /\ UNCHANGED <<loc, behind>>

BringBack(a) ==
    /\ ~file[a].here
    /\ file' = [file EXCEPT ![a].here = TRUE]
    /\ Outside /\ UNCHANGED <<loc, behind, spent>>

Tell ==
    /\ ~behind /\ Moves
    /\ behind' = TRUE
    /\ Outside /\ UNCHANGED <<file, loc>>

Scan ==
    /\ loc' = [a \in Fresh |-> IF file[a].here THEN file[a].stat ELSE 0]
    /\ behind' = FALSE
    /\ Outside /\ UNCHANGED <<file, spent>>

-----------------------------------------------------------------------------
Voter(v) == Judge(v) \/ Apply(v)
Trainer(k) == StartTraining(k) \/ Load(k) \/ Fit(k) \/ CheckTraining(k) \/ Activate(k)
Runner(r) ==
    \/ StartExtract(r) \/ Work(r) \/ Save(r)
    \/ Freeze(r) \/ Score(r) \/ CheckAsset(r) \/ CheckModels(r) \/ Write(r)

People ==
    \/ \E v \in Voters, a \in Assets, label \in {"like", "dislike"} : Decide(v, a, label)
    \/ \E k \in Kinds : RequestTraining(k)
    \/ \E a \in Fresh : Touch(a) \/ TakeAway(a) \/ BringBack(a)
    \/ \E a \in Fresh, kind \in {"extract", "predict"} : Ask(kind, a)
    \/ Tell

Next ==
    \/ People
    \/ \E x \in Actors : Lock(x)
    \/ \E v \in Voters : Voter(v)
    \/ \E k \in Kinds : Trainer(k)
    \/ \E a \in Fresh, kind \in {"extract", "predict"} : Discover(kind, a)
    \/ \E r \in Runners, i \in DOMAIN task : Claim(r, i)
    \/ \E r \in Runners : Runner(r)
    \/ Scan

Spec == Init /\ [][Next]_vars

(* Transactions and threads go on, the control round discovers, claims and *)
(* scans again and again; people owe nothing.                              *)
Fairness ==
    /\ \A x \in Actors : WF_vars(Lock(x))
    /\ \A v \in Voters : WF_vars(Voter(v))
    /\ \A k \in Kinds : WF_vars(Trainer(k))
    /\ \A a \in Fresh, kind \in {"extract", "predict"} : WF_vars(Discover(kind, a))
    /\ WF_vars(\E r \in Runners, i \in DOMAIN task : Claim(r, i))
    /\ \A r \in Runners : WF_vars(Runner(r))
    /\ WF_vars(Scan)

FairSpec == Spec /\ Fairness

-----------------------------------------------------------------------------
(* An active model one of whose confirmed labels was contradicted after    *)
(* the model had read it says so (needs_update), even when the user has    *)
(* come back to the old label: a feedback that commits while the model is  *)
(* fitted stops the training, one that commits after it flags the model.   *)
StaleModelIsFlagged ==
    \A m \in Active : \A a \in DOMAIN model[m].snap :
        \A r \in model[m].snap[a] .. Rev(a) :
            Revised(a, r) = Revised(a, model[m].snap[a]) \/ model[m].flag

(* Predictions enter the database only of the label revision, the active   *)
(* models and the file that are current at that very commit, whatever was  *)
(* trained, decided or moved since the scores were computed.               *)
PredictionsAreCurrent ==
    [][\A p \in pred' \ pred :
        /\ p.rev = Rev(p.a) /\ p.model \in Active
        /\ file[p.a].here
        /\ \E r \in Runners : run[r].on.a = p.a /\ Unchanged(run[r].on)]_vars

(* Predictions, training runs and feedback never wait for each other in a  *)
(* circle: whenever one waits for a row, some transaction that holds rows  *)
(* can take its next one or end.                                           *)
LocksNeverCycle ==
    (\E x \in Actors : want[x] # {})
        => \E x \in Actors :
              \/ want[x] # {} /\ Free(x, First(x))
              \/ want[x] = {} /\ held[x] # {}

(* A video nobody has judged does not wait for ever for the predictions of *)
(* the models that serve: it gets them, or a task with exactly its present *)
(* inputs has ended without success, which the code never repeats.         *)
Ended(i) == i \in DOMAIN task /\ task[i] \in {"failed", "cancelled"}
Waiting(a) ==
    /\ file[a].here /\ ~Labelled(a) /\ Active # {} /\ ~Complete(a)
    /\ \A kind \in {"extract", "predict"} : ~Ended(InputsOf(kind, a))
VideosAreJudged == \A a \in Fresh : []<>~Waiting(a)
=============================================================================
