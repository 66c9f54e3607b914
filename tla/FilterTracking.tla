---------------------------- MODULE FilterTracking ----------------------------
(***************************************************************************)
(* What the scans of one group make of the files they find and miss:       *)
(* video_filter/tracking.py with the feedback journal of feedback.py and   *)
(* the part of the control round that starts scans (supervisor.py).        *)
(*                                                                         *)
(* A scan lists the managed directories, opens (configuration, lineage),   *)
(* goes through the files one by one and concludes, and only a scan that   *)
(* was complete may say that a file was deleted.  People move files        *)
(* meanwhile, and the compressor replaces a liked source by its output and *)
(* tells it in lineage events.                                             *)
(*                                                                         *)
(* Abstracted: one asset in two versions, the video and the compressor's   *)
(* output.  A place is one path, a number tells what stands for size, time *)
(* and identity of a file, and a listing is one step.  A scan compares     *)
(* every time with the moment it began, so time passes between scans, in   *)
(* ages that stop at the thresholds.  Every step of a scan is committed:   *)
(* what the code takes back of a step, the next scan does again.           *)
(***************************************************************************)
EXTENDS Naturals

CONSTANTS
    Places,        \* paths of files
    Liked,         \* those in liked and liked_source
    From, To,      \* source and output of the one compression
    Roots,         \* the places in the directories of each revision
    Stable,        \* stable_seconds, in ticks
    Missing,       \* missing_seconds
    Late,          \* task_timeout_seconds
    MaxActs,       \* bound: what people do
    MaxFaults,     \* bound: crashes, lost notifications, directories out of reach
    MaxFlips,      \* bound: reconfigurations, to a set never used before
    MaxSpent       \* bound: all of them together, what people do counting twice

ASSUME TrackingAssumption ==
    /\ Liked \subseteq Places /\ From \in Liked /\ To \in Liked /\ From # To
    /\ {Stable, Missing, Late, MaxActs, MaxFaults, MaxFlips, MaxSpent} \subseteq Nat
    /\ 0 < Stable /\ Stable <= Missing /\ Missing <= Late
    /\ Roots \in [0 .. MaxFlips -> SUBSET Places]

Output == MaxActs + 2
Files == 0 .. Output               \* 0 is no file, 1 the first one
Version(f) == IF f = Output THEN "output" ELSE "video"

VARIABLES
    file,      \* the file at each place
    obs,       \* observations of the active revision: file, age, baseline_entry
    loc,       \* the last location row of each place: status, file, age of missing_since
    label,     \* label of the asset, "none" before there is one
    rev,       \* label_revision
    journal,   \* the revisions that undelivered user_deleted records expect
    active,    \* the configuration revision in the active slot
    config,    \* the configured one
    marked,    \* lineage_watermark of the last complete scan
    arrived,   \* places whose rows were inserted by scans since that one
    credited,  \* the compression was counted as a confirmation
    shown,     \* the output has, or once had, a row at its place
    op,        \* the compression: last event, its source, whether that is gone, age
    notice,    \* notifications lost, and those a complete scan made up for
    scan,      \* the scan that is running
    took,      \* ghost: a person removed a file
    hurried,   \* ghost: something moved on before the scans had settled
    last,      \* ghost: what the last person did and nothing confused since
    spent      \* budgets used: acts, faults, flips

rows == <<obs, loc, label, rev, active, marked, arrived, credited, shown>>
people == <<took, hurried, last>>
vars == <<file, rows, journal, config, op, notice, scan, people, spent>>

Idle == [pc |-> "idle", cfg |-> 0, base |-> FALSE, unsure |-> FALSE, gen |-> 0,
         list |-> [p \in Places |-> 0], todo |-> {}, whole |-> TRUE, liked |-> FALSE]

Unseen == [seen |-> 0, age |-> 0, base |-> FALSE]
Row(st, f, age) == [st |-> st, file |-> f, age |-> age]
Current == {"present", "missing", "conflict"}      \* rows with a current_path_key

Observation == [seen : Files, age : 0 .. Stable, base : BOOLEAN]
Location == [st : Current \cup {"none", "retired"}, file : Files, age : 0 .. Missing]
Operation == [ev : 0 .. 3, src : Files, cut : BOOLEAN, age : 0 .. Late]
Notices == [gen : 0 .. MaxFaults, cleared : 0 .. MaxFaults]
Scanning == [pc : {"idle", "open", "files", "submit"}, cfg : 0 .. MaxFlips, base : BOOLEAN,
             unsure : BOOLEAN, gen : 0 .. MaxFaults, list : [Places -> Files],
             todo : SUBSET Places, whole : BOOLEAN, liked : BOOLEAN]

TypeOK ==
    /\ file \in [Places -> Files]
    /\ obs \in [Places -> Observation]
    /\ loc \in [Places -> Location]
    /\ label \in {"none", "like", "dislike"} /\ rev \in Nat
    /\ journal \subseteq Nat
    /\ active \in 0 .. MaxFlips /\ config \in 0 .. MaxFlips /\ active <= config
    /\ marked \in 0 .. 3 /\ marked <= op.ev
    /\ arrived \subseteq Places
    /\ credited \in BOOLEAN /\ (credited => op.ev > 0) /\ shown \in BOOLEAN
    /\ op \in Operation
    /\ notice \in Notices /\ notice.cleared <= notice.gen
    /\ scan \in Scanning
    /\ took \in BOOLEAN /\ hurried \in BOOLEAN /\ last \in {"none", "arrived", "removed"}
    /\ spent \in [acts : 0 .. MaxActs, faults : 0 .. MaxFaults, flips : 0 .. MaxFlips]

(* A group after its first complete scan, with the video at some place.    *)
Init ==
    \E p \in Roots[0] \ {To} :
        /\ file = [q \in Places |-> IF q = p THEN 1 ELSE 0]
        /\ obs = [q \in Places |-> IF q = p THEN [seen |-> 1, age |-> Stable, base |-> TRUE] ELSE Unseen]
        /\ loc = [q \in Places |-> IF q = p THEN Row("present", 1, 0) ELSE Row("none", 0, 0)]
        /\ label = IF p \in Liked THEN "like" ELSE "none"
        /\ rev = IF p \in Liked THEN 1 ELSE 0
        /\ journal = {} /\ active = 0 /\ config = 0 /\ marked = 0
        /\ arrived = {} /\ credited = FALSE /\ shown = FALSE
        /\ op = [ev |-> 0, src |-> 0, cut |-> FALSE, age |-> 0]
        /\ notice = [gen |-> 0, cleared |-> 0]
        /\ scan = Idle
        /\ took = FALSE /\ hurried = FALSE /\ last = "none"
        /\ spent = [acts |-> 0, faults |-> 0, flips |-> 0]

Within == 2 * spent.acts + spent.faults + spent.flips <= MaxSpent

Says(v) == label' = v /\ rev' = rev + 1
Quiet == UNCHANGED <<label, rev>>

(***************************************************************************)
(* Lineage.  A planned compression of a liked source counts once as a      *)
(* confirmation; a cleaned one retires the row of its source when the path *)
(* is gone; a published output gets a row unless it has or had one.        *)
(***************************************************************************)
Known(l) == l[To].st \in Current \/ shown

Cleaned(l) ==
    IF op.ev = 3 /\ file[From] = 0 /\ l[From].st \in Current /\ Version(l[From].file) = "video"
    THEN [l EXCEPT ![From] = Row("retired", l[From].file, 0)] ELSE l

(* A slip: only the last event of an operation makes the output known.     *)
PublishedLate(l) ==
    IF op.ev = 3 /\ ~Known(l) THEN [l EXCEPT ![To] = Row("present", Output, 0)] ELSE l

Published(l) ==
    IF op.ev >= 2 /\ ~Known(l) THEN [l EXCEPT ![To] = Row("present", Output, 0)] ELSE l

Consumed(l, after) == IF op.ev > after THEN Published(Cleaned(l)) ELSE l

Credit(after) == op.ev > after /\ ~credited

(* The historical row of the output, with any status, that Known asks for. *)
Shows(l) == shown \/ l[To].file = Output

(***************************************************************************)
(* A scan.  Its group's control.lock admits one.                           *)
(***************************************************************************)
(* The replay of the journal applies a record that expects the revision,   *)
(* and archives those the revision has passed.                             *)
Replayed ==
    /\ journal' = {r \in journal : r > rev}
    /\ IF rev \in journal THEN Says("dislike") ELSE Quiet

(* The round dispatches a scan, which replays the journal and lists.       *)
Begin ==
    /\ scan.pc = "idle"
    /\ Replayed
    /\ scan' = [Idle EXCEPT !.pc = "open", !.cfg = config, !.gen = notice.gen,
                            !.unsure = notice.gen > notice.cleared,
                            !.list = [p \in Places |-> IF p \in Roots[config] THEN file[p] ELSE 0]]
    /\ UNCHANGED <<file, obs, loc, active, marked, arrived, credited, shown, config, op, notice, people, spent>>

(* Some directory cannot be read: the scan is recorded as incomplete.      *)
Unreadable ==
    /\ scan.pc = "idle" /\ spent.faults < MaxFaults
    /\ Replayed
    /\ spent' = [spent EXCEPT !.faults = @ + 1] /\ Within'
    /\ UNCHANGED <<file, obs, loc, active, marked, arrived, credited, shown, config, op, notice, scan, people>>

Abandon == scan' = Idle /\ UNCHANGED <<rows, journal>>

(* A baseline takes the active slot, retires what lies outside its         *)
(* directories, and reads the lineage from the group's floor.              *)
Open ==
    LET baseline == active # scan.cfg
        inside == [p \in Places |-> IF baseline /\ p \notin Roots[scan.cfg] /\ loc[p].st \in Current
                                    THEN Row("retired", loc[p].file, 0) ELSE loc[p]]
        after == IF baseline THEN 0 ELSE marked
    IN
    /\ scan.pc = "open"
    /\ IF config # scan.cfg THEN Abandon
       ELSE /\ active' = scan.cfg
            /\ loc' = Consumed(inside, after)
            /\ credited' = (credited \/ Credit(after))
            /\ shown' = Shows(loc')
            /\ IF Credit(after) THEN Says("like") ELSE Quiet
            /\ obs' = IF baseline THEN [p \in Places |-> Unseen] ELSE obs
            /\ arrived' = IF baseline THEN {} ELSE arrived
            /\ scan' = [scan EXCEPT !.pc = "files", !.base = baseline,
                                    !.todo = {p \in Places : scan.list[p] # 0}]
            /\ UNCHANGED <<marked, journal>>
    /\ UNCHANGED <<file, config, op, notice, people, spent>>

(* A slip: the mark is left to observations made without lost notifications.*)
ObservedSure(p) ==
    CASE obs[p].seen = 0 -> [seen |-> scan.list[p], age |-> 0, base |-> scan.base \/ ~scan.unsure]
      [] obs[p].seen \notin {0, scan.list[p]} -> [obs[p] EXCEPT !.seen = scan.list[p], !.age = 0]
      [] OTHER -> obs[p]

Observed(p) ==
    CASE obs[p].seen = 0 -> [seen |-> scan.list[p], age |-> 0, base |-> scan.base \/ scan.unsure]
      [] obs[p].seen \notin {0, scan.list[p]} -> [obs[p] EXCEPT !.seen = scan.list[p], !.age = 0]
      [] OTHER -> obs[p]

(* One listed file.  A file that is new, changed or back is hashed, and    *)
(* must still be the one that was listed, under the same configuration.  A *)
(* liked file that came in, and was not found by a baseline, confirms the  *)
(* asset in one commit with its row.                                       *)
File(p) ==
    LET f == scan.list[p]
        o == Observed(p)
        ripe == o.age = Stable
        known == loc[p].st = "present" /\ loc[p].file = f
        fresh == loc[p].st \notin Current \/ Version(loc[p].file) # Version(f)
        entered == fresh \/ loc[p].st = "missing"
        confirms == p \in Liked /\ entered /\ ((~scan.base /\ ~o.base) \/ label = "none")
        lost == ripe /\ ~known /\ (file[p] # f \/ config # scan.cfg)
        found == ripe /\ ~lost
    IN
    /\ scan.pc = "files" /\ p \in scan.todo
    /\ obs' = [obs EXCEPT ![p] = o]
    /\ loc' = IF found THEN [loc EXCEPT ![p] = Row("present", f, 0)] ELSE loc
    /\ shown' = Shows(loc')
    /\ arrived' = IF found /\ fresh THEN arrived \cup {p} ELSE arrived
    /\ IF found /\ confirms THEN Says("like") ELSE Quiet
    /\ scan' = [scan EXCEPT !.todo = @ \ {p}, !.whole = @ /\ ~lost,
                            !.liked = @ \/ (found /\ confirms)]
    /\ UNCHANGED <<file, active, marked, credited, journal, config, op, notice, people, spent>>

(* A file was lost under the scan: it ends incomplete.                     *)
Incomplete ==
    /\ scan.pc = "files" /\ scan.todo = {} /\ ~scan.whole
    /\ Abandon
    /\ UNCHANGED <<file, config, op, notice, people, spent>>

(***************************************************************************)
(* The conclusion of a complete scan, about the rows it did not meet.      *)
(* They are retired when the scan establishes observations or when a file  *)
(* of the same version has arrived, and are missing otherwise.             *)
(***************************************************************************)
Moved(l) == {Version(l[p].file) : p \in {q \in arrived : l[q].st = "present" /\ scan.list[q] # 0}}

Absent(l, p) == l[p].st \in {"present", "missing"} /\ scan.list[p] = 0 /\ p \in Roots[scan.cfg]

(* A slip: missing_since is the time of the last scan that missed the row. *)
JudgedAnew(l) ==
    [p \in Places |->
        IF ~Absent(l, p) THEN l[p]
        ELSE IF scan.base \/ scan.unsure \/ Version(l[p].file) \in Moved(l)
        THEN Row("retired", l[p].file, 0)
        ELSE Row("missing", l[p].file, 0)]

Judged(l) ==
    [p \in Places |->
        IF ~Absent(l, p) THEN l[p]
        ELSE IF scan.base \/ scan.unsure \/ Version(l[p].file) \in Moved(l)
        THEN Row("retired", l[p].file, 0)
        ELSE Row("missing", l[p].file, l[p].age)]

Lost(l) == {p \in Places : l[p].st = "missing"}
Mature(l) == {p \in Lost(l) : l[p].age = Missing}
(* A slip: an operation is decided once it has published.                  *)
UndecidedUnpublished == op.ev = 1

Undecided == op.ev \in {1, 2}

(* A deletion is considered when this scan missed a row, nothing of the    *)
(* asset arrived among the liked, and no notification was lost meanwhile.  *)
(* A row may be missing although its file is back but not stable yet.      *)
Deciding(l) ==
    /\ \E p \in Lost(l) : Absent(l, p)
    /\ ~scan.base /\ ~scan.unsure /\ ~scan.liked
    /\ notice.gen <= notice.cleared
    /\ \A p \in Places : l[p].st # "conflict"

(* An operation that is late makes them conflicts, for a person to decide. *)
Settled(l) ==
    IF ~Deciding(l) THEN l
    ELSE IF Undecided
    THEN [p \in Places |-> IF p \in Lost(l) /\ op.age = Late THEN Row("conflict", l[p].file, 0) ELSE l[p]]
    ELSE [p \in Places |-> IF p \in Mature(l) THEN Row("retired", l[p].file, 0) ELSE l[p]]

Rejects(l, v) == Deciding(l) /\ ~Undecided /\ Mature(l) # {} /\ v # "dislike"

(* The record is in the journal before the rows are committed.             *)
Conclude ==
    LET l == Judged(Consumed(loc, marked))
        v == IF Credit(marked) THEN "like" ELSE label
        r == IF Credit(marked) THEN rev + 1 ELSE rev
    IN
    /\ scan.pc = "files" /\ scan.todo = {} /\ scan.whole
    /\ IF config # scan.cfg THEN Abandon /\ UNCHANGED notice
       ELSE /\ loc' = Settled(l)
            /\ label' = v /\ rev' = r
            /\ credited' = (credited \/ Credit(marked))
            /\ shown' = Shows(loc')
            /\ marked' = op.ev
            /\ arrived' = {}
            /\ UNCHANGED <<obs, active>>
            /\ IF Rejects(l, v)
               THEN /\ journal' = journal \cup {r}
                    /\ scan' = [Idle EXCEPT !.pc = "submit", !.gen = scan.gen, !.unsure = scan.unsure]
                    /\ UNCHANGED notice
               ELSE /\ scan' = Idle
                    /\ notice' = IF scan.unsure THEN [notice EXCEPT !.cleared = scan.gen] ELSE notice
                    /\ UNCHANGED journal
    /\ UNCHANGED <<file, config, op, people, spent>>

(* A record that is refused fails the scan, and stays for the replay.      *)
Submit ==
    /\ scan.pc = "submit"
    /\ IF rev \in journal THEN Says("dislike") /\ journal' = journal \ {rev} ELSE Quiet /\ UNCHANGED journal
    /\ scan' = Idle
    /\ UNCHANGED <<file, obs, loc, active, marked, arrived, credited, shown, config, op, notice, people, spent>>

(* The process ends, also between the journal and the commit.  What it     *)
(* knew of lost notifications is gone with it.                             *)
Crash ==
    /\ spent.faults < MaxFaults
    /\ spent' = [spent EXCEPT !.faults = @ + 1] /\ Within'
    /\ scan' = Idle /\ notice' = [gen |-> 0, cleared |-> 0]
    /\ \/ UNCHANGED journal
       \/ LET l == Judged(Consumed(loc, marked))
              counts == Credit(marked)
          IN
          /\ scan.pc = "files" /\ scan.todo = {} /\ scan.whole /\ config = scan.cfg
          /\ Rejects(l, IF counts THEN "like" ELSE label)
          /\ journal' = journal \cup {IF counts THEN rev + 1 ELSE rev}
    /\ UNCHANGED <<file, rows, config, op, people>>

(* The scans have not settled: a row does not show what is at its place,   *)
(* beyond the source the compressor cut, or they never heard of the output *)
(* although it left its place or the watermark has passed it.              *)
Stale(p) == loc[p].st \in Current /\ loc[p].file # file[p]

Unsettled ==
    \/ \E p \in Places : Stale(p) /\ ~(p = From /\ op.cut /\ marked < 3)
    \/ op.ev >= 2 /\ ~shown /\ (file[To] # Output \/ marked >= 2)

(***************************************************************************)
(* The compression, as far as the scans can see it.  Publication and its   *)
(* event are one step.  It may stop anywhere, for good.                    *)
(***************************************************************************)
Planned ==
    /\ op.ev = 0 /\ file[From] # 0 /\ file[To] = 0
    /\ op' = [ev |-> 1, src |-> file[From], cut |-> FALSE, age |-> 0]
    /\ UNCHANGED file

Publish ==
    /\ op.ev = 1 /\ file[From] = op.src /\ file[To] = 0
    /\ file' = [file EXCEPT ![To] = Output]
    /\ op' = [op EXCEPT !.ev = 2, !.age = 0]

Unlink ==
    /\ op.ev = 2 /\ ~op.cut /\ file[To] = Output /\ file[From] \in {0, op.src}
    /\ file' = [file EXCEPT ![From] = 0]
    /\ op' = [op EXCEPT !.cut = TRUE]

Clean ==
    /\ op.ev = 2 /\ op.cut /\ file[From] = 0 /\ file[To] = Output
    /\ op' = [op EXCEPT !.ev = 3, !.age = 0]
    /\ UNCHANGED file

(* The video it plans for is still shown by the row of another place: the  *)
(* compressor never asks what the scans know of its source.                *)
Overtakes == op.ev = 0 /\ \E p \in Places \ {From} : loc[p].st \in Current /\ loc[p].file = file[From]

Compress ==
    /\ Planned \/ Publish \/ Unlink \/ Clean
    /\ hurried' = (hurried \/ Overtakes)
    /\ UNCHANGED <<rows, journal, config, notice, scan, took, last, spent>>

(***************************************************************************)
(* Time, people and the operating system.                                  *)
(***************************************************************************)
Older(n, limit) == IF n < limit THEN n + 1 ELSE n

Tick ==
    /\ scan.pc = "idle"
    /\ obs' = [p \in Places |-> IF obs[p].seen = 0 THEN obs[p] ELSE [obs[p] EXCEPT !.age = Older(@, Stable)]]
    /\ loc' = [p \in Places |-> IF loc[p].st = "missing" THEN [loc[p] EXCEPT !.age = Older(@, Missing)] ELSE loc[p]]
    /\ op' = [op EXCEPT !.age = IF op.ev \in {1, 2} THEN Older(@, Late) ELSE @]
    /\ UNCHANGED <<file, label, rev, active, marked, arrived, credited, shown,
                   journal, config, notice, scan, people, spent>>

(* Nothing is under way that would confuse what a person does next.        *)
Calm ==
    /\ scan.pc = "idle" /\ journal = {} /\ config = active /\ notice.gen = notice.cleared
    /\ arrived = {} /\ op.ev \in {0, 3} /\ marked = op.ev
    /\ \A p \in Places :
          IF p \in Roots[config] /\ file[p] # 0 THEN loc[p].st = "present" /\ loc[p].file = file[p]
          ELSE loc[p].st \notin Current

Act(what) ==
    /\ spent.acts < MaxActs
    /\ spent' = [spent EXCEPT !.acts = @ + 1] /\ Within'
    /\ last' = IF Calm THEN what ELSE "none"
    /\ UNCHANGED <<obs, loc, active, marked, arrived, credited, shown, config, op, notice, scan>>

(* Nobody brings a file to the source's path while the compression is not  *)
(* settled: the row would outlive its source there.                        *)
Free(p) == file[p] = 0 /\ (p = From => op.ev = marked /\ op.ev \in {0, 3})

(* A copy of the video comes to a place.  Where a baseline observed a file *)
(* before, the observation keeps its mark, and no arrival is expected.     *)
Put(p) ==
    /\ Free(p)
    /\ Act(IF p \in Liked /\ ~obs[p].base THEN "arrived" ELSE "none")
    /\ file' = [file EXCEPT ![p] = spent.acts + 2]
    /\ UNCHANGED <<label, rev, journal, took, hurried>>

Take(p) ==
    /\ file[p] # 0
    /\ Act(IF p \in Roots[config] THEN "removed" ELSE "none")
    /\ file' = [file EXCEPT ![p] = 0]
    /\ took' = TRUE
    /\ UNCHANGED <<label, rev, journal, hurried>>

(* A file is moved between places; out of the directories is taking it     *)
(* away.  It is hurried before the scans have settled on the last move,    *)
(* while a row is missing, and when the running scan has not listed it.    *)
Rename(p, q) ==
    /\ file[p] # 0 /\ Free(q)
    /\ Act("none")
    /\ file' = [file EXCEPT ![p] = 0, ![q] = file[p]]
    /\ took' = (took \/ q \notin Roots[config])
    /\ hurried' = \/ hurried \/ Unsettled
                  \/ \E r \in Places : loc[r].st = "missing"
                  \/ scan.pc # "idle" /\ scan.list[p] # file[p]
    /\ UNCHANGED <<label, rev, journal>>

(* The user's own decision; its journal is in FilterTransfer.              *)
Tell(v) ==
    /\ label # "none"
    /\ Act("none")
    /\ Says(v)
    /\ UNCHANGED <<file, journal, took, hurried>>

Person ==
    \/ \E p \in Places : Put(p) \/ Take(p) \/ \E q \in Places : Rename(p, q)
    \/ \E v \in {"like", "dislike"} : Tell(v)

Reconfigure ==
    /\ spent.flips < MaxFlips
    /\ spent' = [spent EXCEPT !.flips = @ + 1] /\ Within'
    /\ config' = config + 1
    /\ hurried' = (hurried \/ Unsettled)
    /\ last' = "none"
    /\ UNCHANGED <<file, rows, journal, op, notice, scan, took>>

Overflow ==
    /\ spent.faults < MaxFaults
    /\ spent' = [spent EXCEPT !.faults = @ + 1] /\ Within'
    /\ notice' = [notice EXCEPT !.gen = @ + 1]
    /\ last' = "none"
    /\ UNCHANGED <<file, rows, journal, config, op, scan, took, hurried>>

(***************************************************************************)
(* The specification.  The control round starts scans again and again, a   *)
(* scan goes on, and time passes.                                          *)
(***************************************************************************)
Scan == Begin \/ Open \/ (\E p \in Places : File(p)) \/ Incomplete \/ Conclude \/ Submit

Next ==
    \/ Begin \/ Unreadable \/ Open \/ (\E p \in Places : File(p))
    \/ Incomplete \/ Conclude \/ Submit \/ Crash
    \/ Compress \/ Tick \/ Person \/ Reconfigure \/ Overflow

Spec == Init /\ [][Next]_vars
FairSpec == Spec /\ WF_vars(Scan) /\ SF_vars(Tick)

(***************************************************************************)
(* Properties.                                                             *)
(***************************************************************************)

(* A file stands where a row is missing: the next scans meet it, but until *)
(* it is stable the row goes on being missing, for longer and longer.      *)
Back == \E p \in Places : loc[p].st = "missing" /\ file[p] # 0

(* While nothing is hurried, a record of a deletion is written only after  *)
(* a person took a file away: not for a source the compressor removed, a   *)
(* file moved between the directories, a directory out of reach, a         *)
(* reconfiguration, or a restart in the middle (the operations, arrivals   *)
(* and conflicts of reconcile).  What the code does reject without anybody *)
(* taking a file is left to DeletionsAreTaken: a video that is compressed, *)
(* or moved on, or whose group is reconfigured, before the scans settled   *)
(* on where it went (hurried), and a row that is missing although a file   *)
(* is back.                                                                *)
SettledMovesAreKept == [][journal' \subseteq journal \/ took \/ hurried \/ Back]_vars

(* The plan says that what programs move or compress is never rejected     *)
(* (plan/video_filter/codingplan.md:25), and that moves within the group   *)
(* are handled with the times of stability and confirmation kept (198).    *)
(* The code does not keep this: a video moved to a liked directory and     *)
(* compressed before a scan has found it there leaves a row that no        *)
(* arrival explains, and that is judged deleted in time.                   *)
DeletionsAreTaken == [][journal' \subseteq journal \/ took]_vars

(* A published output the watermark has passed has, or had, a row, so that *)
(* its deletion will be seen even if no scan ever met the file.            *)
PublishedIsKnown == marked >= 2 => loc[To].st # "none"

(* A file that comes to a liked directory of a settled group makes the     *)
(* asset liked, across crashes and interrupted scans, unless a person does *)
(* something else first; also at a path where a file was seen before and   *)
(* taken.  The paths a baseline had observed a file at are left out: their *)
(* observations keep baseline_entry, so that reconcile never again takes a *)
(* file there for an arrival, which grouped-implementation.md:61 promises. *)
ArrivalIsHeard == (last = "arrived") ~> (label = "like" \/ last # "arrived")

(* A file taken from a settled group makes the asset disliked, unless a    *)
(* person does something else, or the compression gets in between.         *)
TakingIsHeard == (last = "removed") ~> (label = "dislike" \/ last # "removed" \/ op.ev # 0)
=============================================================================
