------------------------ MODULE FilterTrackingProofs ------------------------
(***************************************************************************)
(* The scans of one group, for any places, directories and thresholds and  *)
(* any sequence of moves, faults and reconfigurations: a published output  *)
(* is known to the scans, and a deletion is recorded only after somebody   *)
(* took a file away or something moved on before the scans had settled, or *)
(* while a file stands where a row is missing.                             *)
(***************************************************************************)
EXTENDS FilterTracking, TLAPS

(***************************************************************************)
(* Types, and what keeps them: the counters stand for budgets used.        *)
(***************************************************************************)
Counters ==
    /\ notice.gen <= spent.faults
    /\ config = spent.flips
    /\ scan.gen <= notice.gen
    /\ scan.cfg <= config

TypeInv == TypeOK /\ Counters

(***************************************************************************)
(* What a step of a scan makes of the location rows: rows, and a row that  *)
(* was there is never gone.                                                *)
(***************************************************************************)
LEMMA Bounds ==
    /\ Stable \in Nat /\ Missing \in Nat /\ Late \in Nat
    /\ 0 < Stable /\ Stable <= Missing /\ Missing <= Late
    /\ MaxActs \in Nat /\ MaxFaults \in Nat /\ MaxFlips \in Nat
    /\ From \in Places /\ To \in Places /\ From # To
    /\ 0 \in Files /\ 1 \in Files /\ Output \in Files /\ Files \subseteq Nat
BY TrackingAssumption DEF Files, Output

Locations == [Places -> Location]
KeepsRows(l, m) ==
    /\ m \in Locations
    /\ \A p \in Places : m[p].st = "none" => m[p] = l[p]

LEMMA RowIs ==
    ASSUME NEW st \in Current \cup {"none", "retired"}, NEW f \in Files
    PROVE  Row(st, f, 0) \in Location /\ Row(st, f, 0).st = st /\ Row(st, f, 0).file = f
BY TrackingAssumption DEF Row, Location

LEMMA ConsumedKeeps ==
    ASSUME NEW l \in Locations, NEW after
    PROVE  /\ KeepsRows(l, Consumed(l, after))
           /\ op.ev > after /\ op.ev >= 2 => Consumed(l, after)[To].st # "none" \/ shown
<1>0. From \in Places /\ To \in Places /\ Output \in Files
  BY TrackingAssumption DEF Output, Files
<1>1. KeepsRows(l, Cleaned(l))
  <2>1. Row("retired", l[From].file, 0) \in Location /\ Row("retired", l[From].file, 0).st = "retired"
    BY <1>0, RowIs DEF Locations, Location
  <2>2. QED
    BY <1>0, <2>1 DEF KeepsRows, Cleaned, Locations
<1>2. ASSUME NEW m \in Locations
      PROVE  /\ KeepsRows(m, Published(m))
             /\ op.ev >= 2 => Published(m)[To].st # "none" \/ shown
  <2>1. Row("present", Output, 0) \in Location /\ Row("present", Output, 0).st = "present"
    BY <1>0, RowIs DEF Current
  <2>2. Known(m) => m[To].st # "none" \/ shown
    BY DEF Known, Current
  <2>3. QED
    BY <1>0, <2>1, <2>2 DEF KeepsRows, Published, Locations
<1>3. QED
  BY <1>1, <1>2 DEF Consumed, KeepsRows

LEMMA JudgedKeeps ==
    ASSUME NEW l \in Locations
    PROVE  KeepsRows(l, Judged(l))
<1>1. ASSUME NEW p \in Places
      PROVE  /\ Row("retired", l[p].file, 0) \in Location /\ Row("retired", l[p].file, 0).st = "retired"
             /\ Row("missing", l[p].file, l[p].age) \in Location
             /\ Row("missing", l[p].file, l[p].age).st = "missing"
  <2>1. l[p].file \in Files /\ l[p].age \in 0 .. Missing
    BY DEF Locations, Location
  <2>2. QED
    BY <2>1, RowIs DEF Location, Row, Current
<1>2. QED
  BY <1>1 DEF Judged, KeepsRows, Locations

LEMMA SettledKeeps ==
    ASSUME NEW l \in Locations
    PROVE  KeepsRows(l, Settled(l))
<1>1. ASSUME NEW p \in Places, NEW st \in {"conflict", "retired"}
      PROVE  Row(st, l[p].file, 0) \in Location /\ Row(st, l[p].file, 0).st = st
  BY RowIs DEF Locations, Location, Current
<1>2. QED
  BY <1>1 DEF Settled, KeepsRows, Locations

LEMMA ConcludedKeeps ==
    ASSUME TypeOK, NEW after
    PROVE  /\ KeepsRows(loc, Consumed(loc, after))
           /\ KeepsRows(loc, Settled(Judged(Consumed(loc, after))))
           /\ op.ev > after /\ op.ev >= 2 =>
                Settled(Judged(Consumed(loc, after)))[To].st # "none" \/ shown
<1>1. loc \in Locations /\ To \in Places
  BY TrackingAssumption DEF TypeOK, Locations
<1> DEFINE l == Consumed(loc, after)
<1>2. KeepsRows(loc, l) /\ (op.ev > after /\ op.ev >= 2 => l[To].st # "none" \/ shown)
  BY <1>1, ConsumedKeeps
<1>3. KeepsRows(l, Judged(l))
  BY <1>2, JudgedKeeps DEF KeepsRows
<1>4. KeepsRows(Judged(l), Settled(Judged(l)))
  BY <1>3, SettledKeeps DEF KeepsRows
<1>5. QED
  BY <1>1, <1>2, <1>3, <1>4 DEF KeepsRows

(***************************************************************************)
(* Types.  Each action types what it changes.                              *)
(***************************************************************************)
LEMMA IdleIs == Idle \in Scanning /\ Idle.gen = 0 /\ Idle.cfg = 0
BY TrackingAssumption DEF Idle, Scanning, Files, Output

LEMMA TypeStart == Init => TypeInv
<1> SUFFICES ASSUME NEW p \in Roots[0] \ {To},
                    file = [q \in Places |-> IF q = p THEN 1 ELSE 0],
                    obs = [q \in Places |-> IF q = p THEN [seen |-> 1, age |-> Stable, base |-> TRUE] ELSE Unseen],
                    loc = [q \in Places |-> IF q = p THEN Row("present", 1, 0) ELSE Row("none", 0, 0)],
                    label = IF p \in Liked THEN "like" ELSE "none",
                    rev = IF p \in Liked THEN 1 ELSE 0,
                    journal = {}, active = 0, config = 0, marked = 0, arrived = {}, credited = FALSE,
                    shown = FALSE,
                    op = [ev |-> 0, src |-> 0, cut |-> FALSE, age |-> 0],
                    notice = [gen |-> 0, cleared |-> 0], scan = Idle, took = FALSE,
                    hurried = FALSE, last = "none",
                    spent = [acts |-> 0, faults |-> 0, flips |-> 0]
             PROVE  TypeInv
  BY DEF Init
<1>1. 0 \in Files /\ 1 \in Files
  BY TrackingAssumption DEF Files, Output
<1>2. /\ file \in [Places -> Files]
      /\ op \in Operation /\ notice \in Notices
      /\ spent \in [acts : 0 .. MaxActs, faults : 0 .. MaxFaults, flips : 0 .. MaxFlips]
      /\ 0 \in 0 .. MaxFlips
  BY <1>1, TrackingAssumption DEF Operation, Notices
<1>3. obs \in [Places -> Observation]
  BY <1>1, TrackingAssumption DEF Observation, Unseen
<1>4. loc \in [Places -> Location]
  <2>1. Row("present", 1, 0) \in Location /\ Row("none", 0, 0) \in Location
    BY <1>1, RowIs DEF Current
  <2>2. QED
    BY <2>1
<1>5. QED
  <2>1. /\ label \in {"none", "like", "dislike"} /\ rev \in Nat /\ journal \subseteq Nat
        /\ active \in 0 .. MaxFlips /\ config \in 0 .. MaxFlips /\ active <= config
        /\ op.ev = 0 /\ marked \in 0 .. 3 /\ marked <= op.ev
        /\ arrived \subseteq Places /\ credited = FALSE /\ shown = FALSE
        /\ notice.cleared = 0 /\ notice.gen = 0 /\ scan \in Scanning
        /\ took = FALSE /\ hurried = FALSE /\ last = "none"
    BY <1>2, IdleIs
  <2>2. Counters
    BY <2>1, IdleIs DEF Counters
  <2>3. notice.cleared <= notice.gen
    BY <2>1
  <2>4. QED
    BY <1>2, <1>3, <1>4, <2>1, <2>2, <2>3 DEF TypeInv, TypeOK

(* A scan that goes on or ends, and what it leaves of the counters.        *)
LEMMA ScansAre ==
    ASSUME TypeInv
    PROVE  /\ \A b \in BOOLEAN, t \in SUBSET Places :
                /\ [scan EXCEPT !.pc = "files", !.base = b, !.todo = t] \in Scanning
                /\ [scan EXCEPT !.pc = "files", !.base = b, !.todo = t].gen = scan.gen
                /\ [scan EXCEPT !.pc = "files", !.base = b, !.todo = t].cfg = scan.cfg
           /\ [Idle EXCEPT !.pc = "submit", !.gen = scan.gen, !.unsure = scan.unsure] \in Scanning
           /\ [Idle EXCEPT !.pc = "submit", !.gen = scan.gen, !.unsure = scan.unsure].gen = scan.gen
           /\ [Idle EXCEPT !.pc = "submit", !.gen = scan.gen, !.unsure = scan.unsure].cfg = 0
<1>1. scan \in Scanning
  BY DEF TypeInv, TypeOK
<1>2. QED
  BY <1>1, IdleIs DEF Scanning

LEMMA NewScanIs ==
    ASSUME TypeInv, NEW u \in BOOLEAN, NEW list \in [Places -> Files],
           NEW s, s = [Idle EXCEPT !.pc = "open", !.cfg = config, !.gen = notice.gen,
                                   !.unsure = u, !.list = list]
    PROVE  s \in Scanning /\ s.gen = notice.gen /\ s.cfg = config
<1>1. config \in 0 .. MaxFlips /\ notice.gen \in 0 .. MaxFaults
  BY DEF TypeInv, TypeOK, Notices
<1>2. QED
  BY <1>1, IdleIs DEF Scanning

LEMMA SaysIs ==
    ASSUME TypeInv
    PROVE  /\ \A v \in {"like", "dislike"} :
                Says(v) => label' \in {"none", "like", "dislike"} /\ rev' \in Nat
           /\ Quiet => label' \in {"none", "like", "dislike"} /\ rev' \in Nat
BY DEF TypeInv, TypeOK, Says, Quiet

LEMMA ReplayedIs ==
    ASSUME TypeInv, Replayed
    PROVE  journal' \subseteq journal /\ label' \in {"none", "like", "dislike"} /\ rev' \in Nat
BY SaysIs DEF Replayed

LEMMA ShowsIs == ASSUME TypeInv, shown' = Shows(loc') PROVE shown' \in BOOLEAN
BY DEF TypeInv, TypeOK, Shows

LEMMA BeginType == ASSUME TypeInv, Begin \/ Unreadable PROVE TypeInv'
<1>1. journal' \subseteq Nat /\ label' \in {"none", "like", "dislike"} /\ rev' \in Nat
  BY ReplayedIs DEF Begin, Unreadable, TypeInv, TypeOK
<1>2. CASE Begin
  <2>1. [p \in Places |-> IF p \in Roots[config] THEN file[p] ELSE 0] \in [Places -> Files]
    BY TrackingAssumption DEF TypeInv, TypeOK, Files, Output
  <2>2. scan' \in Scanning /\ scan'.gen = notice.gen /\ scan'.cfg = config
    <3>1. scan' = [Idle EXCEPT !.pc = "open", !.cfg = config, !.gen = notice.gen,
                    !.unsure = notice.gen > notice.cleared,
                    !.list = [p \in Places |-> IF p \in Roots[config] THEN file[p] ELSE 0]]
      BY <1>2 DEF Begin
    <3>2. (notice.gen > notice.cleared) \in BOOLEAN
      OBVIOUS
    <3>3. QED
      BY <2>1, <3>1, <3>2, NewScanIs
  <2>3. QED
    BY <1>1, <1>2, <2>2 DEF Begin, TypeInv, TypeOK, Counters, people, Notices
<1>3. CASE Unreadable
  <2>1. /\ spent' \in [acts : 0 .. MaxActs, faults : 0 .. MaxFaults, flips : 0 .. MaxFlips]
        /\ spent'.faults = spent.faults + 1 /\ spent'.flips = spent.flips
    BY <1>3, Bounds DEF Unreadable, TypeInv, TypeOK
  <2>2. QED
    BY <1>1, <1>3, <2>1 DEF Unreadable, TypeInv, TypeOK, Counters, people, Notices
<1>4. QED
  BY <1>2, <1>3

LEMMA OpenType == ASSUME TypeInv, Open PROVE TypeInv'
<1>1. CASE config # scan.cfg
  BY <1>1, IdleIs DEF Open, Abandon, rows, people, TypeInv, TypeOK, Counters, Notices
<1>2. CASE config = scan.cfg
  <2> DEFINE baseline == active # scan.cfg
             inside == [p \in Places |-> IF baseline /\ p \notin Roots[scan.cfg] /\ loc[p].st \in Current
                                         THEN Row("retired", loc[p].file, 0) ELSE loc[p]]
             after == IF baseline THEN 0 ELSE marked
  <2>1. inside \in Locations
    <3>1. \A p \in Places : Row("retired", loc[p].file, 0) \in Location
      BY RowIs DEF TypeInv, TypeOK, Location
    <3>2. QED
      BY <3>1 DEF TypeInv, TypeOK, Locations
  <2>2. loc' \in [Places -> Location]
    <3>1. Consumed(inside, after) \in Locations
      BY <2>1, ConsumedKeeps DEF KeepsRows
    <3>2. loc' = Consumed(inside, after)
      BY <1>2 DEF Open
    <3>3. QED
      BY <3>1, <3>2 DEF Locations
  <2>3. scan' \in Scanning /\ scan'.gen = scan.gen /\ scan'.cfg = scan.cfg
    <3>1. scan' = [scan EXCEPT !.pc = "files", !.base = baseline,
                               !.todo = {p \in Places : scan.list[p] # 0}]
      BY <1>2 DEF Open
    <3>2. baseline \in BOOLEAN /\ {p \in Places : scan.list[p] # 0} \in SUBSET Places
      OBVIOUS
    <3>3. QED
      BY <3>1, <3>2, ScansAre
  <2>4. obs' \in [Places -> Observation]
    <3>1. Unseen \in Observation
      BY TrackingAssumption DEF Unseen, Observation, Files, Output
    <3>2. QED
      BY <1>2, <3>1 DEF Open, TypeInv, TypeOK
  <2>5. label' \in {"none", "like", "dislike"} /\ rev' \in Nat
    BY <1>2, SaysIs DEF Open
  <2>6. credited' \in BOOLEAN /\ (credited' => op.ev > 0)
    <3>1. after \in Nat /\ op.ev \in Nat
      BY DEF TypeInv, TypeOK, Operation
    <3>2. credited' = (credited \/ Credit(after))
      BY <1>2 DEF Open
    <3>3. Credit(after) => op.ev > 0
      BY <3>1 DEF Credit
    <3>4. QED
      BY <3>2, <3>3 DEF TypeInv, TypeOK
  <2>7. /\ active' = config /\ arrived' \subseteq Places
        /\ UNCHANGED <<marked, journal, file, config, op, notice, people, spent>>
    BY <1>2 DEF Open, TypeInv, TypeOK
  <2>8. shown' \in BOOLEAN
    BY <1>2, ShowsIs DEF Open
  <2>9. QED
    BY <1>2, <2>2, <2>3, <2>4, <2>5, <2>6, <2>7, <2>8 DEF TypeInv, TypeOK, Counters, people
<1>3. QED
  BY <1>1, <1>2

LEMMA FileType == ASSUME TypeInv, NEW p \in Places, File(p) PROVE TypeInv'
<1>1. Observed(p) \in Observation
  <2>1. /\ scan.list[p] \in Files /\ obs[p] \in Observation /\ 0 \in 0 .. Stable
        /\ (scan.base \/ scan.unsure) \in BOOLEAN
    BY Bounds DEF TypeInv, TypeOK, Scanning
  <2>2. QED
    BY <2>1 DEF Observed, Observation
<1>2. obs' \in [Places -> Observation]
  BY <1>1 DEF File, TypeInv, TypeOK
<1>3. loc' \in [Places -> Location]
  <2>1. scan.list[p] \in Files
    BY DEF TypeInv, TypeOK, Scanning
  <2>2. Row("present", scan.list[p], 0) \in Location
    BY <2>1, RowIs DEF Current
  <2>3. QED
    BY <2>2 DEF File, TypeInv, TypeOK
<1>4. scan' \in Scanning /\ scan'.gen = scan.gen /\ scan'.cfg = scan.cfg
  <2>1. \E w, k \in BOOLEAN : scan' = [scan EXCEPT !.todo = @ \ {p}, !.whole = w, !.liked = k]
    BY DEF File, TypeInv, TypeOK, Scanning
  <2>2. scan.todo \ {p} \in SUBSET Places
    BY DEF TypeInv, TypeOK, Scanning
  <2>3. QED
    <3>1. PICK w, k \in BOOLEAN : scan' = [scan EXCEPT !.todo = @ \ {p}, !.whole = w, !.liked = k]
      BY <2>1
    <3>2. scan' = [scan EXCEPT !.todo = scan.todo \ {p}, !.whole = w, !.liked = k]
      BY <3>1
    <3>3. /\ [scan EXCEPT !.todo = scan.todo \ {p}, !.whole = w, !.liked = k] \in Scanning
          /\ [scan EXCEPT !.todo = scan.todo \ {p}, !.whole = w, !.liked = k].gen = scan.gen
          /\ [scan EXCEPT !.todo = scan.todo \ {p}, !.whole = w, !.liked = k].cfg = scan.cfg
      <4>1. scan \in Scanning
        BY DEF TypeInv, TypeOK
      <4>2. QED
        BY <2>2, <4>1 DEF Scanning
    <3>4. QED
      BY <3>2, <3>3
<1>5. label' \in {"none", "like", "dislike"} /\ rev' \in Nat
  BY SaysIs DEF File
<1>6. /\ arrived' \subseteq Places
      /\ UNCHANGED <<file, active, marked, credited, journal, config, op, notice, people, spent>>
  BY DEF File, TypeInv, TypeOK
<1>7. shown' \in BOOLEAN
  BY ShowsIs DEF File
<1>8. QED
  BY <1>2, <1>3, <1>4, <1>5, <1>6, <1>7 DEF TypeInv, TypeOK, Counters, people

LEMMA EndsType == ASSUME TypeInv, Incomplete \/ Submit PROVE TypeInv'
<1>1. scan' = Idle
  BY DEF Incomplete, Submit, Abandon
<1>2. label' \in {"none", "like", "dislike"} /\ rev' \in Nat /\ journal' \subseteq Nat
  BY SaysIs DEF Incomplete, Submit, Abandon, rows, TypeInv, TypeOK, Quiet
<1>3. UNCHANGED <<file, obs, loc, active, marked, arrived, credited, shown, config, op, notice, people, spent>>
  BY DEF Incomplete, Submit, Abandon, rows
<1>4. QED
  BY <1>1, <1>2, <1>3, IdleIs DEF TypeInv, TypeOK, Counters, people, Notices

LEMMA ConcludeType == ASSUME TypeInv, Conclude PROVE TypeInv'
<1>1. CASE config # scan.cfg
  BY <1>1, IdleIs DEF Conclude, Abandon, rows, people, TypeInv, TypeOK, Counters, Notices
<1>2. CASE config = scan.cfg
  <2>1. loc' \in [Places -> Location]
    <3>1. loc' = Settled(Judged(Consumed(loc, marked)))
      BY <1>2 DEF Conclude
    <3>2. QED
      BY <3>1, ConcludedKeeps DEF KeepsRows, Locations, TypeInv
  <2>2. label' \in {"none", "like", "dislike"} /\ rev' \in Nat /\ journal' \subseteq Nat
    BY <1>2 DEF Conclude, TypeInv, TypeOK
  <2>3. /\ scan' \in Scanning /\ scan'.gen <= scan.gen /\ scan'.cfg = 0
        /\ \/ UNCHANGED notice
           \/ notice' = [notice EXCEPT !.cleared = scan.gen] /\ scan'.gen = 0
    <3>1. scan.gen \in Nat
      BY DEF TypeInv, TypeOK, Scanning
    <3>2. QED
      <4>1. CASE Rejects(Judged(Consumed(loc, marked)), IF Credit(marked) THEN "like" ELSE label)
        <5>1. scan' = [Idle EXCEPT !.pc = "submit", !.gen = scan.gen, !.unsure = scan.unsure]
              /\ UNCHANGED notice
          BY <1>2, <4>1 DEF Conclude
        <5>2. scan' \in Scanning /\ scan'.gen = scan.gen /\ scan'.cfg = 0
          BY <5>1, ScansAre
        <5>3. QED
          BY <3>1, <5>1, <5>2
      <4>2. CASE ~Rejects(Judged(Consumed(loc, marked)), IF Credit(marked) THEN "like" ELSE label)
        <5>1. /\ scan' = Idle
              /\ notice' = IF scan.unsure THEN [notice EXCEPT !.cleared = scan.gen] ELSE notice
          BY <1>2, <4>2 DEF Conclude
        <5>2. QED
          BY <3>1, <5>1, IdleIs
      <4>3. QED
        BY <4>1, <4>2
  <2>4. notice' \in Notices /\ notice'.cleared <= notice'.gen /\ notice'.gen = notice.gen
    BY <2>3 DEF TypeInv, TypeOK, Counters, Notices, Scanning
  <2>5. credited' \in BOOLEAN /\ (credited' => op.ev > 0)
    <3>1. marked \in Nat /\ op.ev \in Nat
      BY DEF TypeInv, TypeOK, Operation
    <3>2. credited' = (credited \/ Credit(marked))
      BY <1>2 DEF Conclude
    <3>3. Credit(marked) => op.ev > 0
      BY <3>1 DEF Credit
    <3>4. QED
      BY <3>2, <3>3 DEF TypeInv, TypeOK
  <2>6. /\ marked' = op.ev /\ arrived' = {}
        /\ UNCHANGED <<obs, active, file, config, op, people, spent>>
    BY <1>2 DEF Conclude
  <2>7. QED
    <3>1. op.ev \in 0 .. 3 /\ op.ev <= op.ev
      BY DEF TypeInv, TypeOK, Operation
    <3>2. scan'.gen <= notice'.gen
      BY <2>3, <2>4 DEF TypeInv, TypeOK, Counters, Scanning, Notices
    <3>3. Counters'
      BY <2>3, <2>4, <2>6, <3>2 DEF TypeInv, TypeOK, Counters
    <3>4. shown' \in BOOLEAN
      BY <1>2, ShowsIs DEF Conclude
    <3>5. QED
      BY <2>1, <2>2, <2>3, <2>4, <2>5, <2>6, <3>1, <3>3, <3>4 DEF TypeInv, TypeOK, people
<1>3. QED
  BY <1>1, <1>2

LEMMA CrashType == ASSUME TypeInv, Crash PROVE TypeInv'
<1>1. /\ spent' \in [acts : 0 .. MaxActs, faults : 0 .. MaxFaults, flips : 0 .. MaxFlips]
      /\ spent'.flips = spent.flips /\ spent'.faults \in Nat
  BY Bounds DEF Crash, TypeInv, TypeOK
<1>2. notice' = [gen |-> 0, cleared |-> 0] /\ notice' \in Notices
  BY TrackingAssumption DEF Crash, Notices
<1>3. journal' \subseteq Nat
  <2>1. rev \in Nat /\ journal \subseteq Nat
    BY DEF TypeInv, TypeOK
  <2>2. \/ journal' = journal \/ journal' = journal \cup {rev + 1} \/ journal' = journal \cup {rev}
    BY DEF Crash
  <2>3. rev + 1 \in Nat
    BY <2>1
  <2>4. QED
    BY <2>1, <2>2, <2>3, Zenon
<1>4. scan' = Idle /\ UNCHANGED <<file, rows, config, op, people>>
  BY DEF Crash
<1>5. QED
  BY <1>1, <1>2, <1>3, <1>4, IdleIs DEF TypeInv, TypeOK, Counters, rows, people

LEMMA CompressType == ASSUME TypeInv, Compress PROVE TypeInv'
<1>0. From \in Places /\ To \in Places /\ 0 \in Files /\ Output \in Files
  BY TrackingAssumption DEF Files, Output
<1>1. /\ file' \in [Places -> Files] /\ op' \in Operation
      /\ op'.ev >= op.ev
  <2>0. /\ op \in Operation /\ op.ev \in 0 .. 3 /\ file \in [Places -> Files] /\ 0 \in 0 .. Late
        /\ file[From] \in Files /\ op.src \in Files /\ op.cut \in BOOLEAN /\ 2 \in 0 .. 3 /\ 3 \in 0 .. 3
    BY <1>0, Bounds DEF TypeInv, TypeOK, Operation
  <2>1. CASE Planned
    BY <1>0, <2>0, <2>1 DEF Planned, Operation
  <2>2. CASE Publish
    <3>1. [op EXCEPT !.ev = 2, !.age = 0] \in Operation /\ [op EXCEPT !.ev = 2, !.age = 0].ev = 2
      BY <2>0 DEF Operation
    <3>2. QED
      BY <1>0, <2>0, <2>2, <3>1 DEF Publish
  <2>3. CASE Unlink
    <3>1. [op EXCEPT !.cut = TRUE] \in Operation /\ [op EXCEPT !.cut = TRUE].ev = op.ev
      BY <2>0 DEF Operation
    <3>2. QED
      BY <1>0, <2>0, <2>3, <3>1 DEF Unlink
  <2>4. CASE Clean
    <3>1. [op EXCEPT !.ev = 3, !.age = 0] \in Operation /\ [op EXCEPT !.ev = 3, !.age = 0].ev = 3
      BY <2>0 DEF Operation
    <3>2. QED
      BY <1>0, <2>0, <2>4, <3>1 DEF Clean
  <2>5. QED
    BY <2>1, <2>2, <2>3, <2>4 DEF Compress
<1>2. hurried' \in BOOLEAN /\ UNCHANGED <<rows, journal, config, notice, scan, took, last, spent>>
  BY DEF Compress, TypeInv, TypeOK
<1>3. QED
  BY <1>1, <1>2 DEF TypeInv, TypeOK, Counters, rows, Operation

LEMMA OlderIs == ASSUME NEW limit \in Nat, NEW n \in 0 .. limit PROVE Older(n, limit) \in 0 .. limit
BY DEF Older

LEMMA TickType == ASSUME TypeInv, Tick PROVE TypeInv'
<1>1. obs' \in [Places -> Observation]
  <2>1. ASSUME NEW p \in Places
        PROVE  obs[p] \in Observation /\ [obs[p] EXCEPT !.age = Older(@, Stable)] \in Observation
    <3>1. obs[p] \in Observation /\ obs[p].age \in 0 .. Stable
      BY DEF TypeInv, TypeOK, Observation
    <3>2. Older(obs[p].age, Stable) \in 0 .. Stable
      BY <3>1, OlderIs, Bounds
    <3>3. QED
      BY <3>1, <3>2 DEF Observation
  <2>2. QED
    BY <2>1 DEF Tick
<1>2. loc' \in [Places -> Location]
  <2>1. ASSUME NEW p \in Places
        PROVE  loc[p] \in Location /\ [loc[p] EXCEPT !.age = Older(@, Missing)] \in Location
    <3>1. loc[p] \in Location /\ loc[p].age \in 0 .. Missing
      BY DEF TypeInv, TypeOK, Location
    <3>2. Older(loc[p].age, Missing) \in 0 .. Missing
      BY <3>1, OlderIs, Bounds
    <3>3. QED
      BY <3>1, <3>2 DEF Location
  <2>2. QED
    BY <2>1 DEF Tick
<1>3. op' \in Operation /\ op'.ev = op.ev
  <2>1. op \in Operation /\ op.age \in 0 .. Late
    BY DEF TypeInv, TypeOK, Operation
  <2>2. Older(op.age, Late) \in 0 .. Late
    BY <2>1, OlderIs, Bounds
  <2>3. QED
    BY <2>1, <2>2 DEF Tick, Operation
<1>4. UNCHANGED <<file, label, rev, active, marked, arrived, credited, shown, journal, config, notice, scan, people, spent>>
  BY DEF Tick
<1>5. QED
  BY <1>1, <1>2, <1>3, <1>4 DEF TypeInv, TypeOK, Counters, people

LEMMA ActIs ==
    ASSUME TypeInv, NEW what \in {"none", "arrived", "removed"}, Act(what)
    PROVE  /\ spent.acts + 2 \in Files
           /\ last' \in {"none", "arrived", "removed"}
           /\ spent' \in [acts : 0 .. MaxActs, faults : 0 .. MaxFaults, flips : 0 .. MaxFlips]
           /\ spent'.faults = spent.faults /\ spent'.flips = spent.flips
           /\ UNCHANGED <<obs, loc, active, marked, arrived, credited, shown, config, op, notice, scan>>
<1>1. spent \in [acts : 0 .. MaxActs, faults : 0 .. MaxFaults, flips : 0 .. MaxFlips]
      /\ spent.acts \in 0 .. MaxActs /\ spent.acts < MaxActs
  BY DEF Act, TypeInv, TypeOK
<1>2. spent.acts + 2 \in Files /\ spent.acts + 1 \in 0 .. MaxActs
  BY <1>1, Bounds DEF Files, Output
<1>3. spent' = [spent EXCEPT !.acts = spent.acts + 1]
  BY DEF Act
<1>4. QED
  BY <1>1, <1>2, <1>3 DEF Act, TypeInv, TypeOK

LEMMA PersonType == ASSUME TypeInv, Person PROVE TypeInv'
<1>1. PICK what \in {"none", "arrived", "removed"} : Act(what)
  BY DEF Person, Put, Take, Rename, Tell
<1>2. /\ file' \in [Places -> Files] /\ took' \in BOOLEAN /\ hurried' \in BOOLEAN
      /\ label' \in {"none", "like", "dislike"} /\ rev' \in Nat /\ UNCHANGED journal
  <2>0. 0 \in Files
    BY TrackingAssumption DEF Files, Output
  <2>1. CASE \E p \in Places : Put(p)
    BY <1>1, <2>1, ActIs DEF Put, TypeInv, TypeOK
  <2>2. CASE \E p \in Places : Take(p)
    BY <2>0, <2>2 DEF Take, TypeInv, TypeOK
  <2>3. CASE \E p, q \in Places : Rename(p, q)
    BY <2>0, <2>3 DEF Rename, TypeInv, TypeOK
  <2>4. CASE \E v \in {"like", "dislike"} : Tell(v)
    BY <2>4, SaysIs DEF Tell, TypeInv, TypeOK
  <2>5. QED
    BY <2>1, <2>2, <2>3, <2>4 DEF Person
<1>3. QED
  BY <1>1, <1>2, ActIs DEF TypeInv, TypeOK, Counters

LEMMA OutsideType == ASSUME TypeInv, Reconfigure \/ Overflow \/ UNCHANGED vars PROVE TypeInv'
<1>1. CASE Reconfigure
  <2>1. /\ spent' = [spent EXCEPT !.flips = spent.flips + 1]
        /\ config' = config + 1 /\ spent.flips < MaxFlips
        /\ UNCHANGED <<file, rows, journal, op, notice, scan, took>>
        /\ hurried' \in BOOLEAN /\ last' = "none"
    BY <1>1 DEF Reconfigure, TypeInv, TypeOK
  <2>2. /\ spent' \in [acts : 0 .. MaxActs, faults : 0 .. MaxFaults, flips : 0 .. MaxFlips]
        /\ spent'.faults = spent.faults /\ spent'.flips = spent.flips + 1
    BY <2>1, Bounds DEF TypeInv, TypeOK
  <2>3. config' \in 0 .. MaxFlips /\ active <= config' /\ scan.cfg <= config' /\ config' = spent'.flips
    BY <2>1, <2>2, Bounds DEF TypeInv, TypeOK, Counters, Scanning
  <2>4. QED
    BY <2>1, <2>2, <2>3 DEF TypeInv, TypeOK, Counters, rows
<1>2. CASE Overflow
  <2>1. /\ spent' = [spent EXCEPT !.faults = spent.faults + 1] /\ spent.faults < MaxFaults
        /\ notice' = [notice EXCEPT !.gen = notice.gen + 1]
        /\ UNCHANGED <<file, rows, journal, config, op, scan, took, hurried>> /\ last' = "none"
    BY <1>2 DEF Overflow
  <2>2. /\ spent' \in [acts : 0 .. MaxActs, faults : 0 .. MaxFaults, flips : 0 .. MaxFlips]
        /\ spent'.faults = spent.faults + 1 /\ spent'.flips = spent.flips
    BY <2>1, Bounds DEF TypeInv, TypeOK
  <2>3. /\ notice' \in Notices /\ notice'.cleared <= notice'.gen /\ scan.gen <= notice'.gen
        /\ notice'.gen <= spent'.faults
    BY <2>1, <2>2, Bounds DEF TypeInv, TypeOK, Counters, Scanning, Notices
  <2>4. QED
    BY <2>1, <2>2, <2>3 DEF TypeInv, TypeOK, Counters, rows
<1>3. CASE UNCHANGED vars
  BY <1>3 DEF vars, TypeInv, TypeOK, Counters, rows, people
<1>4. QED
  BY <1>1, <1>2, <1>3

LEMMA TypeStep == TypeInv /\ [Next]_vars => TypeInv'
BY BeginType, OpenType, FileType, EndsType, ConcludeType, CrashType, CompressType, TickType,
   PersonType, OutsideType DEF Next

(***************************************************************************)
(* Every variable keeps its type, and the counters the order of what they  *)
(* count: in particular a scan never runs under a configuration from the   *)
(* future, and never clears a notification it has not seen.                *)
(***************************************************************************)
THEOREM TypeCorrect == Spec => []TypeOK
<1>1. TypeInv => TypeOK
  BY DEF TypeInv
<1>2. QED
  BY <1>1, TypeStart, TypeStep, PTL DEF Spec

(***************************************************************************)
(* A published output that the watermark has passed is known.  Rows are    *)
(* never taken out, and the only step that moves the watermark has         *)
(* consumed every event up to the one it moves to.                         *)
(***************************************************************************)
LEMMA RowsStay ==
    ASSUME TypeInv, [Next]_vars
    PROVE  KeepsRows(loc, loc')
<1>t. loc \in Locations
  BY DEF TypeInv, TypeOK, Locations
<1>1. CASE UNCHANGED loc
  BY <1>t, <1>1 DEF KeepsRows
<1>2. CASE Open
  <2> DEFINE inside == [p \in Places |-> IF active # scan.cfg /\ p \notin Roots[scan.cfg] /\ loc[p].st \in Current
                                         THEN Row("retired", loc[p].file, 0) ELSE loc[p]]
             after == IF active # scan.cfg THEN 0 ELSE marked
  <2>1. KeepsRows(loc, inside)
    <3>1. ASSUME NEW p \in Places
          PROVE  Row("retired", loc[p].file, 0) \in Location /\ Row("retired", loc[p].file, 0).st = "retired"
      BY <1>t, RowIs DEF Locations, Location
    <3>2. QED
      BY <1>t, <3>1 DEF KeepsRows, Locations
  <2>2. KeepsRows(inside, Consumed(inside, after))
    BY <2>1, ConsumedKeeps DEF KeepsRows
  <2>3. UNCHANGED loc \/ loc' = Consumed(inside, after)
    BY <1>2 DEF Open, Abandon, rows
  <2>4. QED
    BY <1>1, <2>1, <2>2, <2>3 DEF KeepsRows
<1>3. ASSUME NEW q \in Places, File(q)
      PROVE  KeepsRows(loc, loc')
  <2>1. /\ Row("present", scan.list[q], 0) \in Location
        /\ Row("present", scan.list[q], 0).st = "present"
    BY RowIs DEF TypeInv, TypeOK, Scanning, Current
  <2>2. QED
    BY <1>t, <1>3, <2>1 DEF File, Locations, KeepsRows
<1>4. CASE Conclude
  <2>1. UNCHANGED loc \/ loc' = Settled(Judged(Consumed(loc, marked)))
    BY <1>4 DEF Conclude, Abandon, rows
  <2>2. QED
    BY <1>1, <2>1, ConcludedKeeps DEF TypeInv
<1>5. CASE Tick
  <2>1. loc' \in Locations
    BY <1>5, TypeStep DEF Next, TypeInv, TypeOK, Locations
  <2>2. \A p \in Places : loc[p].st = "missing" =>
          [loc[p] EXCEPT !.age = Older(@, Missing)].st = loc[p].st
    BY <1>t DEF Locations, Location
  <2>3. QED
    BY <1>5, <2>1, <2>2 DEF Tick, KeepsRows
<1>6. CASE Begin \/ Unreadable \/ Incomplete \/ Submit \/ Crash \/ Compress \/ Person
           \/ Reconfigure \/ Overflow \/ UNCHANGED vars
  BY <1>1, <1>6 DEF Begin, Unreadable, Incomplete, Submit, Abandon, Crash, Compress, Person, Put,
     Take, Rename, Tell, Act, Reconfigure, Overflow, vars, rows
<1>7. QED
  BY <1>2, <1>3, <1>4, <1>5, <1>6 DEF Next

(* What was shown was a row of its own.                                    *)
ShownHasRow ==
    /\ \A p \in Places : loc[p].st = "none" => loc[p].file = 0
    /\ shown => loc[To].st # "none"

LEMMA ShownStart == Init => ShownHasRow
BY Bounds DEF Init, ShownHasRow, Row

LEMMA ShownStep == TypeInv /\ ShownHasRow /\ [Next]_vars => ShownHasRow'
<1> SUFFICES ASSUME TypeInv, ShownHasRow, [Next]_vars PROVE ShownHasRow'
  OBVIOUS
<1>1. KeepsRows(loc, loc')
  BY RowsStay
<1>2. \A p \in Places : loc'[p].st = "none" => loc'[p].file = 0
  BY <1>1 DEF KeepsRows, ShownHasRow
<1>3. shown' = shown \/ shown' = Shows(loc')
  BY DEF Next, Begin, Unreadable, Open, File, Conclude, Incomplete, Submit, Abandon, Crash, Compress,
     Tick, Person, Put, Take, Rename, Tell, Act, Reconfigure, Overflow, vars, rows
<1>4. Output # 0
  BY Bounds DEF Output
<1>5. shown' => loc'[To].st # "none"
  BY <1>1, <1>2, <1>3, <1>4, Bounds DEF KeepsRows, ShownHasRow, Shows
<1>6. QED
  BY <1>2, <1>5 DEF ShownHasRow

(* A published output the watermark has passed has, or had, a row: scans   *)
(* consume lineage before they move the watermark, and no step takes the   *)
(* row away again (reconcile and consume_lineage of tracking.py).          *)
THEOREM PublicationsAreKnown == Spec => []PublishedIsKnown
<1>1. Init => PublishedIsKnown
  BY DEF Init, PublishedIsKnown
<1>2. TypeInv /\ ShownHasRow /\ PublishedIsKnown /\ [Next]_vars => PublishedIsKnown'
  <2> SUFFICES ASSUME TypeInv, ShownHasRow, PublishedIsKnown, [Next]_vars, marked' >= 2 PROVE loc'[To].st # "none"
    BY DEF PublishedIsKnown
  <2>1. CASE UNCHANGED marked
    BY <2>1, RowsStay, Bounds DEF PublishedIsKnown, KeepsRows
  <2>2. CASE Conclude /\ config = scan.cfg
    <3>1. marked' = op.ev /\ loc' = Settled(Judged(Consumed(loc, marked)))
      BY <2>2 DEF Conclude
    <3>2. CASE op.ev > marked
      BY <3>1, <3>2, ConcludedKeeps, Bounds DEF TypeInv, KeepsRows, ShownHasRow
    <3>3. CASE ~(op.ev > marked)
      <4>1. marked' = marked
        BY <3>1, <3>3 DEF TypeInv, TypeOK, Operation
      <4>2. QED
        BY <2>1, <4>1
    <3>4. QED
      BY <3>2, <3>3
  <2>3. UNCHANGED marked \/ (Conclude /\ config = scan.cfg)
    BY DEF Next, Begin, Unreadable, Open, File, Conclude, Incomplete, Submit, Abandon, Crash, Compress,
       Tick, Person, Put, Take, Rename, Tell, Act, Reconfigure, Overflow, vars, rows
  <2>4. QED
    BY <2>1, <2>2, <2>3
<1>3. QED
  BY <1>1, <1>2, TypeStart, TypeStep, ShownStart, ShownStep, PTL DEF Spec

(***************************************************************************)
(* Settled moves are kept.  The invariant says of every row whose file has *)
(* left its place, while nobody took or hurried anything, where the file   *)
(* has gone and that a scan hears of its arrival before the row can be     *)
(* judged deleted.  It is lost when a file moves on, is compressed or sees *)
(* its directories change before that, which is all in hurried, and rests  *)
(* on the scan that registers a file no later than it judges the rows of   *)
(* its asset.                                                              *)
(***************************************************************************)
Followed == {"present", "missing"}
Running == scan.pc \in {"open", "files"} /\ scan.cfg = config

(* The compressor removed the source, and no complete scan knows yet.      *)
Cut(p) == p = From /\ op.cut /\ marked < 3

Gone(p) == p \in Roots[config] /\ loc[p].st \in Followed /\ file[p] = 0 /\ ~Cut(p)

(* A file that a scan will take for an arrival, and one that it has.       *)
Pending(q, f) ==
    /\ q \in Roots[config] /\ file[q] = f
    /\ loc[q].st \notin Current \/ Version(loc[q].file) # Version(f)

Came(q, f) ==
    /\ q \in Roots[config] /\ file[q] = f
    /\ q \in arrived /\ loc[q].st = "present" /\ loc[q].file = f
    /\ active = config

(* It is stable by the time the row has been missing for long enough.      *)
Timely(p, q) ==
    /\ obs[q].seen = loc[p].file
    /\ loc[p].age <= obs[q].age \/ obs[q].age = Stable

(* A running scan that did not list the row's file listed it where it is.  *)
Listed(p, q, f) ==
    Running => IF scan.list[p] = 0 THEN scan.list[q] = f ELSE scan.list[p] = f /\ Pending(q, f)

Found(p, q) ==
    /\ Pending(q, loc[p].file) \/ Came(q, loc[p].file)
    /\ loc[p].st = "missing" /\ Pending(q, loc[p].file) => Timely(p, q)
    /\ Listed(p, q, loc[p].file)

GoneAreFound == \A p \in Places : Gone(p) => \E q \in Places : Found(p, q)

(* A missing row that is gone was so before the running scan listed.       *)
MissingAreKnown ==
    /\ \A p \in Places : Gone(p) /\ loc[p].st = "missing" =>
          /\ active = config
          /\ scan.pc \in {"open", "files"} => scan.cfg = config /\ scan.list[p] = 0
    /\ \A p \in Places : loc[p].st = "missing" /\ active = config => p \in Roots[config]

(* The output was moved before any scan heard of it: the scan that consumes*)
(* its publication has listed it where it is now.                          *)
Unheard == op.ev >= 2 /\ ~shown /\ file[To] # Output

UnheardIsFound ==
    Unheard =>
      /\ loc[To].st \notin Current /\ marked < 2 /\ scan.pc # "files"
      /\ \E q \in Places :
            /\ Pending(q, Output)
            /\ file[To] = 0 => Listed(To, q, Output)

(* What a scan has gone through is observed, and registered when stable.   *)
SeenAreRegistered ==
    scan.pc = "files" /\ scan.whole =>
      \A q \in Places : scan.list[q] # 0 /\ q \notin scan.todo =>
          /\ obs[q].seen = scan.list[q]
          /\ obs[q].age = Stable => loc[q].st = "present" /\ loc[q].file = scan.list[q]

(* Files have one place, and new ones new numbers.                         *)
Distinct(g) == \A p, q \in Places : g[p] # 0 /\ g[p] = g[q] => p = q

FilesAreDistinct ==
    /\ Distinct(file) /\ Distinct(scan.list)
    /\ \A p \in Places : file[p] = Output \/ file[p] <= spent.acts + 1

RowsAreTrue ==
    \A p \in Places : /\ loc[p].st \in Current => loc[p].file # 0
                      /\ loc[p].st = "present" => loc[p].age = 0

OutputIsNew ==
    /\ ~shown => \A p \in Places : loc[p].file # Output
    /\ op.ev < 2 => \A p \in Places : file[p] # Output /\ scan.list[p] # Output
    /\ op.src # Output
    /\ marked < 3 => file[From] # Output /\ scan.list[From] # Output /\ loc[From].file # Output
    /\ scan.pc = "files" /\ scan.list[To] = Output /\ ~shown => loc[To].st \in Current \/ marked >= 2

SourceIsIts ==
    /\ op.cut => op.ev >= 2
    /\ op.cut /\ marked < 3 => file[From] = 0

(* The file that the compressor will remove is no row's that went astray.  *)
SourceIsAlone ==
    op.ev \in {1, 2} /\ ~op.cut /\ op.src # 0 /\ file[From] = op.src =>
       \A p \in Places \ {From} : loc[p].st \in Followed /\ file[p] = 0 => loc[p].file # op.src

ScansAreCurrent ==
    /\ scan.pc = "files" => active = scan.cfg /\ \A p \in scan.todo : scan.list[p] # 0
    /\ scan.pc \notin {"open", "files"} => \A p \in Places : scan.list[p] = 0

Untaken ==
    /\ FilesAreDistinct /\ RowsAreTrue /\ OutputIsNew /\ SourceIsIts /\ SourceIsAlone
    /\ ScansAreCurrent /\ SeenAreRegistered
    /\ GoneAreFound /\ MissingAreKnown /\ UnheardIsFound

MovesInv == took \/ hurried \/ Untaken

(***************************************************************************)
(* What a scan makes of one row.                                           *)
(***************************************************************************)
LEMMA VersionIs == \A f \in Files : Version(f) = Version(Output) <=> f = Output
BY DEF Version

(* Consuming lineage leaves a row, retires one whose file is gone, or gives*)
(* the output its first row.                                               *)
Consumes(l, m) ==
    \A p \in Places :
       \/ m[p] = l[p]
       \/ m[p].st = "retired" /\ m[p].file = l[p].file /\ file[p] = 0 /\ p = From
       \/ p = To /\ m[p] = Row("present", Output, 0) /\ op.ev >= 2 /\ ~Known(l)

LEMMA ConsumedRows ==
    ASSUME NEW l \in Locations, NEW after
    PROVE  /\ Consumes(l, Consumed(l, after))
           /\ op.ev > after /\ op.ev >= 2 => Consumed(l, after)[To].st \in Current \/ shown
           /\ op.ev > after /\ op.ev = 3 /\ file[From] = 0 /\ l[From].st \in Current
              /\ l[From].file # Output => Consumed(l, after)[From].st = "retired"
<1> DEFINE m == Cleaned(l)
<1>1. /\ Row("present", Output, 0).st = "present"
      /\ Row("retired", l[From].file, 0).st = "retired"
      /\ Row("retired", l[From].file, 0).file = l[From].file
  BY Bounds, RowIs DEF Locations, Location, Current
<1>2. /\ m = l \/ (m = [l EXCEPT ![From] = Row("retired", l[From].file, 0)] /\ file[From] = 0)
      /\ op.ev = 3 /\ file[From] = 0 /\ l[From].st \in Current /\ l[From].file # Output
         => m = [l EXCEPT ![From] = Row("retired", l[From].file, 0)]
  <2>1. l[From].file # Output => Version(l[From].file) = "video"
    BY DEF Version
  <2>2. CASE op.ev = 3 /\ file[From] = 0 /\ l[From].st \in Current /\ Version(l[From].file) = "video"
    BY <2>2, Zenon DEF Cleaned
  <2>3. CASE ~(op.ev = 3 /\ file[From] = 0 /\ l[From].st \in Current /\ Version(l[From].file) = "video")
    <3>1. m = l
      BY <2>3, Zenon DEF Cleaned
    <3>2. QED
      BY <2>1, <2>3, <3>1
  <2>4. QED
    BY <2>2, <2>3
<1> HIDE DEF m
<1>3. /\ m \in Locations
      /\ \A p \in Places :
            \/ m[p] = l[p]
            \/ m[p].st = "retired" /\ m[p].file = l[p].file /\ file[p] = 0 /\ p = From
      /\ m[To] = l[To]
      /\ op.ev = 3 /\ file[From] = 0 /\ l[From].st \in Current /\ l[From].file # Output
         => m[From].st = "retired"
  <2>1. CASE m = l
    <3>1. op.ev = 3 /\ file[From] = 0 /\ l[From].st \in Current /\ l[From].file # Output
          => m[From] = Row("retired", l[From].file, 0)
      BY <1>2, Bounds DEF Locations
    <3>2. QED
      BY <1>1, <2>1, <3>1
  <2>2. CASE m = [l EXCEPT ![From] = Row("retired", l[From].file, 0)] /\ file[From] = 0
    <3>1. Row("retired", l[From].file, 0) \in Location
      BY Bounds, RowIs DEF Locations, Location
    <3>2. QED
      BY <1>1, <2>2, <3>1, Bounds DEF Locations
  <2>3. QED
    BY <1>2, <2>1, <2>2
<1>4. Known(m) <=> Known(l)
  BY <1>3 DEF Known
<1>5. m \in Locations
  BY <1>3
<1>6. /\ \/ Published(m) = m
         \/ Published(m) = [m EXCEPT ![To] = Row("present", Output, 0)] /\ op.ev >= 2 /\ ~Known(l)
      /\ op.ev >= 2 /\ ~Known(l) => Published(m) = [m EXCEPT ![To] = Row("present", Output, 0)]
  BY <1>4, Zenon DEF Published
<1>7. /\ Consumes(l, Published(m))
      /\ op.ev >= 2 => Published(m)[To].st \in Current \/ shown
      /\ Published(m)[From] = m[From]
  <2>1. CASE Published(m) = m
    BY <1>3, <1>4, <1>6, <1>1, <1>5, <2>1, Bounds DEF Consumes, Known, Locations, Current
  <2>2. CASE Published(m) = [m EXCEPT ![To] = Row("present", Output, 0)] /\ op.ev >= 2 /\ ~Known(l)
    BY <1>1, <1>3, <1>5, <2>2, Bounds DEF Consumes, Locations, Current
  <2>3. QED
    BY <1>6, <2>1, <2>2
<1>8. Consumes(l, l)
  BY DEF Consumes
<1>9. Consumed(l, after) = IF op.ev > after THEN Published(m) ELSE l
  BY DEF Consumed, m
<1>10. QED
  BY <1>3, <1>7, <1>8, <1>9

LEMMA JudgedRows ==
    ASSUME NEW l \in Locations, NEW p \in Places
    PROVE  \/ ~Absent(l, p) /\ Judged(l)[p] = l[p]
           \/ Absent(l, p) /\ Judged(l)[p].st = "retired" /\ Judged(l)[p].file = l[p].file
           \/ /\ Absent(l, p) /\ Judged(l)[p].st = "missing" /\ Judged(l)[p].file = l[p].file
              /\ Judged(l)[p].age = l[p].age /\ Version(l[p].file) \notin Moved(l)
BY DEF Judged, Row

LEMMA SettledRows ==
    ASSUME NEW l \in Locations, NEW p \in Places
    PROVE  \/ Settled(l)[p] = l[p]
           \/ /\ l[p].st = "missing" /\ Settled(l)[p].st \in {"conflict", "retired"}
              /\ Settled(l)[p].file = l[p].file
BY DEF Settled, Lost, Mature, Row

LEMMA ConcludedRows ==
    ASSUME NEW l \in Locations, NEW p \in Places, NEW n, n = Settled(Judged(l))
    PROVE  /\ n[p].file = l[p].file
           /\ n[p].st \in Current => l[p].st \in Current
           /\ n[p].st = "present" => n[p] = l[p] /\ ~Absent(l, p)
           /\ n[p].st = "missing" =>
                \/ ~Absent(l, p) /\ n[p] = l[p]
                \/ Absent(l, p) /\ n[p].age = l[p].age /\ Version(l[p].file) \notin Moved(l)
<1>1. Judged(l) \in Locations
  BY JudgedKeeps DEF KeepsRows
<1> DEFINE j == Judged(l)
<1>2. \/ n[p] = j[p]
      \/ j[p].st = "missing" /\ n[p].st \in {"conflict", "retired"} /\ n[p].file = j[p].file
  BY <1>1, SettledRows
<1>3. \/ ~Absent(l, p) /\ j[p] = l[p]
      \/ Absent(l, p) /\ j[p].st = "retired" /\ j[p].file = l[p].file
      \/ /\ Absent(l, p) /\ j[p].st = "missing" /\ j[p].file = l[p].file
         /\ j[p].age = l[p].age /\ Version(l[p].file) \notin Moved(l)
  BY JudgedRows
<1>4. Absent(l, p) => l[p].st \in Current
  BY DEF Absent, Current
<1> HIDE DEF j
<1>5. QED
  BY <1>2, <1>3, <1>4 DEF Current

(***************************************************************************)
(* The steps.  Nothing is to be shown of those that take.                  *)
(***************************************************************************)
LEMMA Numbers ==
    ASSUME TypeInv
    PROVE  /\ \A p \in Places : file[p] \in Nat /\ loc[p].file \in Nat /\ scan.list[p] \in Nat
           /\ \A p \in Places : loc[p].age \in 0 .. Missing /\ obs[p].age \in 0 .. Stable
           /\ spent.acts \in Nat /\ op.ev \in 0 .. 3 /\ op.src \in Nat /\ marked \in Nat
           /\ marked <= op.ev /\ active <= config /\ scan.cfg <= config
           /\ active \in Nat /\ config \in Nat /\ scan.cfg \in Nat
<1>1. /\ file \in [Places -> Files] /\ loc \in [Places -> Location] /\ obs \in [Places -> Observation]
      /\ scan \in Scanning /\ op \in Operation
      /\ spent \in [acts : 0 .. MaxActs, faults : 0 .. MaxFaults, flips : 0 .. MaxFlips]
      /\ marked \in 0 .. 3 /\ marked <= op.ev /\ active <= config /\ scan.cfg <= config
      /\ active \in 0 .. MaxFlips /\ config \in 0 .. MaxFlips
  BY DEF TypeInv, TypeOK, Counters
<1>2. ASSUME NEW p \in Places
      PROVE  /\ file[p] \in Nat /\ loc[p].file \in Nat /\ scan.list[p] \in Nat
             /\ loc[p].age \in 0 .. Missing /\ obs[p].age \in 0 .. Stable
  <2>1. /\ file[p] \in Files /\ loc[p] \in Location /\ obs[p] \in Observation
        /\ scan.list \in [Places -> Files]
    BY <1>1 DEF Scanning
  <2>2. QED
    BY <2>1, Bounds DEF Location, Observation
<1>3. op.ev \in 0 .. 3 /\ op.src \in Nat /\ scan.cfg \in 0 .. MaxFlips
  BY <1>1, Bounds DEF Scanning, Operation
<1>4. spent.acts \in Nat /\ active \in Nat /\ config \in Nat /\ scan.cfg \in Nat
  BY <1>1, <1>3, Bounds
<1>5. QED
  BY <1>1, <1>2, <1>3, <1>4

LEMMA MovesStart == Init => MovesInv
<1> SUFFICES ASSUME Init PROVE Untaken
  BY DEF MovesInv
<1>1. PICK p \in Roots[0] \ {To} :
        /\ file = [q \in Places |-> IF q = p THEN 1 ELSE 0]
        /\ loc = [q \in Places |-> IF q = p THEN Row("present", 1, 0) ELSE Row("none", 0, 0)]
  BY DEF Init
<1>2. /\ marked = 0 /\ shown = FALSE /\ op.ev = 0 /\ op.src = 0 /\ op.cut = FALSE
      /\ scan = Idle /\ scan.pc = "idle" /\ \A q \in Places : scan.list[q] = 0
      /\ spent.acts = 0
  BY DEF Init, Idle
<1>3. \A q \in Places :
        /\ file[q] = IF q = p THEN 1 ELSE 0
        /\ loc[q].file = file[q] /\ loc[q].age = 0
        /\ loc[q].st = IF q = p THEN "present" ELSE "none"
  BY <1>1 DEF Row
<1>4. Output \in Nat /\ Output >= 2 /\ From \in Places /\ To \in Places
  BY Bounds DEF Output
<1>5. FilesAreDistinct
  BY <1>2, <1>3, <1>4 DEF FilesAreDistinct, Distinct
<1>6. RowsAreTrue
  BY <1>3 DEF RowsAreTrue, Current
<1>7. OutputIsNew /\ SourceIsIts
  BY <1>2, <1>3, <1>4 DEF OutputIsNew, SourceIsIts
<1>8. SourceIsAlone /\ ScansAreCurrent /\ SeenAreRegistered /\ UnheardIsFound
  BY <1>2 DEF SourceIsAlone, ScansAreCurrent, SeenAreRegistered, UnheardIsFound, Unheard
<1>9. GoneAreFound /\ MissingAreKnown
  BY <1>3 DEF GoneAreFound, MissingAreKnown, Gone, Followed
<1>10. QED
  BY <1>5, <1>6, <1>7, <1>8, <1>9 DEF Untaken

(* A scan that ends or goes on without a change leaves all as it was.      *)
LEMMA MovesRest ==
    ASSUME TypeInv, Untaken,
           UNCHANGED <<file, obs, loc, active, marked, arrived, shown, config, op>>,
           scan' = scan \/ (scan'.pc \notin {"open", "files"} /\ \A p \in Places : scan'.list[p] = 0),
           spent'.acts \in Nat, spent'.acts >= spent.acts
    PROVE  Untaken'
<1>1. CASE scan' = scan
  <2>1. \A p \in Places : file[p] <= spent.acts + 1 => file[p] <= spent'.acts + 1
    BY Numbers
  <2>2. FilesAreDistinct'
    BY <1>1, <2>1 DEF Untaken, FilesAreDistinct, Distinct
  <2>3. /\ RowsAreTrue' /\ OutputIsNew' /\ SourceIsIts' /\ SourceIsAlone'
        /\ ScansAreCurrent' /\ SeenAreRegistered'
    BY <1>1 DEF Untaken, RowsAreTrue, OutputIsNew, SourceIsIts, SourceIsAlone, ScansAreCurrent, SeenAreRegistered
  <2>4. GoneAreFound' /\ MissingAreKnown' /\ UnheardIsFound'
    BY <1>1 DEF Untaken, GoneAreFound, MissingAreKnown, UnheardIsFound, Gone, Cut, Found, Pending, Came,
       Timely, Listed, Running, Unheard
  <2>5. QED
    BY <2>2, <2>3, <2>4 DEF Untaken
<1>2. CASE scan'.pc \notin {"open", "files"} /\ \A p \in Places : scan'.list[p] = 0
  <2>1. \A p \in Places : file[p] <= spent.acts + 1 => file[p] <= spent'.acts + 1
    BY Numbers
  <2>2. FilesAreDistinct'
    BY <1>2, <2>1 DEF Untaken, FilesAreDistinct, Distinct
  <2>3. Output # 0 /\ From \in Places
    BY Bounds DEF Output
  <2>4. OutputIsNew'
    BY <1>2, <2>3 DEF Untaken, OutputIsNew
  <2>5. RowsAreTrue' /\ SourceIsIts' /\ SourceIsAlone' /\ ScansAreCurrent' /\ SeenAreRegistered'
    BY <1>2 DEF Untaken, RowsAreTrue, SourceIsIts, SourceIsAlone, ScansAreCurrent, SeenAreRegistered
  <2>6. ASSUME NEW p \in Places, Gone(p)' PROVE \E q \in Places : Found(p, q)'
    <3>1. PICK q \in Places : Found(p, q)
      BY <2>6 DEF Untaken, GoneAreFound, Gone, Cut
    <3>2. Found(p, q)'
      BY <1>2, <3>1 DEF Found, Pending, Came, Timely, Listed, Running
    <3>3. QED
      BY <3>2
  <2>7. GoneAreFound'
    BY <2>6 DEF GoneAreFound
  <2>8. MissingAreKnown'
    BY <1>2 DEF Untaken, MissingAreKnown, Gone, Cut
  <2>9. UnheardIsFound'
    <3>1. Unheard' => Unheard
      BY DEF Unheard
    <3>2. QED
      BY <1>2, <3>1 DEF Untaken, UnheardIsFound, Listed, Running, Pending
  <2>10. QED
    BY <2>2, <2>4, <2>5, <2>7, <2>8, <2>9 DEF Untaken
<1>3. QED
  BY <1>1, <1>2

(* What begins a scan lists every file where it is.                        *)
LEMMA MovesBegin == ASSUME TypeInv, Untaken, Begin PROVE Untaken'
<1>1. /\ UNCHANGED <<file, obs, loc, active, marked, arrived, shown, config, op, spent>>
      /\ scan.pc = "idle" /\ scan'.pc = "open" /\ scan'.cfg = config
      /\ \A p \in Places : scan'.list[p] = IF p \in Roots[config] THEN file[p] ELSE 0
  BY DEF Begin, Idle
<1>2. Output # 0 /\ From \in Places /\ To \in Places
  BY Bounds DEF Output
<1>3. FilesAreDistinct'
  BY <1>1 DEF Untaken, FilesAreDistinct, Distinct
<1>4. OutputIsNew'
  BY <1>1, <1>2 DEF Untaken, OutputIsNew
<1>5. RowsAreTrue' /\ SourceIsIts' /\ SourceIsAlone' /\ ScansAreCurrent' /\ SeenAreRegistered'
  BY <1>1 DEF Untaken, RowsAreTrue, SourceIsIts, SourceIsAlone, ScansAreCurrent, SeenAreRegistered
<1>6. ASSUME NEW p \in Places, Gone(p)' PROVE \E q \in Places : Found(p, q)'
  <2>1. PICK q \in Places : Found(p, q)
    BY <1>1, <1>6 DEF Untaken, GoneAreFound, Gone, Cut
  <2>2. scan'.list[p] = 0 /\ scan'.list[q] = loc[p].file
    BY <1>1, <1>6, <2>1 DEF Gone, Found, Pending, Came
  <2>3. Found(p, q)'
    BY <1>1, <2>1, <2>2 DEF Found, Pending, Came, Timely, Listed, Running
  <2>4. QED
    BY <2>3
<1>7. MissingAreKnown'
  BY <1>1 DEF Untaken, MissingAreKnown, Gone, Cut
<1>8. UnheardIsFound'
  <2>1. SUFFICES ASSUME Unheard'
                 PROVE  UnheardIsFound'
    BY DEF UnheardIsFound
  <2>2. PICK q \in Places : Pending(q, Output)
    BY <1>1, <2>1 DEF Untaken, UnheardIsFound, Unheard
  <2>3. file[To] = 0 => scan'.list[To] = 0 /\ scan'.list[q] = Output
    BY <1>1, <1>2, <2>2 DEF Pending
  <2>4. Pending(q, Output)' /\ (file'[To] = 0 => Listed(To, q, Output)')
    BY <1>1, <2>2, <2>3 DEF Pending, Listed, Running
  <2>5. loc'[To].st \notin Current /\ marked' < 2 /\ scan'.pc # "files"
    BY <1>1, <2>1 DEF Untaken, UnheardIsFound, Unheard
  <2>6. QED
    BY <2>4, <2>5 DEF UnheardIsFound
<1>9. GoneAreFound'
  BY <1>6 DEF GoneAreFound
<1>10. QED
  BY <1>3, <1>4, <1>5, <1>7, <1>8, <1>9 DEF Untaken

(* As a row has been missing for longer, the file that was not stable has  *)
(* been seen for longer.                                                   *)
LEMMA MovesTick == ASSUME TypeInv, Untaken, Tick PROVE Untaken'
<1>1. /\ UNCHANGED <<file, active, marked, arrived, shown, config, scan, spent>>
      /\ scan.pc = "idle"
      /\ op'.ev = op.ev /\ op'.src = op.src /\ op'.cut = op.cut
  <2>1. op' = [op EXCEPT !.age = IF op.ev \in {1, 2} THEN Older(@, Late) ELSE @] /\ op \in Operation
    BY DEF Tick, TypeInv, TypeOK
  <2>2. QED
    BY <2>1 DEF Tick, Operation
<1>2. \A p \in Places :
        /\ loc'[p].st = loc[p].st /\ loc'[p].file = loc[p].file
        /\ loc'[p].age = IF loc[p].st = "missing" THEN Older(loc[p].age, Missing) ELSE loc[p].age
  <2>1. ASSUME NEW p \in Places
        PROVE  loc'[p] = IF loc[p].st = "missing"
                         THEN [loc[p] EXCEPT !.age = Older(loc[p].age, Missing)] ELSE loc[p]
    BY DEF Tick
  <2>2. \A p \in Places : loc[p] \in Location
    BY DEF TypeInv, TypeOK
  <2>3. QED
    BY <2>1, <2>2 DEF Location
<1>3. \A p \in Places :
        /\ obs'[p].seen = obs[p].seen
        /\ obs'[p].age = IF obs[p].seen = 0 THEN obs[p].age ELSE Older(obs[p].age, Stable)
  <2>1. ASSUME NEW p \in Places
        PROVE  obs'[p] = IF obs[p].seen = 0 THEN obs[p]
                         ELSE [obs[p] EXCEPT !.age = Older(obs[p].age, Stable)]
    BY DEF Tick
  <2>2. \A p \in Places : obs[p] \in Observation
    BY DEF TypeInv, TypeOK
  <2>3. QED
    BY <2>1, <2>2 DEF Observation
<1>4. To \in Places /\ From \in Places
  BY Bounds
<1>5. FilesAreDistinct' /\ OutputIsNew' /\ SourceIsIts' /\ SourceIsAlone'
  BY <1>1, <1>2, <1>4 DEF Untaken, FilesAreDistinct, Distinct, OutputIsNew, SourceIsIts, SourceIsAlone
<1>6. RowsAreTrue' /\ ScansAreCurrent' /\ SeenAreRegistered'
  BY <1>1, <1>2 DEF Untaken, RowsAreTrue, ScansAreCurrent, SeenAreRegistered
<1>7. ASSUME NEW p \in Places, NEW q \in Places, loc[p].st = "missing", loc[p].file # 0, Timely(p, q)
      PROVE  Timely(p, q)'
  <2>1. loc[p].age \in 0 .. Missing /\ obs[q].age \in 0 .. Stable
    BY DEF TypeInv, TypeOK, Location, Observation
  <2>2. loc'[p].age = Older(loc[p].age, Missing) /\ obs'[q].age = Older(obs[q].age, Stable)
    BY <1>2, <1>3, <1>7 DEF Timely
  <2>3. loc'[p].age <= obs'[q].age \/ obs'[q].age = Stable
    BY <2>1, <2>2, <1>7, Bounds DEF Older, Timely
  <2>4. QED
    BY <1>2, <1>3, <1>7, <2>3 DEF Timely
<1>8. ASSUME NEW q \in Places, NEW f
      PROVE  (Pending(q, f)' <=> Pending(q, f)) /\ (Came(q, f)' <=> Came(q, f))
  BY <1>1, <1>2 DEF Pending, Came
<1>9. ASSUME NEW p \in Places, Gone(p)' PROVE \E q \in Places : Found(p, q)'
  <2>1. Gone(p)
    BY <1>1, <1>2, <1>9 DEF Gone, Cut
  <2>2. PICK q \in Places : Found(p, q)
    BY <2>1 DEF Untaken, GoneAreFound
  <2>3. loc[p].file # 0 /\ loc'[p].file = loc[p].file /\ loc'[p].st = loc[p].st
    BY <1>2, <2>1 DEF Untaken, RowsAreTrue, Gone, Followed, Current
  <2>4. /\ Pending(q, loc[p].file)' <=> Pending(q, loc[p].file)
        /\ Came(q, loc[p].file)' <=> Came(q, loc[p].file)
    BY <1>1, <1>2, <2>3 DEF Pending, Came
  <2>5. Found(p, q)'
    BY <1>1, <1>2, <1>7, <2>2, <2>3, <2>4 DEF Found, Listed, Running
  <2>6. QED
    BY <2>5
<1>10. MissingAreKnown'
  BY <1>1, <1>2 DEF Untaken, MissingAreKnown, Gone, Cut
<1>11. UnheardIsFound'
  <2>1. Unheard' => Unheard
    BY <1>1 DEF Unheard
  <2>2. Unheard => \E q \in Places : Pending(q, Output) /\ (file[To] = 0 => Listed(To, q, Output))
    BY DEF Untaken, UnheardIsFound
  <2>3. ASSUME NEW q \in Places, Pending(q, Output) PROVE Pending(q, Output)'
    BY <1>1, <1>2, <2>3 DEF Pending
  <2>4. QED
    BY <1>1, <1>2, <1>4, <2>1, <2>2, <2>3 DEF Untaken, UnheardIsFound, Listed, Running
<1>12. GoneAreFound'
  BY <1>9 DEF GoneAreFound
<1>13. QED
  BY <1>5, <1>6, <1>10, <1>11, <1>12 DEF Untaken

(* When the scans have settled on every move, no row is astray.            *)
LEMMA SettledIs ==
    ASSUME TypeInv, Untaken, ~Unsettled
    PROVE  /\ \A p \in Places : loc[p].st \in Followed /\ file[p] = 0 => Cut(p)
           /\ \A p \in Places : ~Gone(p)
           /\ ~Unheard
<1>1. ASSUME NEW p \in Places, loc[p].st \in Followed, file[p] = 0 PROVE Cut(p)
  <2>1. Stale(p)
    BY <1>1 DEF Stale, Untaken, RowsAreTrue, Followed, Current
  <2>2. QED
    BY <2>1 DEF Unsettled, Cut
<1>2. ~Unheard
  BY DEF Unsettled, Unheard
<1>3. \A p \in Places : ~Gone(p)
  BY <1>1 DEF Gone
<1>4. QED
  BY <1>1, <1>2, <1>3

(* What leaves the rows and the scan alone keeps what is said of them.     *)
LEMMA OutsideKeeps ==
    ASSUME Untaken, UNCHANGED <<obs, loc, active, scan>>
    PROVE  RowsAreTrue' /\ ScansAreCurrent' /\ SeenAreRegistered'
BY DEF Untaken, RowsAreTrue, ScansAreCurrent, SeenAreRegistered

LEMMA MovesReconfigure == ASSUME TypeInv, Untaken, Reconfigure, ~hurried' PROVE Untaken'
<1>1. /\ UNCHANGED <<file, obs, loc, active, marked, arrived, shown, op, scan>>
      /\ config' = config + 1 /\ ~Unsettled /\ spent'.acts = spent.acts
  BY DEF Reconfigure, rows, TypeInv, TypeOK
<1>2. active # config' /\ scan.cfg # config'
  BY <1>1, Numbers
<1>3. /\ \A p \in Places : loc[p].st \in Followed /\ file[p] = 0 => Cut(p)
      /\ ~Unheard
  BY <1>1, SettledIs
<1>4. FilesAreDistinct' /\ OutputIsNew' /\ SourceIsIts' /\ SourceIsAlone'
  BY <1>1 DEF Untaken, FilesAreDistinct, Distinct, OutputIsNew, SourceIsIts, SourceIsAlone
<1>5. \A p \in Places : ~Gone(p)'
  BY <1>1, <1>3 DEF Gone, Cut
<1>6. GoneAreFound' /\ MissingAreKnown'
  BY <1>1, <1>2, <1>5 DEF GoneAreFound, MissingAreKnown
<1>7. UnheardIsFound'
  BY <1>1, <1>3 DEF UnheardIsFound, Unheard
<1>8. RowsAreTrue' /\ ScansAreCurrent' /\ SeenAreRegistered'
  BY <1>1, OutsideKeeps
<1>9. QED
  BY <1>4, <1>6, <1>7, <1>8 DEF Untaken

LEMMA MovesPut == ASSUME TypeInv, Untaken, NEW p \in Places, Put(p) PROVE Untaken'
<1>1. /\ UNCHANGED <<obs, loc, active, marked, arrived, shown, config, op, scan>>
      /\ spent' = [spent EXCEPT !.acts = @ + 1] /\ spent.acts < MaxActs
      /\ file' = [file EXCEPT ![p] = spent.acts + 2]
      /\ file[p] = 0 /\ (p = From => op.ev = marked /\ op.ev \in {0, 3})
  BY DEF Put, Act, Free
<1> DEFINE n == spent.acts + 2
<1>2. /\ \A q \in Places : file'[q] = IF q = p THEN n ELSE file[q]
      /\ spent'.acts = spent.acts + 1
  BY <1>1 DEF TypeInv, TypeOK
<1>3. n \in Nat /\ n # 0 /\ n # Output /\ n = spent'.acts + 1 /\ From \in Places /\ To \in Places
      /\ Output # 0
  BY <1>1, <1>2, Numbers, Bounds DEF Output
<1>4. \A q \in Places : file[q] # n
  BY <1>3, Numbers DEF Untaken, FilesAreDistinct
<1>5. \A q \in Places : file[q] <= spent.acts + 1 => file[q] <= spent'.acts + 1
  BY <1>2, Numbers
<1> HIDE DEF n
<1>6. FilesAreDistinct'
  <2>1. Distinct(file)' /\ Distinct(scan.list)'
    BY <1>1, <1>2, <1>4 DEF Untaken, FilesAreDistinct, Distinct
  <2>2. \A q \in Places : file'[q] = Output \/ file'[q] <= spent'.acts + 1
    BY <1>2, <1>3, <1>5 DEF Untaken, FilesAreDistinct
  <2>3. QED
    BY <2>1, <2>2 DEF FilesAreDistinct
<1>7. OutputIsNew'
  BY <1>1, <1>2, <1>3 DEF Untaken, OutputIsNew
<1>8. SourceIsIts' /\ SourceIsAlone'
  <2>1. op.cut /\ marked < 3 => p # From
    BY <1>1 DEF Untaken, SourceIsIts
  <2>2. op.ev \in {1, 2} => p # From
    BY <1>1
  <2>3. QED
    BY <1>1, <1>2, <1>3, <2>1, <2>2 DEF Untaken, SourceIsIts, SourceIsAlone
<1>9. ASSUME NEW f, NEW q \in Places, f # 0
      PROVE  (Pending(q, f) => Pending(q, f)') /\ (Came(q, f) => Came(q, f)')
  BY <1>1, <1>2, <1>9 DEF Pending, Came
<1>10. \A r \in Places : Gone(r)' => Gone(r)
  BY <1>1, <1>2, <1>3 DEF Gone, Cut
<1>11. ASSUME NEW r \in Places, Gone(r)' PROVE \E q \in Places : Found(r, q)'
  <2>1. PICK q \in Places : Found(r, q)
    BY <1>10, <1>11 DEF Untaken, GoneAreFound
  <2>2. loc[r].file # 0
    BY <1>10, <1>11 DEF Untaken, RowsAreTrue, Gone, Followed, Current
  <2>3. file[q] # 0
    BY <2>1, <2>2 DEF Found, Pending, Came
  <2>4. q # p
    BY <1>1, <2>3
  <2>5. Found(r, q)'
    BY <1>1, <1>2, <2>1, <2>4 DEF Found, Pending, Came, Timely, Listed, Running
  <2>6. QED
    BY <2>5
<1>12. GoneAreFound'
  BY <1>11 DEF GoneAreFound
<1>13. MissingAreKnown'
  BY <1>1, <1>10 DEF Untaken, MissingAreKnown
<1>14. UnheardIsFound'
  <2>1. SUFFICES ASSUME Unheard' PROVE UnheardIsFound'
    BY DEF UnheardIsFound
  <2>2. Unheard /\ (file'[To] = 0 => file[To] = 0)
    <3>1. To = p => file[To] = 0
      BY <1>1
    <3>2. QED
      BY <1>1, <1>2, <1>3, <2>1, <3>1 DEF Unheard
  <2>3. PICK q \in Places : Pending(q, Output) /\ (file[To] = 0 => Listed(To, q, Output))
    BY <2>2 DEF Untaken, UnheardIsFound
  <2>4. Pending(q, Output)'
    BY <1>3, <1>9, <2>3
  <2>5. file'[To] = 0 => Listed(To, q, Output)'
    BY <1>1, <2>2, <2>3, <2>4 DEF Listed, Running
  <2>6. QED
    BY <1>1, <2>2, <2>4, <2>5 DEF Untaken, UnheardIsFound
<1>15. RowsAreTrue' /\ ScansAreCurrent' /\ SeenAreRegistered'
  BY <1>1, OutsideKeeps
<1>16. QED
  BY <1>6, <1>7, <1>8, <1>12, <1>13, <1>14, <1>15 DEF Untaken

(* A move within the directories, of a file the scans have settled on: its *)
(* row is astray now, and its file is where a scan will find it.           *)
LEMMA MovesRename ==
    ASSUME TypeInv, Untaken, NEW p \in Places, NEW q \in Places, Rename(p, q), ~took', ~hurried'
    PROVE  Untaken'
<1>0. PICK f : f = file[p]
  OBVIOUS
<1>1. /\ UNCHANGED <<obs, loc, active, marked, arrived, shown, config, op, scan>>
      /\ spent' = [spent EXCEPT !.acts = @ + 1]
      /\ file' = [file EXCEPT ![p] = 0, ![q] = file[p]]
      /\ file[p] # 0 /\ file[q] = 0 /\ (q = From => op.ev = marked /\ op.ev \in {0, 3})
      /\ q \in Roots[config] /\ ~Unsettled
      /\ \A r \in Places : loc[r].st # "missing"
      /\ scan.pc = "idle" \/ scan.list[p] = f
  BY <1>0 DEF Rename, Act, Free
<1>2. /\ \A r \in Places : file'[r] = IF r = q THEN f ELSE IF r = p THEN 0 ELSE file[r]
      /\ spent'.acts = spent.acts + 1 /\ p # q /\ f # 0
  BY <1>0, <1>1 DEF TypeInv, TypeOK
<1>3. Output # 0 /\ From \in Places /\ To \in Places /\ From # To
  BY Bounds DEF Output
<1>4. /\ \A r \in Places : loc[r].st \in Followed /\ file[r] = 0 => Cut(r)
      /\ \A r \in Places : ~Gone(r)
      /\ ~Unheard
  BY <1>0, <1>1, SettledIs
<1>5. op.cut /\ marked < 3 => q # From /\ p # From
  BY <1>0, <1>1 DEF Untaken, SourceIsIts
<1>6. loc[q].st \notin Current
  BY <1>0, <1>1, <1>3, <1>5 DEF Untaken, RowsAreTrue, Unsettled, Stale
<1>7. loc[p].st \in Current => loc[p].file = f
  BY <1>0, <1>1, <1>5 DEF Unsettled, Stale
<1>8. FilesAreDistinct'
  <2>1. Distinct(file')
    <3>1. \A a, b \in Places : file[a] # 0 /\ file[a] = file[b] => a = b
      BY DEF Untaken, FilesAreDistinct, Distinct
    <3>2. \A a \in Places : file'[a] # 0 => \E b \in Places : file[b] = file'[a] /\ (a = q <=> b = p)
                                                        /\ (a # q => b = a)
      BY <1>0, <1>2
    <3>3. QED
      BY <3>1, <3>2 DEF Distinct
  <2>2. \A r \in Places : file[r] <= spent.acts + 1 => file[r] <= spent'.acts + 1
    BY <1>0, <1>2, Numbers
  <2>3. 0 <= spent'.acts + 1
    BY <1>0, <1>2, Numbers
  <2>4. \A r \in Places : file'[r] = Output \/ file'[r] <= spent'.acts + 1
    BY <1>0, <1>2, <2>2, <2>3 DEF Untaken, FilesAreDistinct
  <2>5. QED
    BY <1>1, <2>1, <2>4 DEF Untaken, FilesAreDistinct, Distinct
<1>9. OutputIsNew'
  <2>1. op.ev < 2 => \A r \in Places : file'[r] # Output
    BY <1>0, <1>2, <1>3 DEF Untaken, OutputIsNew
  <2>2. marked < 3 => file'[From] # Output
    <3>1. CASE q = From
      <4>1. marked < 3 => op.ev < 2
        BY <1>1, <3>1, Numbers
      <4>2. QED
        BY <1>3, <2>1, <4>1
    <3>2. CASE q # From
      BY <1>0, <1>2, <1>3, <3>2 DEF Untaken, OutputIsNew
    <3>3. QED
      BY <3>1, <3>2
  <2>3. QED
    BY <1>0, <1>1, <2>1, <2>2 DEF Untaken, OutputIsNew
<1>10. SourceIsIts'
  BY <1>0, <1>1, <1>2, <1>3, <1>5 DEF Untaken, SourceIsIts
<1>11. SourceIsAlone'
  <2> SUFFICES ASSUME op.ev \in {1, 2}, ~op.cut, op.src # 0, file'[From] = op.src,
                      NEW r \in Places \ {From}, loc[r].st \in Followed, file'[r] = 0
               PROVE  loc[r].file # op.src
    BY <1>0, <1>1 DEF SourceIsAlone
  <2>0. q # From
    BY <1>1
  <2>1. q # From /\ p # From /\ file[From] = op.src
    BY <1>2, <1>3, <2>0
  <2>2. CASE r = p
    <3>1. f # op.src
      BY <1>0, <2>1, <1>2, <1>3 DEF Untaken, FilesAreDistinct, Distinct
    <3>2. loc[p].file = f
      BY <1>7, <2>2 DEF Followed, Current
    <3>3. QED
      BY <2>2, <3>1, <3>2
  <2>3. CASE r # p
    <3>1. file[r] = 0
      BY <1>0, <1>1, <1>2, <2>3
    <3>2. QED
      BY <2>1, <3>1 DEF Untaken, SourceIsAlone
  <2>4. QED
    BY <2>2, <2>3
<1>12. ASSUME NEW r \in Places, Gone(r)' PROVE r = p
  <2>1. file'[r] = 0 /\ loc[r].st \in Followed /\ r \in Roots[config] /\ ~Cut(r)
    BY <1>0, <1>1, <1>12 DEF Gone, Cut
  <2>2. r # p => file[r] = 0
    BY <1>0, <1>2, <2>1
  <2>3. QED
    BY <1>4, <2>1, <2>2 DEF Gone
<1>13. Pending(q, f)'
  BY <1>0, <1>1, <1>2, <1>6 DEF Pending
<1>14. Running' => scan'.list[p] = f
  BY <1>0, <1>1 DEF Running
<1>15. GoneAreFound'
  <2> SUFFICES ASSUME Gone(p)' PROVE Found(p, q)'
    BY <1>0, <1>12 DEF GoneAreFound
  <2>1. loc[p].st \in Followed
    BY <1>0, <1>1 DEF Gone
  <2>2. loc'[p].file = f
    BY <1>0, <1>1, <1>7, <2>1 DEF Followed, Current
  <2>3. loc'[p].st # "missing"
    BY <1>0, <1>1
  <2>4. Listed(p, q, f)'
    BY <1>0, <1>2, <1>13, <1>14 DEF Listed
  <2>5. Listed(p, q, loc[p].file)'
    BY <2>2, <2>4 DEF Listed, Pending
  <2>6. Pending(q, loc[p].file)'
    BY <2>2, <1>13 DEF Pending
  <2>7. QED
    BY <2>3, <2>5, <2>6 DEF Found
<1>16. MissingAreKnown'
  BY <1>0, <1>1 DEF Untaken, MissingAreKnown
<1>17. UnheardIsFound'
  <2> SUFFICES ASSUME Unheard' PROVE UnheardIsFound'
    BY DEF UnheardIsFound
  <2>1. op.ev >= 2 /\ ~shown /\ file[To] = Output /\ file'[To] # Output
    BY <1>0, <1>1, <1>4 DEF Unheard
  <2>2. p = To /\ f = Output
    BY <1>0, <1>1, <1>2, <1>3, <2>1
  <2>3. loc[To].st \notin Current /\ marked < 2
    <3>1. loc[To].file # Output
      BY <2>1, <1>3 DEF Untaken, OutputIsNew
    <3>2. ~(marked >= 2)
      BY <1>1, <2>1 DEF Unsettled
    <3>3. QED
      BY <1>7, <2>2, <3>1, <3>2, Numbers
  <2>4. scan.pc # "files"
    <3>1. ~(marked >= 2)
      BY <2>3, Numbers
    <3>2. QED
      BY <1>1, <2>1, <2>2, <2>3, <3>1 DEF Untaken, OutputIsNew
  <2>5. Listed(To, q, Output)'
    BY <1>0, <1>2, <1>13, <1>14, <2>2 DEF Listed
  <2>6. QED
    BY <1>0, <1>1, <1>13, <2>2, <2>3, <2>4, <2>5 DEF UnheardIsFound
<1>18. RowsAreTrue' /\ ScansAreCurrent' /\ SeenAreRegistered'
  BY <1>1, OutsideKeeps
<1>19. QED
  BY <1>8, <1>9, <1>10, <1>11, <1>15, <1>16, <1>17, <1>18 DEF Untaken

(***************************************************************************)
(* The compression.                                                        *)
(***************************************************************************)
LEMMA CompressIs ==
    ASSUME TypeInv, Compress, ~hurried'
    PROVE  /\ UNCHANGED <<obs, loc, active, marked, arrived, shown, config, scan, spent>>
           /\ ~Overtakes
BY DEF Compress, rows, TypeInv, TypeOK

(* The output comes to an empty place, the source leaves its own: a file   *)
(* that some row is waiting for stays where it is.                         *)
LEMMA CompressKeepsFound ==
    ASSUME UNCHANGED <<obs, loc, active, marked, arrived, config, scan>>,
           NEW p \in Places, NEW q \in Places, Found(p, q), file'[q] = file[q]
    PROVE  Found(p, q)'
BY DEF Found, Pending, Came, Timely, Listed, Running

LEMMA MovesPlanned == ASSUME TypeInv, Untaken, Compress, Planned, ~hurried' PROVE Untaken'
<1>1. /\ UNCHANGED <<file, obs, loc, active, marked, arrived, shown, config, scan, spent>>
      /\ op.ev = 0 /\ ~Overtakes
      /\ op'.ev = 1 /\ op'.src = file[From] /\ op'.cut = FALSE
  BY CompressIs DEF Planned
<1>2. ~op.cut /\ From \in Places
  BY <1>1, Bounds DEF Untaken, SourceIsIts
<1>3. FilesAreDistinct' /\ OutputIsNew' /\ SourceIsIts'
  BY <1>1, <1>2 DEF Untaken, FilesAreDistinct, Distinct, OutputIsNew, SourceIsIts
<1>4. SourceIsAlone'
  BY <1>1, <1>2 DEF SourceIsAlone, Overtakes, Followed, Current
<1>5. \A p \in Places : Gone(p)' => Gone(p)
  BY <1>1, <1>2 DEF Gone, Cut
<1>6. ASSUME NEW p \in Places, Gone(p)' PROVE \E q \in Places : Found(p, q)'
  <2>1. PICK q \in Places : Found(p, q)
    BY <1>5, <1>6 DEF Untaken, GoneAreFound
  <2>2. QED
    BY <1>1, <2>1, CompressKeepsFound
<1>7. GoneAreFound'
  BY <1>6 DEF GoneAreFound
<1>8. MissingAreKnown'
  BY <1>1, <1>5 DEF Untaken, MissingAreKnown
<1>9. UnheardIsFound'
  BY <1>1 DEF UnheardIsFound, Unheard
<1>10. RowsAreTrue' /\ ScansAreCurrent' /\ SeenAreRegistered'
  BY <1>1, OutsideKeeps
<1>11. QED
  BY <1>3, <1>4, <1>7, <1>8, <1>9, <1>10 DEF Untaken

LEMMA MovesPublish == ASSUME TypeInv, Untaken, Compress, Publish, ~hurried' PROVE Untaken'
<1>1. /\ UNCHANGED <<obs, loc, active, marked, arrived, shown, config, scan, spent>>
      /\ op.ev = 1 /\ file[To] = 0
      /\ file' = [file EXCEPT ![To] = Output]
      /\ op'.ev = 2 /\ op'.src = op.src /\ op'.cut = op.cut
  BY CompressIs DEF Publish, TypeInv, TypeOK, Operation
<1>2. /\ From \in Places /\ To \in Places /\ From # To /\ Output # 0
      /\ \A p \in Places : file'[p] = IF p = To THEN Output ELSE file[p]
  BY <1>1, Bounds DEF TypeInv, TypeOK, Output
<1>3. \A p \in Places : file[p] # Output /\ scan.list[p] # Output
  BY <1>1 DEF Untaken, OutputIsNew
<1>4. ~op.cut
  BY <1>1 DEF Untaken, SourceIsIts
<1>5. FilesAreDistinct'
  BY <1>1, <1>2, <1>3 DEF Untaken, FilesAreDistinct, Distinct
<1>6. OutputIsNew'
  BY <1>1, <1>2, <1>3 DEF Untaken, OutputIsNew
<1>7. SourceIsIts' /\ SourceIsAlone'
  BY <1>1, <1>2, <1>4 DEF Untaken, SourceIsIts, SourceIsAlone
<1>8. \A p \in Places : Gone(p)' => Gone(p)
  BY <1>1, <1>2, <1>4 DEF Gone, Cut
<1>9. ASSUME NEW p \in Places, Gone(p)' PROVE \E q \in Places : Found(p, q)'
  <2>1. PICK q \in Places : Found(p, q)
    BY <1>8, <1>9 DEF Untaken, GoneAreFound
  <2>2. loc[p].file # 0
    BY <1>8, <1>9 DEF Untaken, RowsAreTrue, Gone, Followed, Current
  <2>3. file'[q] = file[q]
    BY <1>1, <1>2, <2>1, <2>2 DEF Found, Pending, Came
  <2>4. QED
    BY <1>1, <2>1, <2>3, CompressKeepsFound
<1>10. GoneAreFound'
  BY <1>9 DEF GoneAreFound
<1>11. MissingAreKnown'
  BY <1>1, <1>8 DEF Untaken, MissingAreKnown
<1>12. UnheardIsFound'
  BY <1>2 DEF UnheardIsFound, Unheard
<1>13. RowsAreTrue' /\ ScansAreCurrent' /\ SeenAreRegistered'
  BY <1>1, OutsideKeeps
<1>14. QED
  BY <1>5, <1>6, <1>7, <1>10, <1>11, <1>12, <1>13 DEF Untaken

LEMMA MovesUnlink == ASSUME TypeInv, Untaken, Compress, Unlink, ~hurried' PROVE Untaken'
<1>1. /\ UNCHANGED <<obs, loc, active, marked, arrived, shown, config, scan, spent>>
      /\ op.ev = 2 /\ ~op.cut /\ file[To] = Output /\ file[From] \in {0, op.src}
      /\ file' = [file EXCEPT ![From] = 0]
      /\ op'.ev = 2 /\ op'.src = op.src /\ op'.cut = TRUE
  BY CompressIs DEF Unlink, TypeInv, TypeOK, Operation
<1>2. /\ From \in Places /\ To \in Places /\ From # To /\ Output # 0
      /\ \A p \in Places : file'[p] = IF p = From THEN 0 ELSE file[p]
  BY <1>1, Bounds DEF TypeInv, TypeOK, Output
<1>3. FilesAreDistinct'
  <2>1. \A p \in Places : file[p] = Output \/ file[p] <= spent.acts + 1
    BY DEF Untaken, FilesAreDistinct
  <2>2. 0 <= spent.acts + 1
    BY Numbers
  <2>3. QED
    BY <1>1, <1>2, <2>1, <2>2 DEF Untaken, FilesAreDistinct, Distinct
<1>4. OutputIsNew' /\ SourceIsIts' /\ SourceIsAlone'
  BY <1>1, <1>2 DEF Untaken, OutputIsNew, SourceIsIts, SourceIsAlone
<1>5. marked < 3
  BY <1>1, Numbers
<1>6. \A p \in Places : Gone(p)' => Gone(p) /\ p # From
  BY <1>1, <1>2, <1>5 DEF Gone, Cut
<1>7. ASSUME NEW p \in Places, Gone(p)' PROVE \E q \in Places : Found(p, q)'
  <2>1. PICK q \in Places : Found(p, q)
    BY <1>6, <1>7 DEF Untaken, GoneAreFound
  <2>2. loc[p].file # 0
    BY <1>6, <1>7 DEF Untaken, RowsAreTrue, Gone, Followed, Current
  <2>3. file[q] = loc[p].file
    BY <2>1 DEF Found, Pending, Came
  <2>4. q # From
    <3>1. SUFFICES ASSUME q = From PROVE FALSE
      OBVIOUS
    <3>2. op.src # 0 /\ file[From] = op.src
      BY <1>1, <2>2, <2>3, <3>1
    <3>3. loc[p].st \in Followed /\ file[p] = 0 /\ p # From
      BY <1>6, <1>7 DEF Gone
    <3>4. loc[p].file # op.src
      BY <1>1, <3>2, <3>3 DEF Untaken, SourceIsAlone
    <3>5. QED
      BY <2>3, <3>1, <3>2, <3>4
  <2>5. QED
    BY <1>1, <1>2, <2>1, <2>4, CompressKeepsFound
<1>8. GoneAreFound'
  BY <1>7 DEF GoneAreFound
<1>9. MissingAreKnown'
  BY <1>1, <1>6 DEF Untaken, MissingAreKnown
<1>10. UnheardIsFound'
  BY <1>1, <1>2 DEF UnheardIsFound, Unheard
<1>11. RowsAreTrue' /\ ScansAreCurrent' /\ SeenAreRegistered'
  BY <1>1, OutsideKeeps
<1>12. QED
  BY <1>3, <1>4, <1>8, <1>9, <1>10, <1>11 DEF Untaken

LEMMA MovesClean == ASSUME TypeInv, Untaken, Compress, Clean, ~hurried' PROVE Untaken'
<1>1. /\ UNCHANGED <<file, obs, loc, active, marked, arrived, shown, config, scan, spent>>
      /\ op.ev = 2 /\ op.cut /\ file[To] = Output
      /\ op'.ev = 3 /\ op'.src = op.src /\ op'.cut = op.cut
  BY CompressIs DEF Clean, TypeInv, TypeOK, Operation
<1>2. FilesAreDistinct' /\ OutputIsNew' /\ SourceIsIts' /\ SourceIsAlone'
  BY <1>1 DEF Untaken, FilesAreDistinct, Distinct, OutputIsNew, SourceIsIts, SourceIsAlone
<1>3. \A p \in Places : Gone(p)' => Gone(p)
  BY <1>1 DEF Gone, Cut
<1>4. GoneAreFound'
  <2>1. \A p \in Places : Gone(p) => \E q \in Places : Found(p, q)
    BY DEF Untaken, GoneAreFound
  <2>2. \A p, q \in Places : Found(p, q) => Found(p, q)'
    BY <1>1, CompressKeepsFound
  <2>3. QED
    BY <1>3, <2>1, <2>2 DEF GoneAreFound
<1>5. MissingAreKnown'
  BY <1>1, <1>3 DEF Untaken, MissingAreKnown
<1>6. UnheardIsFound'
  BY <1>1 DEF UnheardIsFound, Unheard
<1>7. RowsAreTrue' /\ ScansAreCurrent' /\ SeenAreRegistered'
  BY <1>1, OutsideKeeps
<1>8. QED
  BY <1>2, <1>4, <1>5, <1>6, <1>7 DEF Untaken

(***************************************************************************)
(* The scan.                                                               *)
(***************************************************************************)
LEMMA MovesOpen == ASSUME TypeInv, Untaken, Open, config = scan.cfg PROVE Untaken'
<1> DEFINE baseline == active # scan.cfg
           inside == [p \in Places |-> IF baseline /\ p \notin Roots[scan.cfg] /\ loc[p].st \in Current
                                       THEN Row("retired", loc[p].file, 0) ELSE loc[p]]
           after == IF baseline THEN 0 ELSE marked
<1>1. /\ scan.pc = "open" /\ active' = config
      /\ loc' = Consumed(inside, after)
      /\ shown' = (shown \/ loc'[To].file = Output)
      /\ obs' = IF baseline THEN [p \in Places |-> Unseen] ELSE obs
      /\ arrived' = IF baseline THEN {} ELSE arrived
      /\ UNCHANGED <<file, marked, config, op, spent>>
  BY DEF Open, Shows
<1>2. /\ scan'.pc = "files" /\ scan'.cfg = scan.cfg /\ scan'.list = scan.list
      /\ scan'.todo = {p \in Places : scan.list[p] # 0}
  BY DEF Open, TypeInv, TypeOK, Scanning
<1>3. /\ From \in Places /\ To \in Places /\ From # To /\ Output # 0
      /\ Row("present", Output, 0).st = "present" /\ Row("present", Output, 0).file = Output
      /\ Row("present", Output, 0).age = 0
  BY Bounds, RowIs DEF Output, Row, Current
<1>4. inside \in Locations
  <2>1. \A p \in Places : Row("retired", loc[p].file, 0) \in Location
    BY RowIs DEF TypeInv, TypeOK, Location
  <2>2. QED
    BY <2>1 DEF TypeInv, TypeOK, Locations
<1>5. \A p \in Places :
        /\ inside[p].file = loc[p].file
        /\ inside[p] = loc[p] \/ (baseline /\ p \notin Roots[config] /\ inside[p].st = "retired")
        /\ baseline /\ p \notin Roots[config] => inside[p].st \notin Current
  BY DEF Row, Current
<1>6. /\ Consumes(inside, loc')
      /\ op.ev > after /\ op.ev >= 2 => loc'[To].st \in Current \/ shown
  BY <1>1, <1>4, ConsumedRows
<1>7. (baseline <=> active # config) /\ (after = 0 \/ after = marked) /\ (~baseline => after = marked)
  OBVIOUS
<1> HIDE DEF baseline, inside, after
(* What becomes of one row.                                                *)
<1>8. \A p \in Places :
        \/ loc'[p] = loc[p] /\ (baseline /\ p \notin Roots[config] => loc[p].st \notin Current)
        \/ loc'[p].st = "retired" /\ loc'[p].file = loc[p].file /\ (file[p] = 0 \/ p \notin Roots[config])
        \/ /\ p = To /\ loc'[p].st = "present" /\ loc'[p].file = Output /\ loc'[p].age = 0
           /\ op.ev >= 2 /\ ~shown
           /\ loc[To].st \notin Current \/ To \notin Roots[config]
  BY <1>3, <1>5, <1>6 DEF Consumes, Known
<1>9. ~shown' => ~shown /\ \A p \in Places : loc'[p].file = loc[p].file
  BY <1>1, <1>3, <1>8
<1>10. FilesAreDistinct' /\ SourceIsIts'
  BY <1>1, <1>2 DEF Untaken, FilesAreDistinct, Distinct, SourceIsIts
<1>11. RowsAreTrue'
  BY <1>3, <1>8 DEF Untaken, RowsAreTrue, Current
<1>12. OutputIsNew'
  <2>1. ~shown' => \A p \in Places : loc'[p].file # Output
    BY <1>9 DEF Untaken, OutputIsNew
  <2>2. loc'[From].file = loc[From].file
    BY <1>3, <1>8
  <2>3. ASSUME scan.list[To] = Output, ~shown' PROVE loc'[To].st \in Current \/ marked >= 2
    <3>1. op.ev >= 2
      BY <1>3, <2>3, Numbers DEF Untaken, OutputIsNew
    <3>2. CASE op.ev > after
      BY <1>1, <1>6, <2>3, <3>1, <3>2
    <3>3. CASE ~(op.ev > after)
      BY <1>7, <3>1, <3>3, Numbers
    <3>4. QED
      BY <3>2, <3>3
  <2>4. QED
    BY <1>1, <1>2, <2>1, <2>2, <2>3 DEF Untaken, OutputIsNew
<1>13. SourceIsAlone'
  <2> SUFFICES ASSUME op.ev \in {1, 2}, ~op.cut, op.src # 0, file[From] = op.src,
                      NEW p \in Places \ {From}, loc'[p].st \in Followed, file[p] = 0
               PROVE  loc'[p].file # op.src
    BY <1>1 DEF SourceIsAlone
  <2>1. loc'[p] = loc[p] \/ loc'[p].file = Output
    BY <1>8 DEF Followed
  <2>2. QED
    BY <2>1 DEF Untaken, SourceIsAlone, OutputIsNew
<1>14. ScansAreCurrent' /\ SeenAreRegistered'
  BY <1>1, <1>2 DEF ScansAreCurrent, SeenAreRegistered
<1>15. Running /\ Running'
  BY <1>1, <1>2 DEF Running
(* A file that some row is waiting for is not consumed.                    *)
<1>16. ASSUME NEW q \in Places, NEW f, f # 0, Pending(q, f), ~shown => f # Output \/ q # To
       PROVE  Pending(q, f)'
  <2>1. q \in Roots[config] /\ file[q] = f
    BY <1>16 DEF Pending
  <2>2. CASE loc'[q] = loc[q]
    BY <1>1, <1>16, <2>2 DEF Pending
  <2>3. CASE q = To /\ loc'[q].st = "present" /\ loc'[q].file = Output /\ ~shown
    BY <1>1, <1>16, <2>1, <2>3 DEF Pending, Version
  <2>4. QED
    BY <1>8, <1>16, <2>1, <2>2, <2>3
<1>17. ASSUME NEW q \in Places, NEW f, f # 0, Came(q, f) PROVE Came(q, f)'
  <2>1. q \in Roots[config] /\ file[q] = f /\ loc[q].st = "present" /\ loc[q].st \in Current /\ ~baseline
    BY <1>7, <1>17 DEF Came, Current
  <2>2. loc'[q] = loc[q]
    BY <1>8, <1>17, <2>1
  <2>3. QED
    BY <1>1, <1>17, <2>1, <2>2 DEF Came
<1>18. ASSUME NEW p \in Places, Gone(p)' PROVE \E q \in Places : Found(p, q)'
  <2>1. p \in Roots[config] /\ file[p] = 0 /\ loc'[p].st \in Followed /\ ~Cut(p)
    BY <1>1, <1>18 DEF Gone, Cut
  <2>2. CASE loc'[p] = loc[p]
    <3>0. PICK f : f = loc[p].file
      OBVIOUS
    <3>1. Gone(p) /\ f # 0
      BY <2>1, <2>2, <3>0 DEF Gone, Untaken, RowsAreTrue, Followed, Current
    <3>2. PICK q \in Places : Found(p, q)
      BY <3>1 DEF Untaken, GoneAreFound
    <3>3. ~shown => f # Output
      BY <3>0 DEF Untaken, OutputIsNew
    <3>4. (Pending(q, f) => Pending(q, f)') /\ (Came(q, f) => Came(q, f)')
      BY <1>16, <1>17, <3>1, <3>3
    <3>5. loc'[p].st = "missing" => ~baseline
      BY <1>7, <2>2, <3>1 DEF Untaken, MissingAreKnown
    <3>6. Came(q, f)' => ~Pending(q, f)'
      BY DEF Came, Pending, Current
    <3>7. Pending(q, f) \/ Came(q, f)
      BY <3>0, <3>2 DEF Found
    <3>8. ASSUME loc'[p].st = "missing", Pending(q, f)' PROVE Timely(p, q)'
      <4>1. Timely(p, q)
        BY <2>2, <3>0, <3>2, <3>4, <3>6, <3>7, <3>8 DEF Found
      <4>2. obs' = obs
        BY <1>1, <3>5, <3>8
      <4>3. QED
        BY <2>2, <4>1, <4>2 DEF Timely
    <3>9. Listed(p, q, f)'
      <4>1. Listed(p, q, f)
        BY <3>0, <3>2 DEF Found
      <4>2. QED
        BY <1>2, <1>15, <3>4, <4>1 DEF Listed
    <3>10. Found(p, q)'
      <4>1. loc'[p].file = f
        BY <2>2, <3>0
      <4>2. Pending(q, loc[p].file)' <=> Pending(q, f)'
        BY <4>1 DEF Pending
      <4>3. Came(q, loc[p].file)' <=> Came(q, f)'
        BY <4>1 DEF Came
      <4>4. Listed(p, q, loc[p].file)'
        BY <3>9, <4>1 DEF Listed, Pending
      <4>5. QED
        BY <3>4, <3>7, <3>8, <4>2, <4>3, <4>4 DEF Found
    <3>11. QED
      BY <3>10
  <2>3. CASE p = To /\ loc'[p].st = "present" /\ loc'[p].file = Output /\ op.ev >= 2 /\ ~shown
    <3>1. Unheard
      BY <1>3, <2>1, <2>3 DEF Unheard
    <3>2. PICK q \in Places : Pending(q, Output) /\ (file[To] = 0 => Listed(To, q, Output))
      BY <3>1 DEF Untaken, UnheardIsFound
    <3>3. q # To
      BY <1>3, <2>1, <2>3, <3>2 DEF Pending
    <3>4. Pending(q, Output)'
      BY <1>3, <1>16, <3>2, <3>3
    <3>5. Listed(To, q, Output)'
      BY <1>2, <1>15, <2>1, <2>3, <3>2, <3>4 DEF Listed
    <3>6. Found(p, q)'
      <4>1. Pending(q, loc[p].file)' /\ Listed(p, q, loc[p].file)'
        BY <2>3, <3>4, <3>5 DEF Pending, Listed
      <4>2. loc'[p].st # "missing"
        BY <2>3
      <4>3. QED
        BY <4>1, <4>2 DEF Found
    <3>7. QED
      BY <3>6
  <2>4. QED
    BY <1>8, <2>1, <2>2, <2>3 DEF Followed
<1>19. GoneAreFound'
  BY <1>18 DEF GoneAreFound
<1>20. MissingAreKnown'
  <2>1. \A p \in Places : loc'[p].st = "missing" => loc'[p] = loc[p]
    BY <1>8
  <2>2. \A p \in Places : Gone(p)' /\ loc'[p].st = "missing" => Gone(p)
    BY <1>1, <2>1 DEF Gone, Cut
  <2>3. \A p \in Places : loc'[p].st = "missing" => p \in Roots[config]
    BY <1>7, <1>8 DEF Untaken, MissingAreKnown, Current
  <2>4. QED
    BY <1>1, <1>2, <2>1, <2>2, <2>3 DEF Untaken, MissingAreKnown
<1>21. UnheardIsFound'
  <2> SUFFICES ASSUME Unheard' PROVE FALSE
    BY DEF UnheardIsFound
  <2>1. op.ev >= 2 /\ ~shown /\ ~shown' /\ file[To] # Output
    BY <1>1 DEF Unheard
  <2>2. marked < 2 /\ loc[To].st \notin Current
    BY <2>1 DEF Untaken, UnheardIsFound, Unheard
  <2>3. loc'[To].st \in Current
    <3>1. op.ev > after
      BY <1>7, <2>1, <2>2, Numbers
    <3>2. QED
      BY <1>6, <2>1, <3>1
  <2>4. QED
    BY <1>1, <1>3, <1>8, <2>1, <2>2, <2>3 DEF Current
<1>22. QED
  BY <1>10, <1>11, <1>12, <1>13, <1>14, <1>19, <1>20, <1>21 DEF Untaken

LEMMA MovesFile == ASSUME TypeInv, Untaken, NEW p0 \in Places, File(p0) PROVE Untaken'
<1>0. PICK f0 : f0 = scan.list[p0]
  OBVIOUS
<1> DEFINE o == Observed(p0)
           known == loc[p0].st = "present" /\ loc[p0].file = f0
           fresh == loc[p0].st \notin Current \/ Version(loc[p0].file) # Version(f0)
           lost == o.age = Stable /\ ~known /\ (file[p0] # f0 \/ config # scan.cfg)
           found == o.age = Stable /\ ~lost
<1>1. /\ scan.pc = "files" /\ p0 \in scan.todo
      /\ obs' = [obs EXCEPT ![p0] = o]
      /\ loc' = IF found THEN [loc EXCEPT ![p0] = Row("present", f0, 0)] ELSE loc
      /\ shown' = (shown \/ loc'[To].file = Output)
      /\ arrived' = IF found /\ fresh THEN arrived \cup {p0} ELSE arrived
      /\ UNCHANGED <<file, active, marked, config, op, spent>>
  BY <1>0 DEF File, Shows
<1>2. /\ scan'.pc = scan.pc /\ scan'.cfg = scan.cfg /\ scan'.list = scan.list
      /\ scan'.todo = scan.todo \ {p0} /\ scan'.whole = (scan.whole /\ ~lost)
  BY <1>0 DEF File, TypeInv, TypeOK, Scanning
<1>3. /\ From \in Places /\ To \in Places /\ From # To /\ Output # 0
      /\ Row("present", f0, 0).st = "present" /\ Row("present", f0, 0).file = f0
      /\ Row("present", f0, 0).age = 0
  BY Bounds DEF Output, Row
<1>4. f0 # 0 /\ active = scan.cfg
  BY <1>0, <1>1 DEF Untaken, ScansAreCurrent
<1>5. o.seen = f0 /\ (obs[p0].seen = f0 => o = obs[p0])
  <2>1. o = CASE obs[p0].seen = 0 -> [seen |-> f0, age |-> 0, base |-> scan.base \/ scan.unsure]
              [] obs[p0].seen \notin {0, f0} -> [obs[p0] EXCEPT !.seen = f0, !.age = 0]
              [] OTHER -> obs[p0]
    BY <1>0 DEF Observed
  <2>2. obs[p0] \in Observation
    BY DEF TypeInv, TypeOK
  <2>3. CASE obs[p0].seen = 0
    BY <1>4, <2>1, <2>3
  <2>4. CASE obs[p0].seen \notin {0, f0}
    BY <1>4, <2>1, <2>2, <2>4 DEF Observation
  <2>5. CASE obs[p0].seen = f0
    BY <1>4, <2>1, <2>5
  <2>6. QED
    BY <2>3, <2>4, <2>5
<1>6. \A q \in Places : obs'[q] = IF q = p0 THEN o ELSE obs[q]
  BY <1>1 DEF TypeInv, TypeOK
<1>7. \A q \in Places : q # p0 => loc'[q] = loc[q]
  BY <1>1 DEF TypeInv, TypeOK
<1>8. found => loc'[p0].st = "present" /\ loc'[p0].file = f0 /\ loc'[p0].age = 0
  BY <1>1, <1>3 DEF TypeInv, TypeOK
<1>9. ~found => loc' = loc /\ arrived' = arrived
  BY <1>1
<1>10. found => known \/ (file[p0] = f0 /\ config = scan.cfg)
  OBVIOUS
<1>11. known => ~fresh
  BY DEF Current
<1>12. o.age = Stable /\ ~lost => found
  OBVIOUS
<1>13. (known <=> (loc[p0].st = "present" /\ loc[p0].file = f0))
       /\ (fresh <=> (loc[p0].st \notin Current \/ Version(loc[p0].file) # Version(f0)))
  OBVIOUS
<1>14. arrived \subseteq arrived' /\ (found /\ fresh => p0 \in arrived')
  BY <1>1
<1> HIDE DEF o, known, fresh, lost, found
(* Either the row is as it was, or the file is there and is registered.    *)
<1>15. \/ \A q \in Places : loc'[q].st = loc[q].st /\ loc'[q].file = loc[q].file /\ loc'[q].age = loc[q].age
       \/ found /\ ~known /\ file[p0] = f0 /\ config = scan.cfg
  <2>1. known => loc[p0].age = 0
    BY <1>13 DEF Untaken, RowsAreTrue
  <2>2. QED
    BY <1>7, <1>8, <1>9, <1>10, <1>13, <2>1
<1>16. file[p0] = 0 => \A q \in Places : loc'[q].st = loc[q].st /\ loc'[q].file = loc[q].file /\ loc'[q].age = loc[q].age
  BY <1>4, <1>15
<1>17. \A q \in Places : file[q] = 0 =>
          loc'[q].st = loc[q].st /\ loc'[q].file = loc[q].file /\ loc'[q].age = loc[q].age
  BY <1>7, <1>16
<1>18. ~Unheard
  BY <1>1 DEF Untaken, UnheardIsFound
<1>19. ~shown' => ~shown /\ \A q \in Places : loc'[q].file # Output
  <2>1. SUFFICES ASSUME ~shown' PROVE ~shown /\ \A q \in Places : loc'[q].file # Output
    OBVIOUS
  <2>2. ~shown /\ loc'[To].file # Output /\ \A q \in Places : loc[q].file # Output
    BY <1>1, <2>1 DEF Untaken, OutputIsNew
  <2>3. loc'[p0].file # Output
    <3>1. SUFFICES ASSUME loc'[p0].file = Output PROVE FALSE
      OBVIOUS
    <3>2. found /\ file[p0] = f0 /\ f0 = Output /\ p0 # To
      BY <1>8, <1>15, <2>2, <3>1
    <3>3. op.ev >= 2
      BY <3>2, Numbers DEF Untaken, OutputIsNew
    <3>4. file[To] # Output
      BY <1>3, <3>2 DEF Untaken, FilesAreDistinct, Distinct
    <3>5. QED
      BY <1>18, <2>2, <3>3, <3>4 DEF Unheard
  <2>4. QED
    BY <1>7, <2>2, <2>3
<1>20. FilesAreDistinct' /\ SourceIsIts'
  BY <1>1, <1>2 DEF Untaken, FilesAreDistinct, Distinct, SourceIsIts
<1>21. RowsAreTrue'
  BY <1>4, <1>7, <1>8, <1>9 DEF Untaken, RowsAreTrue
<1>22. OutputIsNew'
  <2>1. marked < 3 => loc'[From].file # Output
    BY <1>0, <1>3, <1>7, <1>8, <1>9 DEF Untaken, OutputIsNew
  <2>2. loc[To].st \in Current => loc'[To].st \in Current
    BY <1>3, <1>7, <1>8, <1>9 DEF Current
  <2>3. QED
    BY <1>1, <1>2, <1>19, <2>1, <2>2 DEF Untaken, OutputIsNew
<1>23. SourceIsAlone'
  BY <1>1, <1>17 DEF Untaken, SourceIsAlone
<1>24. ScansAreCurrent'
  BY <1>1, <1>2 DEF Untaken, ScansAreCurrent
<1>25. SeenAreRegistered'
  <2> SUFFICES ASSUME scan.whole, ~lost, NEW q \in Places, scan.list[q] # 0, q \notin scan.todo \/ q = p0
               PROVE  /\ obs'[q].seen = scan.list[q]
                      /\ obs'[q].age = Stable => loc'[q].st = "present" /\ loc'[q].file = scan.list[q]
    BY <1>2 DEF SeenAreRegistered
  <2>1. CASE q = p0
    BY <1>0, <1>5, <1>6, <1>8, <1>12, <2>1
  <2>2. CASE q # p0
    BY <1>1, <1>6, <1>7, <2>2 DEF Untaken, SeenAreRegistered
  <2>3. QED
    BY <2>1, <2>2
<1>26. ASSUME NEW p \in Places, Gone(p)' PROVE \E q \in Places : Found(p, q)'
  <2>1. /\ loc'[p].st = loc[p].st /\ loc'[p].file = loc[p].file /\ loc'[p].age = loc[p].age
        /\ file[p] = 0 /\ Gone(p)
    BY <1>1, <1>17, <1>26 DEF Gone, Cut
  <2>0. PICK f : f = loc[p].file
    OBVIOUS
  <2>2. PICK q \in Places : Found(p, q)
    BY <2>1 DEF Untaken, GoneAreFound
  <2>3. f # 0 /\ file[q] = f /\ (Pending(q, f) \/ Came(q, f)) /\ Listed(p, q, f)
    BY <2>0, <2>1, <2>2 DEF Found, Pending, Came, Gone, Followed, Untaken, RowsAreTrue, Current
  <2>4. Running <=> Running'
    BY <1>1, <1>2 DEF Running
  <2>5. CASE q # p0
    <3>1. (Pending(q, f)' <=> Pending(q, f)) /\ (Came(q, f) => Came(q, f)')
      BY <1>1, <1>7, <1>14, <2>5 DEF Pending, Came
    <3>2. Listed(p, q, f)'
      BY <1>2, <2>3, <2>4, <3>1 DEF Listed
    <3>3. loc[p].st = "missing" /\ Pending(q, f) => Timely(p, q)'
      <4>1. loc[p].st = "missing" /\ Pending(q, f) => Timely(p, q)
        BY <2>0, <2>2 DEF Found
      <4>2. QED
        BY <1>6, <2>1, <2>5, <4>1 DEF Timely
    <3>4. Found(p, q)'
      <4>1. loc'[p].file = f /\ loc'[p].st = loc[p].st
        BY <2>0, <2>1
      <4>2. Pending(q, loc[p].file)' <=> Pending(q, f)'
        BY <4>1 DEF Pending
      <4>3. Came(q, loc[p].file)' <=> Came(q, f)'
        BY <4>1 DEF Came
      <4>4. Listed(p, q, loc[p].file)'
        BY <3>2, <4>1 DEF Listed, Pending
      <4>5. QED
        BY <2>3, <3>1, <3>3, <4>1, <4>2, <4>3, <4>4 DEF Found
    <3>5. QED
      BY <3>4
  <2>6. CASE q = p0
    <3>1. CASE found /\ ~known /\ file[p0] = f0 /\ config = scan.cfg
      <4>1. f = f0 /\ p # p0
        BY <1>4, <2>1, <2>3, <2>6, <3>1
      <4>2. Came(q, f)'
        <5>1. q \in Roots[config]
          BY <2>3 DEF Pending, Came
        <5>2. p0 \in arrived'
          BY <1>13, <1>14, <2>3, <2>6, <3>1, <4>1 DEF Pending, Came
        <5>3. QED
          BY <1>1, <1>4, <1>8, <2>3, <2>6, <3>1, <4>1, <5>1, <5>2 DEF Came
      <4>3. scan.list[p] = 0
        BY <1>0, <1>1, <1>4, <2>3, <2>6, <3>1, <4>1 DEF Listed, Running, Untaken, FilesAreDistinct, Distinct
      <4>4. Found(p, q)'
        <5>1. loc'[p].file = f
          BY <2>0, <2>1
        <5>2. Came(q, loc[p].file)'
          BY <4>2, <5>1 DEF Came
        <5>3. ~Pending(q, loc[p].file)'
          BY <5>2 DEF Came, Pending, Current
        <5>4. Listed(p, q, loc[p].file)'
          BY <1>0, <1>2, <2>6, <4>1, <4>3, <5>1 DEF Listed
        <5>5. QED
          BY <5>2, <5>3, <5>4 DEF Found
      <4>5. QED
        BY <4>4
    <3>2. CASE \A r \in Places : loc'[r].st = loc[r].st /\ loc'[r].file = loc[r].file /\ loc'[r].age = loc[r].age
      <4>1. (Pending(q, f)' <=> Pending(q, f)) /\ (Came(q, f) => Came(q, f)')
        BY <1>1, <1>14, <3>2 DEF Pending, Came
      <4>2. Listed(p, q, f)'
        BY <1>2, <2>3, <2>4, <4>1 DEF Listed
      <4>3. ASSUME loc[p].st = "missing", Pending(q, f) PROVE Timely(p, q)'
        <5>1. Timely(p, q)
          BY <2>0, <2>2, <4>3 DEF Found
        <5>2. scan.cfg = config /\ scan.list[p] = 0
          BY <1>1, <2>1, <4>3 DEF Untaken, MissingAreKnown
        <5>3. obs[p0].seen = f0
          BY <1>0, <1>1, <2>0, <2>3, <2>6, <5>1, <5>2 DEF Listed, Running, Timely
        <5>4. obs'[q] = obs[q]
          BY <1>5, <1>6, <2>6, <5>3
        <5>5. QED
          BY <2>1, <5>1, <5>4 DEF Timely
      <4>4. Found(p, q)'
        <5>1. loc'[p].file = f /\ loc'[p].st = loc[p].st
          BY <2>0, <2>1
        <5>2. Pending(q, loc[p].file)' <=> Pending(q, f)'
          BY <5>1 DEF Pending
        <5>3. Came(q, loc[p].file)' <=> Came(q, f)'
          BY <5>1 DEF Came
        <5>4. Listed(p, q, loc[p].file)'
          BY <4>2, <5>1 DEF Listed, Pending
        <5>5. QED
          BY <2>3, <4>1, <4>3, <5>1, <5>2, <5>3, <5>4 DEF Found
      <4>5. QED
        BY <4>4
    <3>3. QED
      BY <1>15, <3>1, <3>2
  <2>7. QED
    BY <2>5, <2>6
<1>27. GoneAreFound'
  BY <1>26 DEF GoneAreFound
<1>28. MissingAreKnown'
  <2>1. \A p \in Places : loc'[p].st = "missing" => loc[p].st = "missing"
    BY <1>7, <1>8, <1>9
  <2>2. \A p \in Places : Gone(p)' => Gone(p)
    BY <1>1, <1>17 DEF Gone, Cut
  <2>3. QED
    BY <1>1, <1>2, <2>1, <2>2 DEF Untaken, MissingAreKnown
<1>29. UnheardIsFound'
  BY <1>1, <1>18, <1>19 DEF UnheardIsFound, Unheard
<1>30. QED
  BY <1>20, <1>21, <1>22, <1>23, <1>24, <1>25, <1>27, <1>28, <1>29 DEF Untaken

(* A row that a complete scan may judge, with what the lineage left of it: *)
(* the file it waits for has not come, and is not stable.                  *)
LEMMA AbsentIs ==
    ASSUME TypeInv, Untaken, scan.pc = "files", scan.todo = {}, scan.whole, config = scan.cfg,
           NEW c \in Locations, Consumes(loc, c),
           NEW p \in Places, Gone(p), scan.list[p] = 0, Version(loc[p].file) \notin Moved(c),
           NEW q \in Places, Found(p, q)
    PROVE  /\ Pending(q, loc[p].file) /\ obs[q].seen = loc[p].file /\ obs[q].age # Stable
           /\ loc[p].st = "missing" => loc[p].age <= obs[q].age
<1> DEFINE f == loc[p].file
<1>1. f # 0
  BY DEF Gone, Untaken, RowsAreTrue, Followed, Current
<1>2. scan.list[q] = f
  BY DEF Found, Listed, Running
<1> HIDE DEF f
<1>3. ~Came(q, f)
  <2> SUFFICES ASSUME Came(q, f) PROVE FALSE
    OBVIOUS
  <2>1. /\ q \in arrived /\ loc[q].st = "present" /\ loc[q].file = f /\ file[q] = f
        /\ loc[q].st \in Current
    BY DEF Came, Current
  <2>2. c[q] = loc[q]
    BY <1>1, <2>1 DEF Consumes, Known
  <2>3. Version(f) \in Moved(c)
    <3>1. q \in {r \in arrived : c[r].st = "present" /\ scan.list[r] # 0}
      BY <1>1, <1>2, <2>1, <2>2
    <3>2. QED
      BY <2>1, <2>2, <3>1 DEF Moved
  <2>4. QED
    BY <2>3 DEF f
<1>4. Pending(q, f)
  BY <1>3 DEF Found, f
<1>5. obs[q].seen = f /\ obs[q].age # Stable
  <2>1. /\ obs[q].seen = scan.list[q]
        /\ obs[q].age = Stable => loc[q].st = "present" /\ loc[q].file = scan.list[q]
    BY <1>1, <1>2 DEF Untaken, SeenAreRegistered
  <2>2. ~(loc[q].st = "present" /\ loc[q].file = f)
    BY <1>4 DEF Pending, Current
  <2>3. QED
    BY <1>2, <2>1, <2>2
<1>6. QED
  BY <1>4, <1>5 DEF Found, Timely, f

LEMMA MovesConclude == ASSUME TypeInv, Untaken, Conclude, config = scan.cfg PROVE Untaken'
<1> DEFINE c == Consumed(loc, marked)
<1>1. /\ scan.pc = "files" /\ scan.todo = {} /\ scan.whole
      /\ loc' = Settled(Judged(c))
      /\ shown' = (shown \/ loc'[To].file = Output)
      /\ marked' = op.ev /\ arrived' = {}
      /\ UNCHANGED <<obs, active, file, config, op, spent>>
  BY DEF Conclude, Shows
<1>2. scan'.pc \notin {"open", "files"} /\ \A p \in Places : scan'.list[p] = 0
  <2>1. \/ scan' = Idle
        \/ scan' = [Idle EXCEPT !.pc = "submit", !.gen = scan.gen, !.unsure = scan.unsure]
    BY DEF Conclude
  <2>2. CASE scan' = Idle
    BY <2>2 DEF Idle
  <2>3. CASE scan' = [Idle EXCEPT !.pc = "submit", !.gen = scan.gen, !.unsure = scan.unsure]
    <3>1. scan'.pc = "submit" /\ scan'.list = [p \in Places |-> 0]
      BY <2>3 DEF Idle
    <3>2. QED
      BY <3>1
  <2>4. QED
    BY <2>1, <2>2, <2>3
<1>3. /\ From \in Places /\ To \in Places /\ From # To /\ Output # 0
      /\ Row("present", Output, 0).st = "present" /\ Row("present", Output, 0).file = Output
      /\ Row("present", Output, 0).age = 0
      /\ active = config /\ marked <= op.ev
  BY <1>1, Bounds, Numbers DEF Output, Row, Untaken, ScansAreCurrent
<1>4. loc \in Locations /\ c \in Locations
  BY ConsumedKeeps DEF KeepsRows, TypeInv, TypeOK, Locations
<1>5. /\ Consumes(loc, c)
      /\ op.ev > marked /\ op.ev = 3 /\ file[From] = 0 /\ loc[From].st \in Current
         /\ loc[From].file # Output => c[From].st = "retired"
  BY <1>4, ConsumedRows
<1> HIDE DEF c
<1>6. ASSUME NEW p \in Places
      PROVE  /\ loc'[p].file = c[p].file
             /\ loc'[p].st \in Current => c[p].st \in Current
             /\ loc'[p].st = "present" => loc'[p] = c[p] /\ ~Absent(c, p)
             /\ loc'[p].st = "missing" =>
                  \/ ~Absent(c, p) /\ loc'[p] = c[p]
                  \/ Absent(c, p) /\ loc'[p].age = c[p].age /\ Version(c[p].file) \notin Moved(c)
  <2>1. PICK n : n = Settled(Judged(c))
    OBVIOUS
  <2>2. QED
    BY <1>1, <1>4, <2>1, ConcludedRows
<1>7. ASSUME NEW p \in Places
      PROVE  \/ c[p] = loc[p]
             \/ c[p].st = "retired" /\ c[p].file = loc[p].file /\ file[p] = 0
             \/ /\ p = To /\ c[p].st = "present" /\ c[p].file = Output /\ c[p].age = 0
                /\ op.ev >= 2 /\ ~shown
  BY <1>3, <1>5 DEF Consumes, Known
<1>8. ~Unheard
  BY <1>1 DEF Untaken, UnheardIsFound
<1>9. FilesAreDistinct' /\ SourceIsIts' /\ ScansAreCurrent' /\ SeenAreRegistered'
  <2>1. op.ev < 3 => marked < 3
    BY Numbers
  <2>2. QED
    BY <1>1, <1>2, <2>1 DEF Untaken, FilesAreDistinct, Distinct, SourceIsIts, ScansAreCurrent, SeenAreRegistered
<1>10. RowsAreTrue'
  <2>1. \A p \in Places : /\ c[p].st \in Current => c[p].file # 0
                          /\ c[p].st = "present" => c[p].age = 0
    BY <1>3, <1>7 DEF Untaken, RowsAreTrue, Current
  <2>2. QED
    BY <1>6, <2>1 DEF RowsAreTrue
<1>11. ~shown' => ~shown /\ \A p \in Places : loc'[p].file # Output
  <2>1. SUFFICES ASSUME ~shown' PROVE ~shown /\ \A p \in Places : loc'[p].file # Output
    OBVIOUS
  <2>2. ~shown /\ loc'[To].file # Output
    BY <1>1, <2>1
  <2>3. QED
    BY <1>6, <1>7, <2>2 DEF Untaken, OutputIsNew
<1>12. OutputIsNew'
  <2>1. op.ev < 3 => loc'[From].file # Output
    <3>1. op.ev < 3 => marked < 3
      BY Numbers
    <3>2. loc'[From].file = loc[From].file
      BY <1>3, <1>6, <1>7
    <3>3. QED
      BY <3>1, <3>2 DEF Untaken, OutputIsNew
  <2>2. op.ev < 3 => file[From] # Output
    BY Numbers DEF Untaken, OutputIsNew
  <2>3. QED
    BY <1>1, <1>2, <1>3, <1>11, <2>1, <2>2 DEF Untaken, OutputIsNew
<1>13. SourceIsAlone'
  <2> SUFFICES ASSUME op.ev \in {1, 2}, ~op.cut, op.src # 0, file[From] = op.src,
                      NEW p \in Places \ {From}, loc'[p].st \in Followed, file[p] = 0
               PROVE  loc'[p].file # op.src
    BY <1>1 DEF SourceIsAlone
  <2>1. c[p].st \in Followed
    <3>1. Absent(c, p) => c[p].st \in Followed
      BY DEF Absent, Followed
    <3>2. QED
      BY <1>6, <3>1 DEF Followed
  <2>2. c[p] = loc[p] \/ c[p].file = Output
    BY <1>7, <2>1 DEF Followed
  <2>3. loc[p].st \in Followed => loc[p].file # op.src
    BY DEF Untaken, SourceIsAlone
  <2>4. QED
    BY <1>6, <2>1, <2>2, <2>3 DEF Untaken, OutputIsNew
(* A row that is astray was so before, and its file is still on its way.   *)
<1>14. ASSUME NEW p \in Places, Gone(p)' PROVE \E q \in Places : Found(p, q)'
  <2>1. /\ p \in Roots[config] /\ file[p] = 0 /\ loc'[p].st \in Followed
        /\ ~(p = From /\ op.cut /\ op.ev < 3)
    BY <1>1, <1>14 DEF Gone, Cut
  <2>2. c[p].st \in Followed
    <3>1. Absent(c, p) => c[p].st \in Followed
      BY DEF Absent, Followed
    <3>2. QED
      BY <1>6, <2>1, <3>1 DEF Followed
  <2>3. c[p] = loc[p]
    <3>1. CASE p = To /\ op.ev >= 2 /\ ~shown
      BY <1>3, <1>8, <2>1, <3>1 DEF Unheard
    <3>2. QED
      BY <1>7, <2>2, <3>1 DEF Followed
  <2>4. ~Cut(p)
    <3> SUFFICES ASSUME p = From, op.cut, marked < 3 PROVE FALSE
      BY DEF Cut
    <3>1. op.ev = 3 /\ op.ev > marked
      BY <2>1, Numbers
    <3>2. loc[From].file # Output
      BY DEF Untaken, OutputIsNew
    <3>3. QED
      BY <1>5, <2>1, <2>2, <2>3, <3>1, <3>2 DEF Followed, Current
  <2>5. Gone(p)
    BY <2>1, <2>2, <2>3, <2>4 DEF Gone
  <2>6. PICK f : f = loc[p].file
    OBVIOUS
  <2>7. f # 0 /\ loc'[p].file = f /\ (~shown => f # Output)
    BY <1>6, <2>2, <2>3, <2>6 DEF Untaken, RowsAreTrue, OutputIsNew, Followed, Current
  <2>8. PICK q \in Places : Found(p, q)
    BY <2>5 DEF Untaken, GoneAreFound
  <2>9. ASSUME Pending(q, f) PROVE Pending(q, f)'
    <3>1. q \in Roots[config] /\ file[q] = f
      BY <2>9 DEF Pending
    <3>2. c[q].st \notin Current \/ Version(c[q].file) # Version(f)
      BY <1>7, <2>7, <2>9, <3>1 DEF Pending, Version
    <3>3. QED
      BY <1>1, <1>6, <3>1, <3>2 DEF Pending
  <2>10. Pending(q, f)' => Pending(q, loc[p].file)'
    BY <2>7 DEF Pending
  <2>11. Listed(p, q, loc[p].file)'
    BY <1>2 DEF Listed, Running
  <2>12. CASE scan.list[p] # 0
    <3>1. Pending(q, f)
      BY <1>1, <2>6, <2>8, <2>12 DEF Found, Listed, Running
    <3>2. loc[p].st # "missing"
      BY <1>1, <2>5, <2>12 DEF Untaken, MissingAreKnown
    <3>3. loc'[p].st # "missing"
      BY <1>6, <2>3, <2>12, <3>2 DEF Absent
    <3>4. Found(p, q)'
      BY <2>9, <2>10, <2>11, <3>1, <3>3 DEF Found
    <3>5. QED
      BY <3>4
  <2>13. CASE scan.list[p] = 0
    <3>1. Absent(c, p)
      BY <2>1, <2>2, <2>13 DEF Absent, Followed
    <3>2. loc'[p].st = "missing" /\ loc'[p].age = loc[p].age /\ Version(loc[p].file) \notin Moved(c)
      BY <1>6, <2>1, <2>3, <3>1 DEF Followed
    <3>3. /\ Pending(q, f) /\ obs[q].seen = f /\ obs[q].age # Stable
          /\ loc[p].st = "missing" => loc[p].age <= obs[q].age
      BY <1>1, <1>4, <1>5, <2>5, <2>6, <2>8, <2>13, <3>2, AbsentIs
    <3>4. loc'[p].age <= obs[q].age
      <4>1. CASE loc[p].st = "missing"
        BY <3>2, <3>3, <4>1
      <4>2. CASE loc[p].st = "present"
        <5>1. loc[p].age = 0 /\ obs[q].age \in Nat
          BY <4>2, Numbers, Bounds DEF Untaken, RowsAreTrue
        <5>2. QED
          BY <3>2, <5>1
      <4>3. QED
        BY <2>2, <2>3, <4>1, <4>2 DEF Followed
    <3>5. Timely(p, q)'
      BY <1>1, <2>7, <3>3, <3>4 DEF Timely
    <3>6. Found(p, q)'
      BY <2>9, <2>10, <2>11, <3>3, <3>5 DEF Found
    <3>7. QED
      BY <3>6
  <2>14. QED
    BY <2>12, <2>13
<1>15. GoneAreFound'
  BY <1>14 DEF GoneAreFound
<1>16. MissingAreKnown'
  <2>1. ASSUME NEW p \in Places, loc'[p].st = "missing" PROVE p \in Roots[config]
    <3>1. CASE Absent(c, p)
      BY <3>1 DEF Absent
    <3>2. CASE loc'[p] = c[p]
      BY <1>3, <1>7, <2>1, <3>2 DEF Untaken, MissingAreKnown
    <3>3. QED
      BY <1>6, <2>1, <3>1, <3>2
  <2>2. QED
    BY <1>1, <1>2, <1>3, <2>1 DEF MissingAreKnown
<1>17. UnheardIsFound'
  BY <1>1, <1>8, <1>11 DEF UnheardIsFound, Unheard
<1>18. QED
  BY <1>9, <1>10, <1>12, <1>13, <1>15, <1>16, <1>17 DEF Untaken

LEMMA MovesStep == TypeInv /\ MovesInv /\ [Next]_vars => MovesInv'
<1> SUFFICES ASSUME TypeInv, Untaken, [Next]_vars, ~took', ~hurried' PROVE Untaken'
  BY DEF MovesInv, Next, Begin, Unreadable, Open, File, Conclude, Incomplete, Submit, Abandon, Crash,
     Compress, Tick, Person, Put, Take, Rename, Tell, Act, Reconfigure, Overflow, vars, people
<1>i. Idle.pc \notin {"open", "files"} /\ \A p \in Places : Idle.list[p] = 0
  BY DEF Idle
<1>n. spent.acts \in Nat
  BY Numbers
<1>s. \A s : spent' = [spent EXCEPT !.faults = s] => spent'.acts = spent.acts
  BY DEF TypeInv, TypeOK
<1>1. CASE Begin
  BY <1>1, MovesBegin
<1>2. CASE Open \/ Conclude
  <2>1. CASE config = scan.cfg
    BY <1>2, <2>1, MovesOpen, MovesConclude
  <2>2. CASE config # scan.cfg
    <3>1. /\ UNCHANGED <<file, obs, loc, active, marked, arrived, shown, config, op, spent>>
          /\ scan' = Idle
      BY <1>2, <2>2 DEF Open, Conclude, Abandon, rows
    <3>2. QED
      BY <1>i, <1>n, <3>1, MovesRest
  <2>3. QED
    BY <2>1, <2>2
<1>3. CASE \E p \in Places : File(p)
  BY <1>3, MovesFile
<1>4. CASE Incomplete \/ Submit
  <2>1. /\ UNCHANGED <<file, obs, loc, active, marked, arrived, shown, config, op, spent>>
        /\ scan' = Idle
    BY <1>4 DEF Incomplete, Submit, Abandon, rows
  <2>2. QED
    BY <1>i, <1>n, <2>1, MovesRest
<1>5. CASE Crash \/ Unreadable \/ Overflow
  <2>1. /\ UNCHANGED <<file, obs, loc, active, marked, arrived, shown, config, op>>
        /\ scan' = scan \/ scan' = Idle
    BY <1>5 DEF Crash, Unreadable, Overflow, rows
  <2>2. spent'.acts = spent.acts
    BY <1>5, <1>s DEF Crash, Unreadable, Overflow
  <2>3. QED
    BY <1>i, <1>n, <2>1, <2>2, MovesRest
<1>6. CASE Compress
  BY <1>6, MovesPlanned, MovesPublish, MovesUnlink, MovesClean DEF Compress
<1>7. CASE Tick
  BY <1>7, MovesTick
<1>8. CASE \E v \in {"like", "dislike"} : Tell(v)
  <2>1. /\ UNCHANGED <<file, obs, loc, active, marked, arrived, shown, config, op, scan>>
        /\ spent' = [spent EXCEPT !.acts = spent.acts + 1]
    BY <1>8 DEF Tell, Act
  <2>2. spent'.acts = spent.acts + 1
    BY <2>1 DEF TypeInv, TypeOK
  <2>3. QED
    BY <1>n, <2>1, <2>2, MovesRest
<1>9. CASE \E p \in Places : Put(p) \/ Take(p) \/ \E q \in Places : Rename(p, q)
  BY <1>9, MovesPut, MovesRename DEF Take
<1>10. CASE Reconfigure
  BY <1>10, MovesReconfigure
<1>11. CASE UNCHANGED vars
  BY <1>11, <1>n, MovesRest DEF vars, rows
<1>12. QED
  BY <1>1, <1>2, <1>3, <1>4, <1>5, <1>6, <1>7, <1>8, <1>9, <1>10, <1>11 DEF Next, Person

(***************************************************************************)
(* A rejection needs a row that has been missing for long enough.  Its     *)
(* file is gone, or something stands there again; nobody took it, so it is *)
(* elsewhere, and stable for as long: the scan that judges the row has     *)
(* registered the file as an arrival.                                      *)
(***************************************************************************)
LEMMA RejectionsAreOfTaken ==
    ASSUME TypeInv, Untaken, scan.pc = "files", scan.todo = {}, scan.whole, config = scan.cfg,
           NEW v, Rejects(Judged(Consumed(loc, marked)), v)
    PROVE  Back
<1> DEFINE c == Consumed(loc, marked)
           l == Judged(c)
<1>1. loc \in Locations /\ c \in Locations
  BY ConsumedKeeps DEF KeepsRows, TypeInv, TypeOK, Locations
<1>2. /\ Consumes(loc, c)
      /\ op.ev > marked /\ op.ev = 3 /\ file[From] = 0 /\ loc[From].st \in Current
         /\ loc[From].file # Output => c[From].st = "retired"
  BY <1>1, ConsumedRows
<1>3. PICK p \in Places : l[p].st = "missing" /\ l[p].age = Missing
  BY DEF Rejects, Mature, Lost
<1>4. ~Undecided
  BY DEF Rejects
<1>5. \/ ~Absent(c, p) /\ l[p] = c[p]
      \/ Absent(c, p) /\ l[p].age = c[p].age /\ Version(c[p].file) \notin Moved(c)
  BY <1>1, <1>3, JudgedRows
<1> HIDE DEF l, c
<1>6. c[p].st \in Followed /\ c[p].age = Missing
  BY <1>3, <1>5 DEF Absent, Followed
<1>7. c[p] = loc[p]
  <2>1. Row("present", Output, 0).age = 0 /\ Missing # 0
    BY Bounds DEF Row
  <2>2. QED
    BY <1>2, <1>6, <2>1 DEF Consumes, Followed
<1>8. loc[p].st = "missing"
  <2>1. Missing # 0
    BY Bounds
  <2>2. QED
    BY <1>6, <1>7, <2>1 DEF Untaken, RowsAreTrue, Followed
<1>9. SUFFICES ASSUME file[p] = 0 PROVE FALSE
  BY <1>8 DEF Back
<1>10. active = config /\ p \in Roots[config]
  BY <1>8 DEF Untaken, ScansAreCurrent, MissingAreKnown
<1>11. ~Cut(p)
  <2> SUFFICES ASSUME p = From, op.cut, marked < 3 PROVE FALSE
    BY DEF Cut
  <2>1. op.ev = 3 /\ op.ev > marked
    BY <1>4, Numbers DEF Undecided, Untaken, SourceIsIts
  <2>2. loc[From].file # Output /\ file[From] = 0
    BY DEF Untaken, OutputIsNew, SourceIsIts
  <2>3. QED
    BY <1>2, <1>7, <1>8, <2>1, <2>2 DEF Current
<1>12. Gone(p)
  BY <1>8, <1>9, <1>10, <1>11 DEF Gone, Followed
<1>13. scan.list[p] = 0
  BY <1>8, <1>12 DEF Untaken, MissingAreKnown
<1>14. Version(loc[p].file) \notin Moved(c)
  BY <1>5, <1>7, <1>8, <1>10, <1>13 DEF Absent
<1>15. PICK q \in Places : Found(p, q)
  BY <1>12 DEF Untaken, GoneAreFound
<1>16. obs[q].age # Stable /\ loc[p].age <= obs[q].age
  BY <1>1, <1>2, <1>8, <1>12, <1>13, <1>14, <1>15, AbsentIs
<1>17. obs[q].age \in 0 .. Stable
  BY Numbers
<1>18. QED
  BY <1>6, <1>7, <1>16, <1>17, Bounds

(* While every move had settled before the next one, before its file was   *)
(* compressed and before the configuration changed, a record of a deletion *)
(* is written only after a person took a file away, or while a file stands *)
(* where a row is missing: for any places, directories, thresholds, moves, *)
(* faults and reconfigurations, and at every point at which a crash can    *)
(* cut the conclusion (reconcile and consume_lineage of tracking.py, the   *)
(* control round of supervisor.py).                                        *)
THEOREM DeletionsAreRecorded == Spec => SettledMovesAreKept
<1>1. TypeInv /\ MovesInv /\ [Next]_vars => [journal' \subseteq journal \/ took \/ hurried \/ Back]_vars
  <2> SUFFICES ASSUME TypeInv, Untaken, Next, ~(journal' \subseteq journal) PROVE Back
    BY DEF MovesInv
  <2>1. CASE Conclude
    <3>1. config = scan.cfg /\ scan.pc = "files" /\ scan.todo = {} /\ scan.whole
      BY <2>1 DEF Conclude, Abandon
    <3>2. Rejects(Judged(Consumed(loc, marked)), IF Credit(marked) THEN "like" ELSE label)
      BY <2>1, <3>1 DEF Conclude
    <3>3. QED
      BY <3>1, <3>2, RejectionsAreOfTaken
  <2>2. CASE Crash
    <3>1. /\ config = scan.cfg /\ scan.pc = "files" /\ scan.todo = {} /\ scan.whole
          /\ Rejects(Judged(Consumed(loc, marked)), IF Credit(marked) THEN "like" ELSE label)
      BY <2>2 DEF Crash
    <3>2. QED
      BY <3>1, RejectionsAreOfTaken
  <2>3. CASE Begin \/ Unreadable
    BY <2>3, ReplayedIs DEF Begin, Unreadable
  <2>4. CASE ~(Conclude \/ Crash \/ Begin \/ Unreadable)
    BY <2>4 DEF Next, Open, File, Incomplete, Submit, Abandon, Compress, Tick, Person, Put, Take, Rename,
       Tell, Reconfigure, Overflow
  <2>5. QED
    BY <2>1, <2>2, <2>3, <2>4
<1>2. QED
  BY <1>1, TypeStart, TypeStep, MovesStart, MovesStep, PTL DEF Spec, SettledMovesAreKept
=============================================================================
