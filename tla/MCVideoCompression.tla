------------------------- MODULE MCVideoCompression -------------------------
(***************************************************************************)
(* VideoCompression with a history variable for TLC: whether anything but  *)
(* crashes has disturbed the job so far.  The configurations choose who    *)
(* interferes.                                                             *)
(***************************************************************************)
EXTENDS VideoCompression

VARIABLE calm  \* no step has failed that could succeed, and nobody interfered

Everybody == Deeds

Interferes(m) ==
    \/ latest[m] # 0 /\ latest'[m] # latest[m]
    \/ source[m] # 0 /\ source'[m] = 0
    \/ output'[m] # output[m]
Undisturbed ==
    /\ revision' = revision
    /\ pc' = pc => \A m \in Mission : ~Interferes(m)
    /\ pc # "idle" => \A m \in Mission :
          row[m].status # "failed" /\ row'[m].status = "failed" => pc \in Steps /\ ~Succeeds(pc, m)

Recorded(A) == A /\ calm' = (calm /\ Undisturbed)
CalmInit == Init /\ calm = TRUE
CalmNext == Recorded(Next)
CalmSpec == CalmInit /\ [][CalmNext]_<<vars, calm>>

(* The scheduler runs the job every 30 seconds and a crashed server is     *)
(* restarted.  Nobody is obliged to touch the files.                       *)
FairCalmSpec == CalmSpec /\ WF_<<vars, calm>>(Recorded(Job))

(* As long as no step fails that could succeed and nobody interferes,      *)
(* every source is compressed and removed, wherever the crashes struck: no *)
(* file a crash leaves behind makes a later attempt fail or a mission wait *)
(* for ever (compress_videos.py:270-418).                                  *)
CrashesNeverStrand ==
    \A m \in Mission : source[m] # 0 ~> (row[m].status = "completed" /\ source[m] = 0) \/ ~calm
=============================================================================
