-------------------------- MODULE MCFilterTracking --------------------------
(***************************************************************************)
(* Instances of FilterTracking for TLC: an unclassified place, the liked   *)
(* source and the liked directory its output goes to.                      *)
(***************************************************************************)
EXTENDS FilterTracking

CONSTANTS here, source, liked

(* The second set of directories leaves the unclassified place out.        *)
Narrower == <<{here, source, liked}, {source, liked}>>
MCRoots == [c \in 0 .. MaxFlips |-> Narrower[c + 1]]

(* One set of directories with every place.                                *)
Everywhere == [c \in 0 .. MaxFlips |-> Places]
=============================================================================
