------------------------- MODULE MCImageCompression -------------------------
(***************************************************************************)
(* Small instances of ImageCompression: two sources, each of which takes   *)
(* the name planned for the other once its real image format is known.     *)
(***************************************************************************)
EXTENDS ImageCompression

CONSTANTS jpg, png

TwoNames == {jpg, png}
MappedNames == [m \in Mission |-> IF m = 1 THEN jpg ELSE png]
RealNames == [m \in Mission |-> IF m = 1 THEN png ELSE jpg]
Everybody == Deeds
Nobody == {}
=============================================================================
