---------------------------- MODULE MCFilterModels ----------------------------
(* FilterModels with one new video and two confirmed ones, one liked and   *)
(* one not.                                                                *)
EXTENDS FilterModels

MCAssets == 1 .. 3
MCFresh == {2}
MCConfirmed == [a \in MCAssets \ MCFresh |-> IF a = 1 THEN "like" ELSE "dislike"]
MCOpinions == {<<1, "like">>, <<1, "dislike">>, <<2, "like">>}
=============================================================================
