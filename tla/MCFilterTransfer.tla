-------------------------- MODULE MCFilterTransfer --------------------------
(***************************************************************************)
(* Instances of FilterTransfer for TLC.                                    *)
(***************************************************************************)
EXTENDS FilterTransfer

CONSTANTS t1, f1, control, like

MCVerdict == [m \in 0 .. MaxModel |-> like]
=============================================================================
