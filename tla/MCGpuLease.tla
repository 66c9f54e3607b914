----------------------------- MODULE MCGpuLease -----------------------------
(***************************************************************************)
(* Small instances of GpuLease: a trainer, an encoder and two extractions. *)
(***************************************************************************)
EXTENDS GpuLease

CONSTANTS trainer, encoder, extract1, extract2, server1, server2

All == {trainer, encoder, extract1, extract2}

Kinds == [r \in Request |-> IF r = trainer THEN "train"
                            ELSE IF r = encoder THEN "compression" ELSE "extract"]

(* Two server processes share the device, or one owns every request.       *)
TwoHomes == [r \in Request |-> IF r \in {trainer, extract1} THEN server1 ELSE server2]
OneHome == [r \in Request |-> server1]

One == [r \in Request |-> 1]

(* Peaks for the run that is about the queue, and for the one where an     *)
(* extraction would take more than the card has.                          *)
Zero == [r \in Request |-> 0]
OneGrows == [r \in Request |-> IF r = extract1 THEN 4 ELSE 0]
=============================================================================
