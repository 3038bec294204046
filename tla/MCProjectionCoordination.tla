---------------------- MODULE MCProjectionCoordination ----------------------
(* Instances of ProjectionCoordination for TLC. *)
EXTENDS ProjectionCoordination

CONSTANTS l1, l2, l3, r1, r2, r3
=============================================================================
