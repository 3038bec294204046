---------------------------- MODULE MCOutboxRelay ----------------------------
(* Instance of OutboxRelay for TLC. *)
EXTENDS OutboxRelay

CONSTANTS p1, p2, s1, s2

\* Two events of one stream, one of another: batches of two, and one row left over.
MCLength == [s \in Streams |-> IF s = s1 THEN 2 ELSE 1]
=============================================================================
