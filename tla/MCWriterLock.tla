---------------------------- MODULE MCWriterLock ----------------------------
(* Two processes on one host and one on another. *)
EXTENDS WriterLock

CONSTANTS p1, p2, p3

MCHosts == [p \in Processes |-> IF p = p3 THEN "host2" ELSE "host1"]

=============================================================================
