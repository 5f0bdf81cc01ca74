-------------------------- MODULE MCStreamingVenue --------------------------
(* A session of two instants, and one of four, enough to buy and then to order a sale. *)
EXTENDS StreamingVenue

MCSessionOf == [t \in 1..MaxTime |-> IF t <= 2 THEN 1 ELSE 2]

=============================================================================
