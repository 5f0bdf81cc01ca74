----------------------------- MODULE MCEventBus -----------------------------
(* Five events at three instants: a bar at each and a reaction at the first two. *)
EXTENDS EventBus

MCEvents == 1..5
MCTime == [e \in MCEvents |-> (e + 1) \div 2]
MCMarketData == {1, 3, 5}

=============================================================================
