------------------------- MODULE MCIdempotencyStore -------------------------
(***************************************************************************)
(* The paper order service's store, with the endpoint thread that claims   *)
(* and refreshes (pending and submit hold the service lock) and the        *)
(* thread that resolves; and the stores of two order managers, which share *)
(* their keys.                                                             *)
(***************************************************************************)
EXTENDS IdempotencyStore

CONSTANTS api, oms1, oms2, t1, t2, t3, t4, k1, k2

MCKeys == {k1, k2}
MCStores == {api, oms1, oms2}
MCThreads == {t1, t2, t3, t4}
MCStoreOf == [t \in MCThreads |-> IF t = t3 THEN oms1 ELSE IF t = t4 THEN oms2 ELSE api]
MCClaimsOf == [s \in MCStores |-> IF s = api THEN {k1} ELSE {k2}]
MCRefreshers == {t1}

=============================================================================
