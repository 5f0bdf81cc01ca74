------------------------------ MODULE ClaimOnce -----------------------------
(***************************************************************************)
(* What the idempotency store promises: a key is claimed once, for ever,   *)
(* and at most one caller is told that it won.  The winner may die before  *)
(* it is told.                                                             *)
(***************************************************************************)
EXTENDS Naturals

CONSTANT Keys

VARIABLES
    claimed,    \* keys with a durable claim
    granted     \* how many callers were told they won the key

Init == claimed = {} /\ granted = [k \in Keys |-> 0]

\* The claim becomes durable, and its caller learns of it or does not.
Claim(k) ==
    /\ k \notin claimed
    /\ claimed' = claimed \cup {k}
    /\ granted' \in {granted, [granted EXCEPT ![k] = @ + 1]}

Next == \E k \in Keys : Claim(k)

Spec == Init /\ [][Next]_<<claimed, granted>>

=============================================================================
