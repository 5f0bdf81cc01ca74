-------------------------- MODULE AppendOnlyLedger --------------------------
(***************************************************************************)
(* What a canonical ledger promises its readers: a log that only grows, by *)
(* one event it does not hold yet, until a writer is cut off in it.  From  *)
(* then on it is torn, which every reader can see, and its content stays   *)
(* as it is; what is acknowledged to a torn log is lost.  The one event a  *)
(* log may lose is its last, never acknowledged, and losing it tears it.   *)
(***************************************************************************)
EXTENDS Naturals, Sequences

CONSTANT Events

VARIABLES
    log,        \* events a reader finds
    torn,       \* a reader sees that the log was cut off
    acked       \* events a writer was told are recorded

vars == <<log, torn, acked>>

Held == {log[i] : i \in DOMAIN log}

Init == log = <<>> /\ torn = FALSE /\ acked = {}

\* The event becomes durable, and its writer learns of it or does not.
Record(e) ==
    /\ ~torn /\ e \notin Held
    /\ log' = Append(log, e)
    /\ acked' \in {acked, acked \cup {e}}
    /\ UNCHANGED torn

\* A writer is cut off: nothing readable is added.
Cut ==
    /\ ~torn
    /\ torn' = TRUE
    /\ UNCHANGED <<log, acked>>

\* A record is glued to the last one, which was never finished: both are lost.
Glue(e) ==
    /\ ~torn /\ e \notin Held
    /\ log # <<>> /\ log[Len(log)] \notin acked
    /\ log' = SubSeq(log, 1, Len(log) - 1)
    /\ torn' = TRUE
    /\ acked' \in {acked, acked \cup {e}}

\* A torn log takes no more events, although writers are told that it did.
Lost(e) ==
    /\ torn
    /\ acked' = acked \cup {e}
    /\ UNCHANGED <<log, torn>>

Next == Cut \/ \E e \in Events : Record(e) \/ Glue(e) \/ Lost(e)

Spec == Init /\ [][Next]_vars

=============================================================================
