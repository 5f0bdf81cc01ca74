------------------------------ MODULE EventBus ------------------------------
(***************************************************************************)
(* The event bus of the streaming engine                                   *)
(* (src/quantagent/streaming/bus.py, domain/timeline.py).                  *)
(*                                                                         *)
(* An event is its rank in MarketEvent.sort_key order, which is total.  A  *)
(* source publishes between drains, a consumer while a drain has handed it *)
(* an event.  A checkpoint may be taken at any time; the process may end   *)
(* at any time after one, however far the bus has gone since, and the run  *)
(* is resumed on a fresh bus, to which the source publishes again.         *)
(***************************************************************************)
EXTENDS Integers, Sequences, Functions

CONSTANTS
    Events,         \* ranks of the events there are
    Time,           \* the event_time of each
    MarketData,     \* events of a kind in MARKET_KINDS
    MaxResumes      \* bound: fresh buses

ASSUME EventsAssumption == Events \subseteq Nat \ {0} /\ MarketData \subseteq Events
ASSUME TimeAssumption ==
    /\ Time \in [Events -> Nat]
    /\ \A e, f \in Events : e < f => Time[e] <= Time[f]
ASSUME BoundAssumption == MaxResumes \in Nat

VARIABLES
    heap,       \* _heap
    seen,       \* _seen
    last,       \* _last, 0 before the first event
    digest,     \* what _digest chains, in order
    frontier,   \* decision_time of _frontier, -1 before there is one
    draining,   \* _draining
    delivered,  \* what the consumers of this bus were given
    base,       \* history: the digest this bus adopted, <<>> for the first
    saved,      \* the last checkpoint: <<>> or <<digest, frontier>>
    resumes

vars == <<heap, seen, last, digest, frontier, draining, delivered, base, saved, resumes>>

\* Buffers and logs hold events.
TypeOK ==
    /\ heap \subseteq seen /\ seen \subseteq Events
    /\ last \in Events \cup {0}
    /\ digest \in Seq(Events) /\ delivered \in Seq(Events) /\ base \in Seq(Events)
    /\ frontier \in Nat \cup {-1}
    /\ draining \in BOOLEAN
    /\ saved # <<>> => saved \in Seq(Events) \X (Nat \cup {-1})
    /\ resumes \in 0..MaxResumes

Init ==
    /\ heap = {} /\ seen = {} /\ last = 0 /\ digest = <<>> /\ frontier = -1
    /\ draining = FALSE /\ delivered = <<>> /\ base = <<>> /\ saved = <<>> /\ resumes = 0

-----------------------------------------------------------------------------

\* (mutant) An identical event is taken for a second occurrence.
AdmitsAgain(e) == ~(draining /\ e \in MarketData) /\ ~(last # 0 /\ e < last)

\* publish refuses a redelivery, market data of a consumer, and a late arrival.
Admits(e) ==
    /\ e \notin seen
    /\ ~(draining /\ e \in MarketData)
    /\ ~(last # 0 /\ e < last)

Publish(e) ==
    /\ Admits(e)
    /\ seen' = seen \cup {e}
    /\ heap' = heap \cup {e}
    /\ UNCHANGED <<last, digest, frontier, draining, delivered, base, saved, resumes>>

NextUp(e) == e \in heap /\ \A f \in heap : e <= f

\* (mutant) The buffer is popped by instant, and of its events one is handled.
RestByInstant(e) == {f \in heap : Time[f] # Time[e]}

Rest(e) == heap \ {e}

\* One turn of drain: pop, _emit, hand the event to the consumer.  The consumer of
\* the turn before has returned.
Emit(e) ==
    /\ NextUp(e)
    /\ heap' = Rest(e)
    /\ last' = e
    /\ digest' = Append(digest, e)
    /\ frontier' = Time[e]
    /\ Time[e] >= frontier
    /\ draining' = TRUE
    /\ delivered' = Append(delivered, e)
    /\ UNCHANGED <<seen, base, saved, resumes>>

\* advanced_to refuses to move back: the event is popped and in the digest, and no
\* consumer sees it.
EmitRaises(e) ==
    /\ NextUp(e)
    /\ Time[e] < frontier
    /\ heap' = Rest(e)
    /\ last' = e
    /\ digest' = Append(digest, e)
    /\ draining' = FALSE
    /\ UNCHANGED <<seen, frontier, delivered, base, saved, resumes>>

\* The consumer returns to a drain that reached its limit or an empty heap, or gave
\* the drain up and its generator was closed.
Return ==
    /\ draining
    /\ draining' = FALSE
    /\ UNCHANGED <<heap, seen, last, digest, frontier, delivered, base, saved, resumes>>

\* A read of the bus, which nothing keeps from being taken in a consumer's hands.
Checkpoint ==
    /\ saved' = <<digest, frontier>>
    /\ UNCHANGED <<heap, seen, last, digest, frontier, draining, delivered, base, resumes>>

\* (mutant) The frontier is not adopted.
AdoptDigestOnly == digest' = saved[1] /\ frontier' = -1

Adopt == digest' = saved[1] /\ frontier' = saved[2]

\* The process ends, wherever it has come to, and resume_from starts again from the
\* checkpoint on a fresh bus.
Resume ==
    /\ saved # <<>> /\ resumes < MaxResumes
    /\ heap' = {} /\ seen' = {} /\ last' = 0 /\ draining' = FALSE
    /\ Adopt
    /\ base' = saved[1] /\ delivered' = <<>>
    /\ resumes' = resumes + 1
    /\ UNCHANGED saved

Next ==
    \/ \E e \in Events : Publish(e) \/ Emit(e) \/ EmitRaises(e)
    \/ Return \/ Checkpoint \/ Resume

Spec == Init /\ [][Next]_vars

\* run drives the drain until the heap is empty.
FairSpec == Spec /\ WF_vars(\E e \in Events : Emit(e))

-----------------------------------------------------------------------------
(* Properties *)

Ascending(s) == \A i, j \in DOMAIN s : i < j => s[i] < s[j]

\* The source sent a resumed bus something that sorts before its checkpoint, which
\* neither _seen nor _last of a fresh bus can tell.
Rewound == \E e \in seen : \E f \in Range(base) : e <= f

\* Whatever the order of arrival the consumers of a bus get its events in the total
\* order, each once.  A bus resumed from any checkpoint, of a run that had gone any
\* distance beyond it, extends that checkpoint by exactly what it hands out, and the
\* digest that is to prove it the same run stays the total order, unless its source
\* rewound.  The events after the checkpoint are handed out once more (drain;
\* DuplicateEvent, LateArrival, BusCheckpoint).
EmittedInOrder ==
    /\ Ascending(delivered)
    /\ ~Rewound => /\ digest = base \o delivered
                   /\ Ascending(base) => Ascending(digest)

\* The frontier is never behind anything the digest chains, through crashes at any
\* distance from the checkpoint: even when the source rewinds, no consumer of a resumed
\* bus is handed an event of an instant before one the run it resumes had been decided
\* at (advanced_to, resume_from).
FrontierCovers ==
    /\ \A f \in Range(digest) : Time[f] <= frontier
    /\ \A d \in Range(delivered), f \in Range(base) : Time[f] <= Time[d]

\* An event a bus has admitted reaches its consumers, unless the bus is given up for a
\* fresh one or its source rewound (drain).
AdmittedIsEmitted ==
    \A e \in Events, r \in 0..MaxResumes :
        e \in heap /\ resumes = r ~> e \in Range(delivered) \/ resumes # r \/ Rewound

=============================================================================
