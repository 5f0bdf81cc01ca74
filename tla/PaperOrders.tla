---------------------------- MODULE PaperOrders -----------------------------
(***************************************************************************)
(* The paper-order endpoint (services/quant_api/services/paper_orders.py)  *)
(* with the guarded submission path of the order manager                   *)
(* (execution/order_manager.py), for requests of one symbol and session.   *)
(*                                                                         *)
(* submit only claims a request; drain executes the queue and may run in   *)
(* several threads of the API at once.  Durable are the request claims,    *)
(* the claims on economic intents and the canonical orders; the process    *)
(* forgets what it sent (_wire), its counters and the venue's book.        *)
(* A claim or a resolution is one step here: IdempotencyStore is its model.*)
(***************************************************************************)
EXTENDS Integers, Sequences, FiniteSets

CONSTANTS
    Requests,       \* [key, signal, quantity, price]: one record per idempotency key
    Workers,        \* threads that may run drain or recover
    Limit,          \* max_orders_per_symbol_per_day
    MaxFaults,      \* bound: deaths, calls that start while another runs, calls an exception ends
    Unquoted        \* requests the market source may refuse

ASSUME RequestsAssumption == IsFiniteSet(Requests) /\ \A r, s \in Requests : r.key = s.key => r = s
ASSUME LimitAssumption == {Limit, MaxFaults} \subseteq Nat
ASSUME WorkersAssumption == IsFiniteSet(Workers)
ASSUME UnquotedAssumption == Unquoted \subseteq Requests

VARIABLES
    queue,      \* claims.jsonl: requests in the order they were claimed
    req,        \* claims.jsonl: the state of each request and the order it reports
    owner,      \* claims.jsonl: the request that claimed each intent
    ord,        \* canonical.jsonl: status of the order opened for each request
    wire,       \* _wire: requests whose order this process holds a state for
    counts,     \* counts_today of the symbol, seeded lazily from the book
    worker,     \* the threads
    sent,       \* how often each order was ever handed to the venue
    restarts,   \* deaths so far
    overlaps,   \* history: calls of drain or recover that started beside another
    failures,   \* calls an exception ended
    missed      \* history: orders such a call submitted and did not count

vars == <<queue, req, owner, ord, wire, counts, worker, sent, restarts, overlaps, failures,
          missed>>
failed == <<failures, missed>>
disk == <<queue, req, owner, ord>>

-----------------------------------------------------------------------------

\* order_intent_key, with the run, symbol and session the same for all.
Intent(r) == <<r.signal, r.quantity>>
Intents == {Intent(r) : r \in Requests}

\* The order's status on the canonical ledger.
Reached == {"submitted", "working", "filled", "rejected", "cancelled"}
Statuses == Reached \cup {"none", "created", "approved", "risk_rejected"}
Unseeded == -1

\* A thread: the step it is at, the entry of the queue it works on, those it read and
\* has not come to yet, and the order it found.
Threads == [pc : {"idle", "check", "claim", "open", "risk", "submit", "venue", "answer",
                  "report", "ledger", "settle"},
            at : Nat, todo : SUBSET Nat, recover : BOOLEAN, found : SUBSET Requests]

\* Claims, orders and threads hold what the code stores in them.
TypeOK ==
    /\ queue \in Seq(Requests)
    /\ req \in [Requests -> [state : {"none", "queued", "executed", "interrupted"},
                             order : SUBSET Requests]]
    /\ owner \in [Intents -> SUBSET Requests]
    /\ ord \in [Requests -> Statuses]
    /\ wire \subseteq Requests
    /\ sent \in [Requests -> Nat]
    /\ counts \in Nat \cup {Unseeded} /\ overlaps \in Nat
    /\ failures \in Nat /\ missed \subseteq Requests
    /\ worker \in [Workers -> Threads]

Idle == [pc |-> "idle", at |-> 0, todo |-> {}, recover |-> FALSE, found |-> {}]

Init ==
    /\ queue = <<>>
    /\ req = [r \in Requests |-> [state |-> "none", order |-> {}]]
    /\ owner = [i \in Intents |-> {}]
    /\ ord = [r \in Requests |-> "none"]
    /\ sent = [r \in Requests |-> 0]
    /\ wire = {} /\ counts = Unseeded /\ restarts = 0 /\ overlaps = 0
    /\ failures = 0 /\ missed = {}
    /\ worker = [w \in Workers |-> Idle]

\* Deaths, overlapping calls and exceptions so far (Bound).
Faults == restarts + overlaps + failures

Goto(w, pc) == worker' = [worker EXCEPT ![w].pc = pc]
At(w, pc) == worker[w].pc = pc
Current(w) == queue[worker[w].at]

\* The call goes on to the earliest of the entries it has left, or ends.
Visit(w, entries, recover) ==
    IF entries = {} THEN worker' = [worker EXCEPT ![w] = Idle]
    ELSE \E i \in entries :
           /\ \A j \in entries : i <= j
           /\ worker' = [worker EXCEPT ![w] =
                [pc |-> IF recover THEN "ledger" ELSE "check", at |-> i,
                 todo |-> entries \ {i}, recover |-> recover, found |-> {}]]

NextEntry(w) == Visit(w, worker[w].todo, worker[w].recover)

-----------------------------------------------------------------------------
(* submit, drain *)

\* submit of a new key: the request is claimed and queued.  A known key is
\* answered from its claim and changes nothing.  (Bound: requests for one intent
\* come in the order of their keys, which are names.)
Submit(r) ==
    /\ req[r].state = "none"
    /\ \A s \in Requests : Intent(s) = Intent(r) /\ s.key < r.key => req[s].state # "none"
    /\ queue' = Append(queue, r)
    /\ req' = [req EXCEPT ![r].state = "queued"]
    /\ UNCHANGED <<owner, ord, wire, counts, worker, sent, restarts, overlaps, failed>>

IsQueued(r) == req[r].state = "queued"

\* (mutant) Every claimed request is taken for pending.
PendingAll == DOMAIN queue

Pending == {i \in DOMAIN queue : IsQueued(queue[i])}

\* Another call may be running.
Starts(w) ==
    LET others == {v \in Workers \ {w} : ~At(v, "idle")} IN
    /\ overlaps' = IF others = {} THEN overlaps ELSE overlaps + 1
    /\ Faults' <= MaxFaults

\* drain and recover read the queue once.
Drain(w) ==
    /\ At(w, "idle") /\ Pending # {}
    /\ Visit(w, Pending, FALSE)
    /\ UNCHANGED <<disk, wire, counts, sent, restarts, failed>>
    /\ Starts(w)

Recover(w) ==
    /\ At(w, "idle") /\ Pending # {}
    /\ Visit(w, Pending, TRUE)
    /\ UNCHANGED <<disk, wire, counts, sent, restarts, failed>>
    /\ Starts(w)

\* _execute: an entry settled meanwhile is skipped.
ExecuteSkips(w) ==
    /\ At(w, "check") /\ ~IsQueued(Current(w))
    /\ NextEntry(w)
    /\ UNCHANGED <<disk, wire, counts, sent, restarts, overlaps, failed>>

\* _execute: the market is looked up before anything is claimed.
ExecuteRefused(w) ==
    /\ At(w, "check") /\ IsQueued(Current(w)) /\ Current(w) \in Unquoted
    /\ req' = [req EXCEPT ![Current(w)] = [state |-> "executed", order |-> {}]]
    /\ NextEntry(w)
    /\ UNCHANGED <<queue, owner, ord, wire, counts, sent, restarts, overlaps, failed>>

ExecuteStarts(w) ==
    /\ At(w, "check") /\ IsQueued(Current(w))
    /\ Goto(w, "claim")
    /\ UNCHANGED <<disk, wire, counts, sent, restarts, overlaps, failed>>

-----------------------------------------------------------------------------
(* OrderManager._submit_all *)

\* (mutant) The claim is on the client order id, not on the intent.
ClaimPerRequest(w) ==
    LET r == Current(w) IN
    /\ At(w, "claim") /\ r \notin owner[Intent(r)]
    /\ owner' = [owner EXCEPT ![Intent(r)] = @ \cup {r}]
    /\ Goto(w, "open")
    /\ UNCHANGED <<queue, req, ord, wire, counts, sent, restarts, overlaps, failed>>

\* The first caller for an intent goes on.
ClaimGranted(w) ==
    LET r == Current(w) IN
    /\ At(w, "claim") /\ owner[Intent(r)] = {}
    /\ owner' = [owner EXCEPT ![Intent(r)] = {r}]
    /\ Goto(w, "open")
    /\ UNCHANGED <<queue, req, ord, wire, counts, sent, restarts, overlaps, failed>>

\* IdempotencyConflict leaves drain: the rest of the queue waits for another call.
ClaimConflict(w) ==
    LET r == Current(w) IN
    /\ At(w, "claim")
    /\ \E o \in owner[Intent(r)] : o.price # r.price
    /\ worker' = [worker EXCEPT ![w] = Idle]
    /\ UNCHANGED <<disk, wire, counts, sent, restarts, overlaps, failed>>

\* (mutant) A duplicate this process did not send is left to the one that did.
ClaimDuplicateWireOnly(w) ==
    LET r == Current(w) IN
    /\ At(w, "claim")
    /\ \E o \in owner[Intent(r)] :
         /\ o.price = r.price
         /\ worker' = [worker EXCEPT
              ![w] = IF o \in wire THEN [@ EXCEPT !.pc = "report", !.found = {o}] ELSE Idle]
    /\ UNCHANGED <<disk, wire, counts, sent, restarts, overlaps, failed>>

\* A duplicate is answered from _wire when this process sent the order, else from
\* the ledger.
ClaimDuplicate(w) ==
    LET r == Current(w) IN
    /\ At(w, "claim")
    /\ \E o \in owner[Intent(r)] :
         /\ o.price = r.price
         /\ worker' = [worker EXCEPT ![w].pc = IF o \in wire THEN "report" ELSE "ledger",
                                     ![w].found = IF o \in wire THEN {o} ELSE {}]
    /\ UNCHANGED <<disk, wire, counts, sent, restarts, overlaps, failed>>

\* _open_canonical_pending
OpenCanonical(w) ==
    /\ At(w, "open")
    /\ ord' = [ord EXCEPT ![Current(w)] = "created"]
    /\ Goto(w, "risk")
    /\ UNCHANGED <<queue, req, owner, wire, counts, sent, restarts, overlaps, failed>>

\* Orders of the session that reached SUBMITTED: what the counter is seeded with.
SubmittedOrders == {r \in Requests : ord[r] \in Reached}

\* (mutant) A restarted process counts from zero.
SymbolOrdersTodayFresh == IF counts = Unseeded THEN 0 ELSE counts

SymbolOrdersToday == IF counts = Unseeded THEN Cardinality(SubmittedOrders) ELSE counts

\* _pretrade_decision and RISK_APPROVED or RISK_REJECTED.
RiskDecides(w) ==
    /\ At(w, "risk")
    /\ counts' = SymbolOrdersToday
    /\ IF SymbolOrdersToday < Limit
       THEN /\ ord' = [ord EXCEPT ![Current(w)] = "approved"]
            /\ Goto(w, "submit") /\ UNCHANGED wire
       ELSE /\ ord' = [ord EXCEPT ![Current(w)] = "risk_rejected"]
            /\ wire' = wire \cup {Current(w)}
            /\ worker' = [worker EXCEPT ![w].pc = "report", ![w].found = {Current(w)}]
    /\ UNCHANGED <<queue, req, owner, sent, restarts, overlaps, failed>>

\* (mutant) The order is sent before SUBMITTED is on the ledger.
SubmitCanonicalLater(w) ==
    /\ At(w, "submit")
    /\ Goto(w, "venue")
    /\ UNCHANGED <<disk, wire, counts, sent, restarts, overlaps, failed>>

\* SUBMITTED on the ledger.
SubmitCanonical(w) ==
    /\ At(w, "submit")
    /\ ord' = [ord EXCEPT ![Current(w)] = "submitted"]
    /\ Goto(w, "venue")
    /\ UNCHANGED <<queue, req, owner, wire, counts, sent, restarts, overlaps, failed>>

\* broker.submit hands the order over.
Send(w) ==
    /\ At(w, "venue")
    /\ sent' = [sent EXCEPT ![Current(w)] = @ + 1]
    /\ Goto(w, "answer")
    /\ UNCHANGED <<disk, wire, counts, restarts, overlaps, failed>>

\* The venue refuses, rejects, fills or keeps the order; its events are on the
\* ledger, the intent's claim is resolved and the order counted.
VenueAnswers(w) ==
    /\ At(w, "answer")
    /\ \E s \in {"rejected", "filled", "working"} : ord' = [ord EXCEPT ![Current(w)] = s]
    /\ wire' = wire \cup {Current(w)}
    /\ counts' = counts + 1
    /\ worker' = [worker EXCEPT ![w].pc = "report", ![w].found = {Current(w)}]
    /\ UNCHANGED <<queue, req, owner, sent, restarts, overlaps, failed>>

\* An exception other than VenueRefusal leaves broker.submit, the recording of its answer
\* or claims.resolve, after the venue's events reached the ledger or before; the order is
\* not counted.
VenueRaises(w) ==
    /\ At(w, "answer") /\ Faults < MaxFaults
    /\ \E s \in {"submitted", "rejected", "filled", "working"} :
         ord' = [ord EXCEPT ![Current(w)] = s]
    /\ wire' \in {wire, wire \cup {Current(w)}}
    /\ worker' = [worker EXCEPT ![w] = Idle]
    /\ failures' = failures + 1 /\ missed' = missed \cup {Current(w)}
    /\ UNCHANGED <<queue, req, owner, counts, sent, restarts, overlaps>>

\* An exception at another step (an append or a claim that fails) ends the call.  The
\* risk check may have seeded the counter; an order already submitted is not counted.
Raises(w) ==
    /\ ~At(w, "idle") /\ ~At(w, "answer") /\ Faults < MaxFaults
    /\ worker' = [worker EXCEPT ![w] = Idle]
    /\ \/ counts' = counts
       \/ At(w, "risk") /\ counts' = SymbolOrdersToday
    /\ failures' = failures + 1
    /\ missed' = IF At(w, "venue") THEN missed \cup {Current(w)} ELSE missed
    /\ UNCHANGED <<disk, wire, sent, restarts, overlaps>>

-----------------------------------------------------------------------------
(* Settling a request *)

\* _execute records the state it got.
Report(w) ==
    /\ At(w, "report")
    /\ req' = [req EXCEPT ![Current(w)] = [state |-> "executed", order |-> worker[w].found]]
    /\ NextEntry(w)
    /\ UNCHANGED <<queue, owner, ord, wire, counts, sent, restarts, overlaps, failed>>

\* (mutant) An order counts only once the venue has answered.
MatchesAnswered(r) == {o \in Requests : o.signal = r.signal /\ ord[o] \in {"filled", "working"}}

\* Orders on the ledger with the signal id of the request (_expected_signal_id).
Matches(r) == {o \in Requests : o.signal = r.signal /\ ord[o] # "none"}

\* _resolve_from_ledger replays the ledger ...
ReadLedger(w) ==
    /\ At(w, "ledger")
    /\ \E found \in SUBSET Matches(Current(w)) :
         /\ Cardinality(found) = IF Matches(Current(w)) = {} THEN 0 ELSE 1
         /\ worker' = [worker EXCEPT ![w].pc = "settle", ![w].found = found]
    /\ UNCHANGED <<disk, wire, counts, sent, restarts, overlaps, failed>>

\* ... and then resolves the request, whatever its state has become.
SettleFromLedger(w) ==
    LET found == worker[w].found IN
    /\ At(w, "settle")
    /\ req' = [req EXCEPT ![Current(w)] =
                 [state |-> IF found = {} THEN "interrupted" ELSE "executed", order |-> found]]
    /\ NextEntry(w)
    /\ UNCHANGED <<queue, owner, ord, wire, counts, sent, restarts, overlaps, failed>>

\* cancel: only an order this process sent is still in a venue's book.
Cancel(r) ==
    /\ ord[r] = "working" /\ r \in wire
    /\ ord' = [ord EXCEPT ![r] = "cancelled"]
    /\ UNCHANGED <<queue, req, owner, wire, counts, worker, sent, restarts, overlaps, failed>>

Crash ==
    /\ Faults < MaxFaults /\ restarts' = restarts + 1
    /\ worker' = [w \in Workers |-> Idle]
    /\ wire' = {} /\ counts' = Unseeded
    /\ UNCHANGED <<disk, sent, overlaps, failed>>

-----------------------------------------------------------------------------

WorkerStep(w) ==
    \/ ExecuteSkips(w) \/ ExecuteRefused(w) \/ ExecuteStarts(w)
    \/ ClaimGranted(w) \/ ClaimConflict(w) \/ ClaimDuplicate(w)
    \/ OpenCanonical(w) \/ RiskDecides(w) \/ SubmitCanonical(w) \/ Send(w) \/ VenueAnswers(w)
    \/ Report(w) \/ ReadLedger(w) \/ SettleFromLedger(w)

Next ==
    \/ \E r \in Requests : Submit(r) \/ Cancel(r)
    \/ \E w \in Workers : Drain(w) \/ Recover(w) \/ WorkerStep(w) \/ VenueRaises(w) \/ Raises(w)
    \/ Crash

Spec == Init /\ [][Next]_vars

\* drain is called again and again, and a call that runs goes on.  recover is an
\* operator's decision.
FairSpec == Spec /\ \A w \in Workers : WF_vars(Drain(w)) /\ WF_vars(WorkerStep(w))

-----------------------------------------------------------------------------
(* Properties *)

\* An economic intent reaches the venue at most once, through retries under new
\* keys, concurrent workers and restarts (OrderManager's durable claim).
OneOrderPerIntent ==
    \A r, s \in Requests : Intent(r) = Intent(s) /\ sent[r] > 0 /\ sent[s] > 0
                             => r = s /\ sent[r] = 1

\* No venue order without its canonical submission, and no canonical order without
\* the claim of its own request: a crash leaves the evidence ahead of the action.
EvidenceFirst ==
    \A r \in Requests : /\ sent[r] > 0 => ord[r] \in Reached
                        /\ ord[r] # "none" => r \in owner[Intent(r)]

\* The session's submissions of the symbol stay within the limit, a restart does not
\* refund it, and concurrent calls overshoot it by one order each at most
\* (OrderManagerConfig.max_orders_per_symbol_per_day).  Only an order whose call raised
\* between its submission and its count comes on top: _submit_all never counts it.
WithinDailyLimit ==
    Cardinality(SubmittedOrders \ missed)
        <= Limit + IF overlaps > 0 THEN Cardinality(Workers) - 1 ELSE 0

\* No other intent has the request's signal.
OwnSignal(r) == \A s \in Requests : s.signal = r.signal => Intent(s) = Intent(r)

\* What a request is told about its order is true: it is an order of its own intent
\* where its signal names one (_expected_signal_id), and an interrupted request was
\* not executed ("nothing was executed"), whatever step of an earlier call the process
\* died at.  The latter needs calls that do not overlap.
ReportsItsOrder ==
    \A r \in Requests :
        /\ OwnSignal(r) => \A o \in req[r].order : Intent(o) = Intent(r)
        /\ req[r].state = "interrupted" /\ overlaps = 0 => sent[r] = 0

\* Until calls overlap, a request that is settled stays settled, on the same order.
SettledStays ==
    [][\A r \in Requests : req[r].state \in {"executed", "interrupted"} /\ overlaps' = 0
                             => req'[r] = req[r]]_vars

Conflicts(r) == \E o \in owner[Intent(r)] : o.price # r.price
Blocked(r) ==
    \E i, j \in DOMAIN queue :
        i <= j /\ queue[j] = r /\ IsQueued(queue[i]) /\ Conflicts(queue[i])

\* Again and again every queued request is settled, through a crash or an exception at any
\* step, unless a request at or before it in the queue asks for a claimed intent at another
\* price: that one raises out of every drain.
QueueDrains == []<>(\A r \in Requests : IsQueued(r) => Blocked(r))

=============================================================================
