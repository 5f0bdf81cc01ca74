--------------------------- MODULE StreamingVenue ---------------------------
(***************************************************************************)
(* The event-driven engine: OrderLifecycle folds order events onto the     *)
(* canonical record (src/quantagent/streaming/lifecycle.py, over           *)
(* domain/orders.py and domain/accounting.py), MatchingVenue answers       *)
(* orders and bars with further events (streaming/matching.py).            *)
(*                                                                         *)
(* The bus emits in sort_key order whatever the order of arrival (module   *)
(* EventBus), so an event of the outside comes up here when it is due:     *)
(* behind the last one and before every pending reaction.  One symbol,     *)
(* which may have several bars at an instant (an intraday and a daily one  *)
(* at the close); quantities are lots; a price is all-in, fees included.   *)
(***************************************************************************)
EXTENDS Integers, Sequences, FiniteSets

CONSTANTS
    NumOrders,      \* orders 1..NumOrders, in the order they are opened
    Sides,          \* the sides an order may have
    MaxQuantity,    \* bound: lots of an order and of a bar
    Prices,
    MaxTime,        \* bound: instants 1..MaxTime
    MaxBars,        \* bound: bars of an instant, told apart by their sequence
    SessionOf,      \* the session of an instant
    InitialCash,
    InitialLots     \* settled lots the shared chain holds at the start

ASSUME SizeAssumption == 
    {NumOrders, MaxQuantity, MaxTime, MaxBars, InitialCash, InitialLots} \subseteq Nat
ASSUME SidesAssumption == Sides \subseteq {"BUY", "SELL"} /\ Prices \subseteq Nat
ASSUME SessionAssumption ==
    /\ SessionOf \in [1..MaxTime -> Nat \ {0}]
    /\ \A t, u \in 1..MaxTime : t <= u => SessionOf[t] <= SessionOf[u]

Orders == 1..NumOrders
Quantities == 1..MaxQuantity

VARIABLES
    now,        \* sort key of the last emitted event: <<time, priority, sequence>>
    pending,    \* reactions on the bus
    order,      \* the order book: status, side, quantity, filled_quantity, session
    fills,      \* the executions on the ledger, in order
    executions, \* _executions of the matcher
    raised,     \* the exception that ended the run, and the order it is about
    twice       \* history: orders that two bars of one instant have answered

vars == <<now, pending, order, fills, executions, raised, twice>>

TERMINAL == {"FILLED", "CANCELLED", "REJECTED", "EXPIRED"}

\* EVENT_PRIORITY, of the kinds that are handled
Priority == [BAR |-> 8, ORDER |-> 12, CANCEL |-> 13, VENUE_CALLBACK |-> 14, FILL |-> 15,
             EXPIRY |-> 16]

\* ALLOWED_TRANSITIONS, from SUBMITTED on
Allowed(s) ==
    CASE s = "SUBMITTED" -> {"ACCEPTED", "REJECTED", "CANCEL_REQUESTED", "EXPIRED"}
      [] s = "ACCEPTED" -> {"PARTIALLY_FILLED", "FILLED", "CANCEL_REQUESTED", "CANCELLED",
                            "EXPIRED", "REJECTED"}
      [] s = "PARTIALLY_FILLED" -> {"PARTIALLY_FILLED", "FILLED", "CANCEL_REQUESTED",
                                    "CANCELLED", "EXPIRED"}
      [] s = "CANCEL_REQUESTED" -> {"CANCELLED", "PARTIALLY_FILLED", "FILLED"}
      [] OTHER -> {}

NoException == [what |-> "nothing", order |-> 0]
NoOrder == [status |-> "none", side |-> "BUY", quantity |-> 0, filled |-> 0, session |-> 0]

Init ==
    /\ now = <<0, 0, 0>> /\ pending = {} /\ fills = <<>> /\ executions = 0
    /\ raised = NoException /\ twice = {}
    /\ order = [o \in Orders |-> NoOrder]

-----------------------------------------------------------------------------
(* The account, a replay of the executions (AccountState, replay_account) *)

\* The sum of the first n of a sequence of numbers.
Total(value, n) ==
    LET total[i \in 0..n] == IF i = 0 THEN 0 ELSE total[i - 1] + value[i]
    IN  total[n]

\* sellable_on: what each lot has settled before session s.
Settled(lots, s) ==
    [i \in DOMAIN lots |-> IF lots[i].acquired < s THEN lots[i].quantity ELSE 0]

Sellable(lots, s) == Total(Settled(lots, s), Len(lots))

\* What a first-in-first-out sale of n takes of the i-th lot.
Taken(settled, n, i) ==
    LET remaining == n - Total(settled, i - 1) IN
    IF remaining <= 0 THEN 0 ELSE IF remaining < settled[i] THEN remaining ELSE settled[i]

\* _apply_sell, across the settled lots; a lot sold out stays with quantity 0.
Sell(lots, n, s) ==
    [i \in DOMAIN lots |-> [lots[i] EXCEPT !.quantity = @ - Taken(Settled(lots, s), n, i)]]

\* apply_fill: a sale of more than is settled raises InvariantViolation, then and at
\* every later replay.
ApplyFill(account, f) ==
    IF ~account.valid THEN account
    ELSE IF f.side = "BUY"
    THEN [account EXCEPT !.cash = @ - f.quantity * f.price,
                         !.lots = Append(@, [acquired |-> f.dated, quantity |-> f.quantity])]
    ELSE IF f.quantity > Sellable(account.lots, f.dated)
    THEN [account EXCEPT !.valid = FALSE]
    ELSE [account EXCEPT !.cash = @ + f.quantity * f.price,
                         !.lots = Sell(@, f.quantity, f.dated)]

Opening ==
    [valid |-> TRUE, cash |-> InitialCash,
     lots |-> <<[acquired |-> 0, quantity |-> InitialLots]>>]

\* replay_account, over the first n executions.
AccountAfter(s, n) ==
    LET account[i \in 0..n] == IF i = 0 THEN Opening ELSE ApplyFill(account[i - 1], s[i])
    IN  account[n]

\* CanonicalLedger.replay
Account == AccountAfter(fills, Len(fills))

\* The account can pay for, or deliver from settled lots.
Covers(account, side, n, price, s) ==
    IF side = "BUY" THEN n * price <= account.cash ELSE n <= Sellable(account.lots, s)

-----------------------------------------------------------------------------
(* The order book *)

Leaves(o) == order[o].quantity - order[o].filled
IsTerminal(o) == order[o].status \in TERMINAL

Raise(what, o) == raised' = [what |-> what, order |-> o] /\ UNCHANGED <<order, fills>>

\* mirror_event of an event without execution: Order.apply, _assert_transition and
\* _assert_rejectable.
Transition(o, target) ==
    IF target \notin Allowed(order[o].status) \/ (target = "REJECTED" /\ order[o].filled # 0)
    THEN Raise("IllegalTransition", o)
    ELSE /\ order' = [order EXCEPT ![o].status = target]
         /\ UNCHANGED <<fills, raised>>

\* (mutant) A redelivered execution is booked again.
KnownNever(o, execution) == FALSE

Known(o, execution) == \E i \in DOMAIN fills : fills[i].order = o /\ fills[i].execution = execution

\* same_execution, of an execution that is known; its side is the order's.
Agrees(o, f) ==
    \E i \in DOMAIN fills : /\ fills[i].order = o /\ fills[i].execution = f.execution
                            /\ fills[i].quantity = f.quantity /\ fills[i].price = f.price

\* (mutant) The first execution closes the order.
ExecuteAsFinal(o, f) ==
    IF Known(o, f.execution) THEN UNCHANGED <<order, fills, raised>>
    ELSE /\ order' = [order EXCEPT ![o].status = "FILLED", ![o].filled = @ + f.quantity]
         /\ fills' = Append(fills, f)
         /\ UNCHANGED raised

\* mirror_event of an execution.
Execute(o, f) ==
    LET total == order[o].filled + f.quantity
        target == IF total = order[o].quantity THEN "FILLED" ELSE "PARTIALLY_FILLED"
    IN  IF Known(o, f.execution)
        THEN IF Agrees(o, f) THEN UNCHANGED <<order, fills, raised>>
             ELSE Raise("DuplicateExecution", o)
        ELSE IF IsTerminal(o) THEN Raise("IllegalTransition", o)
        ELSE IF total > order[o].quantity THEN Raise("ValueError", o)
        ELSE IF target \notin Allowed(order[o].status) THEN Raise("IllegalTransition", o)
        ELSE /\ order' = [order EXCEPT ![o].status = target, ![o].filled = total]
             /\ fills' = Append(fills, f)
             /\ UNCHANGED raised

-----------------------------------------------------------------------------
(* The bus *)

Key(t, kind, seq) == <<t, Priority[kind], seq>>
Before(k, l) ==
    \/ k[1] < l[1]
    \/ k[1] = l[1] /\ k[2] < l[2]
    \/ k[1] = l[1] /\ k[2] = l[2] /\ k[3] < l[3]
KeyOf(e) == Key(e.time, e.kind, e.seq)

\* An event of the outside is due.
Due(t, kind, seq) ==
    /\ raised = NoException
    /\ Before(now, Key(t, kind, seq))
    /\ \A e \in pending : Before(Key(t, kind, seq), KeyOf(e))
    /\ now' = Key(t, kind, seq)

\* A reaction is due; equal keys are told apart by the event's hash.
Pop(e) ==
    /\ raised = NoException
    /\ e \in pending /\ \A f \in pending : ~Before(KeyOf(f), KeyOf(e))
    /\ now' = KeyOf(e)
    /\ pending' = pending \ {e}

Callback(t, seq, o, status) ==
    [kind |-> "VENUE_CALLBACK", time |-> t, seq |-> seq, order |-> o, status |-> status]

Execution(t, seq, o, n, price) ==
    [kind |-> "FILL", time |-> t, seq |-> seq, order |-> o, quantity |-> n, price |-> price]

-----------------------------------------------------------------------------
(* Handlers: the lifecycle's, then the venue's *)

\* _on_order opens the order and submits it; _acknowledge accepts it, or refuses it
\* by the rulebook or for want of settled lots.
OnOrder(o, t, side, n) ==
    /\ Due(t, "ORDER", o)
    /\ order[o].status = "none" /\ \A p \in 1..(o - 1) : order[p].status # "none"
    /\ order' = [order EXCEPT ![o] = [status |-> "SUBMITTED", side |-> side, quantity |-> n,
                                      filled |-> 0, session |-> SessionOf[t]]]
    /\ IF side = "SELL" /\ ~Account.valid
       THEN raised' = [what |-> "InvariantViolation", order |-> o] /\ UNCHANGED pending
       ELSE /\ \E reply \in {"ACCEPTED", "REJECTED"} :
                 /\ side = "SELL" /\ n > Sellable(Account.lots, SessionOf[t]) => reply = "REJECTED"
                 /\ pending' = pending \cup {Callback(t, o, o, reply)}
            /\ UNCHANGED raised
    /\ UNCHANGED <<fills, executions, twice>>

\* (mutant) An order works until it is cancelled or refused.
WorkingOnceOpen == {o \in Orders : order[o].status \notin {"none", "CANCELLED", "REJECTED"}}

\* _working
Working == {o \in Orders : order[o].status \in {"ACCEPTED", "PARTIALLY_FILLED"}}

\* (mutant) The account is not asked.
FundedAlways(o, n, price, t) == TRUE

\* _funding_shortfall, by the account as the ledger has it.
Funded(o, n, price, t) == Covers(Account, order[o].side, n, price, SessionOf[t])

Fraction(o, volume) == IF Leaves(o) < volume THEN Leaves(o) ELSE volume

\* (mutant) The date is the one in another time zone.
DatedAbroad(o, t) == order[o].session - 1

\* _on_fill dates an execution by the session of its order.
Dated(o, t) == order[o].session

\* _match_against: every working order the price and the tradability of the bar
\* reach executes, or is refused at fill time.  The book knows nothing of what another
\* bar of the instant has answered: those answers are still on the bus.
OnBar(t, bar, volume, price, reached) ==
    LET funded == {o \in reached : Funded(o, Fraction(o, volume), price, t)}
        number(o) == executions + Cardinality({p \in funded : p <= o})
        answer(o) == IF o \in funded THEN Execution(t, number(o), o, Fraction(o, volume), price)
                     ELSE Callback(t, bar, o, "REJECTED")
    IN  /\ Due(t, "BAR", bar)
        /\ reached \subseteq Working
        /\ IF reached # {} /\ ~Account.valid
           THEN /\ raised' = [what |-> "InvariantViolation", order |-> 0]
                /\ UNCHANGED <<pending, executions, twice>>
           ELSE /\ pending' = pending \cup {answer(o) : o \in reached}
                /\ executions' = executions + Cardinality(funded)
                /\ twice' = twice \cup {o \in reached : \E e \in pending : e.order = o}
                /\ UNCHANGED raised
        /\ UNCHANGED <<order, fills>>

\* _on_callback
OnCallback(e) ==
    /\ Pop(e) /\ e.kind = "VENUE_CALLBACK"
    /\ Transition(e.order, e.status)
    /\ UNCHANGED <<executions, twice>>

\* _on_fill
OnFill(e) ==
    /\ Pop(e) /\ e.kind = "FILL"
    /\ Execute(e.order, [execution |-> e.seq, order |-> e.order, side |-> order[e.order].side,
                         quantity |-> e.quantity, price |-> e.price, time |-> e.time,
                         dated |-> Dated(e.order, e.time)])
    /\ UNCHANGED <<executions, twice>>

\* The venue delivers an execution a second time, as it was or with another quantity.
Redeliver(i, t) ==
    /\ Due(t, "FILL", fills[i].execution)
    /\ \E f \in {fills[i], [fills[i] EXCEPT !.quantity = @ + 1]} : Execute(f.order, f)
    /\ UNCHANGED <<pending, executions, twice>>

\* _resolve, and the end of an order that is open.
Close(o, status) ==
    /\ IF order[o].status = "none" THEN Raise("UnroutableEvent", o)
       ELSE /\ order' = IF IsTerminal(o) THEN order ELSE [order EXCEPT ![o].status = status]
            /\ UNCHANGED <<fills, raised>>
    /\ UNCHANGED <<pending, executions, twice>>

\* _on_cancel: CANCEL_REQUESTED, then CANCELLED; absorbed by a terminal order.
OnCancel(o, t) ==
    /\ Due(t, "CANCEL", o)
    /\ Close(o, "CANCELLED")

\* _on_expiry
OnExpiry(o, t) ==
    /\ Due(t, "EXPIRY", o)
    /\ Close(o, "EXPIRED")

Next ==
    \/ \E o \in Orders, t \in 1..MaxTime :
         \/ \E side \in Sides, n \in Quantities : OnOrder(o, t, side, n)
         \/ OnCancel(o, t) \/ OnExpiry(o, t)
    \/ \E t \in 1..MaxTime, bar \in 1..MaxBars, volume \in Quantities, price \in Prices,
          reached \in SUBSET Orders : OnBar(t, bar, volume, price, reached)
    \/ \E e \in pending : OnCallback(e) \/ OnFill(e)
    \/ \E i \in DOMAIN fills, t \in 1..MaxTime : Redeliver(i, t)

Spec == Init /\ [][Next]_vars

-----------------------------------------------------------------------------
(* Properties *)

\* What the executions on the ledger add up to.
Booked(o) ==
    Total([i \in DOMAIN fills |-> IF fills[i].order = o THEN fills[i].quantity ELSE 0], Len(fills))

\* Executions are booked once and never erased: the book counts what the ledger holds,
\* an order is FILLED exactly when its executions add up to its quantity, and a REJECTED
\* one has none (Order.apply, _assert_rejectable).
ExecutionsCount ==
    /\ \A i, j \in DOMAIN fills : fills[i].execution = fills[j].execution => i = j
    /\ \A o \in Orders :
         /\ order[o].filled = Booked(o)
         /\ order[o].status = "FILLED" <=> order[o].quantity > 0 /\ Booked(o) = order[o].quantity
         /\ order[o].status = "REJECTED" => Booked(o) = 0

\* The first n executions are those of the instants before t.
Earlier(n, t) == \A j \in DOMAIN fills : j <= n <=> fills[j].time < t

\* Every execution could be paid, or delivered from settled lots, out of the account as
\* it stood before its instant, when the n executions of earlier instants were on the ledger
\* and no other: nothing is booked on credit from one instant to the next
\* (_funding_shortfall).  Executions of one instant are each measured alone.
FillsAreFunded ==
    \A i \in DOMAIN fills :
      \E n \in 0..(i - 1) :
        /\ Earlier(n, fills[i].time)
        /\ Covers(AccountAfter(fills, n), fills[i].side, fills[i].quantity, fills[i].price,
                  SessionOf[fills[i].time])

\* One sale at most in an instant, and every execution in the session of its order.
Regular ==
    /\ \A i, j \in DOMAIN fills :
         fills[i].side = "SELL" /\ fills[j].side = "SELL" /\ fills[i].time = fills[j].time => i = j
    /\ \A i \in DOMAIN fills : order[fills[i].order].session = SessionOf[fills[i].time]

Traded(side, upto) ==
    Total([i \in DOMAIN fills |-> IF fills[i].side = side /\ SessionOf[fills[i].time] <= upto
                                 THEN fills[i].quantity ELSE 0], Len(fills))

\* The chain replays: no sale on it exceeds what the replay finds settled; and by the
\* sessions in which executions happened, what is sold up to a session was held before
\* it began (_funding_shortfall, _apply_sell, PositionLot.sellable_on).
ChainReplays ==
    Regular =>
        /\ Account.valid
        /\ \A s \in {SessionOf[t] : t \in 1..MaxTime} :
             Traded("SELL", s) <= InitialLots + Traded("BUY", s - 1)

\* An execution the venue has made can still be booked on its order, unless a cancel
\* of its instant came first or two bars of that instant answered the order: no expiry,
\* and no refusal or execution of another instant or another order, overtakes it
\* (ALLOWED_TRANSITIONS, ordering_key).
TradesAreBooked ==
    \A e \in pending :
      e.kind = "FILL" /\ IsTerminal(e.order) =>
        order[e.order].status = "CANCELLED" \/ e.order \in twice

\* What can end a run.  No order is overfilled unless two bars of one instant promised
\* its leaves; an event its order cannot take meets an order that was cancelled under
\* its answer, or a refusal at fill time one in part filled, or the answers of two such
\* bars each other; a sale of what has not settled follows irregular sales; an event of
\* an order that is open is routed, and a report contradicts only what is booked.  The
\* exception names the order that met its cause (Order.apply, _try_fill, _resolve).
RunNeverRaises ==
    /\ raised.what = "ValueError" => raised.order \in twice
    /\ raised.what = "IllegalTransition" =>
         \/ raised.order \in twice
         \/ order[raised.order].status \in {"CANCELLED", "PARTIALLY_FILLED"}
    /\ raised.what = "InvariantViolation" => ~Regular
    /\ raised.what = "UnroutableEvent" => order[raised.order].status = "none"
    /\ raised.what = "DuplicateExecution" => \E i \in DOMAIN fills : fills[i].order = raised.order

=============================================================================
