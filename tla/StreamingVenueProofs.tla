------------------------ MODULE StreamingVenueProofs ------------------------
(***************************************************************************)
(* The event-driven engine, for any number of orders, instants, sessions   *)
(* and prices, and any opening account: what is promised at a bar is booked *)
(* once, out of an account that covers it, and the chain replays.          *)
(***************************************************************************)
EXTENDS StreamingVenue, FiniteSetTheorems, WellFoundedInduction, TLAPS

Statuses == {"none", "SUBMITTED", "ACCEPTED", "PARTIALLY_FILLED"} \cup TERMINAL

Callbacks ==
    [kind : {"VENUE_CALLBACK"}, time : 1..MaxTime, seq : Nat, order : Orders,
     status : {"ACCEPTED", "REJECTED"}]
Promises ==
    [kind : {"FILL"}, time : 1..MaxTime, seq : Nat, order : Orders, quantity : Nat,
     price : Prices]
Booking ==
    [execution : Nat, order : Orders, side : {"BUY", "SELL"}, quantity : Nat, price : Prices,
     time : 1..MaxTime, dated : Nat]

TypeOK ==
    /\ now \in Nat \X Nat \X Nat
    /\ pending \subseteq Callbacks \cup Promises
    /\ order \in [Orders -> [status : Statuses, side : {"BUY", "SELL"}, quantity : Nat,
                             filled : Nat, session : Nat]]
    /\ fills \in Seq(Booking)
    /\ executions \in Nat

\* What is booked belongs to an instant that has come by key k: to an earlier one, or to
\* the same one, of which the bars are over then.
BookedBy(k) ==
    \A i \in DOMAIN fills : fills[i].time <= k[1] /\ (fills[i].time = k[1] => k[2] >= 15)

\* Reactions belong to the instant that is being emitted, and are still to come in it.
InTime ==
    /\ \A e \in pending : e.time = now[1] /\ ~Before(KeyOf(e), now)
    /\ BookedBy(now)

\* An order waits for one answer at most, unless two bars of an instant have given one.
OneAnswer == \A e, f \in pending : e.order = f.order => e = f \/ e.order \in twice

\* What can have become of an order that waits for an acceptance or a refusal.
CallbackIsDue ==
    \A e \in pending :
      /\ order[e.order].status # "none"
      /\ e.kind = "VENUE_CALLBACK" /\ e.order \notin twice =>
           \/ order[e.order].status \in {"SUBMITTED", "CANCELLED"}
           \/ e.status = "REJECTED" /\ order[e.order].status \in {"ACCEPTED", "PARTIALLY_FILLED"}

\* What can have become of an order that waits for an execution, and the room on it.
PromiseFits ==
    \A e \in pending : e.kind = "FILL" =>
      /\ 0 < e.quantity
      /\ e.order \notin twice =>
           /\ order[e.order].status \in {"ACCEPTED", "PARTIALLY_FILLED", "CANCELLED"}
           /\ e.quantity <= Leaves(e.order)

\* A promise was measured by the account as it stood before its instant.
PromiseIsFunded ==
    \A e \in pending : e.kind = "FILL" =>
      \E n \in 0..Len(fills) :
        /\ Earlier(n, e.time)
        /\ Covers(AccountAfter(fills, n), order[e.order].side, e.quantity, e.price, SessionOf[e.time])

\* Executions are numbered in the order in which they were promised and are booked.
Numbered ==
    /\ \A i \in DOMAIN fills : fills[i].execution <= executions
    /\ \A i, j \in DOMAIN fills : i < j => fills[i].execution < fills[j].execution
    /\ \A e \in pending : e.kind = "FILL" =>
         /\ e.seq <= executions
         /\ \A i \in DOMAIN fills : fills[i].execution < e.seq
         /\ \A f \in pending : f.kind = "FILL" /\ f.seq = e.seq => f = e

\* An execution is booked with the side and the session of its order.
BookedAsOrdered ==
    \A i \in DOMAIN fills :
      /\ fills[i].side = order[fills[i].order].side
      /\ fills[i].dated = order[fills[i].order].session
      /\ order[fills[i].order].status # "none"

\* Status and counter of an order agree.
StatusFollowsCount ==
    \A o \in Orders :
      LET r == order[o] IN
      /\ r.filled <= r.quantity
      /\ r.status = "none" => r.quantity = 0
      /\ r.status # "none" => r.quantity > 0
      /\ r.status = "FILLED" <=> r.quantity > 0 /\ r.filled = r.quantity
      /\ r.status \in {"SUBMITTED", "ACCEPTED", "REJECTED"} => r.filled = 0

CountsWhatIsBooked == \A o \in Orders : order[o].filled = Booked(o)

\* What ends a run.
RaisedFor ==
    /\ raised.what = "ValueError" => raised.order \in twice
    /\ raised.what = "IllegalTransition" =>
         \/ raised.order \in twice
         \/ order[raised.order].status \in {"CANCELLED", "PARTIALLY_FILLED"}
    /\ raised.what = "InvariantViolation" => ~Account.valid
    /\ raised.what = "UnroutableEvent" => order[raised.order].status = "none"
    /\ raised.what = "DuplicateExecution" => \E i \in DOMAIN fills : fills[i].order = raised.order

IInv ==
    /\ TypeOK /\ InTime /\ OneAnswer /\ CallbackIsDue /\ PromiseFits /\ PromiseIsFunded
    /\ Numbered /\ BookedAsOrdered /\ StatusFollowsCount /\ CountsWhatIsBooked
    /\ FillsAreFunded /\ RaisedFor

-----------------------------------------------------------------------------
(* Sums and replays: the recursive functions are what they say. *)

\* Induction over the numbers, for a set of them.
LEMMA NumbersByInduction ==
  ASSUME NEW T \in SUBSET Nat, 0 \in T, \A n \in T : n + 1 \in T PROVE T = Nat
<1> DEFINE Less == OpToRel(<, Nat)
           Rest == Nat \ T
<1>1. SUFFICES ASSUME Rest # {} PROVE FALSE
  OBVIOUS
<1>2. IsWellFoundedOn(Less, Nat)
  BY NatLessThanWellFounded
<1>3. Rest \subseteq Nat
  OBVIOUS
<1> HIDE DEF Rest
<1>4. PICK x \in Rest : \A y \in Rest : ~(<<y, x>> \in Less)
  <2> HIDE DEF Less
  <2> QED
    BY <1>1, <1>2, <1>3, WFMin
<1>5. x \in Nat /\ x # 0 /\ x - 1 \in Nat /\ x = (x - 1) + 1
  <2>1. x \in Nat /\ x # 0
    BY DEF Rest
  <2> QED
    BY <2>1
<1>6. x - 1 \in Rest
  <2> SUFFICES ASSUME x - 1 \in T PROVE FALSE
    BY <1>5 DEF Rest
  <2>1. (x - 1) + 1 \in T
    OBVIOUS
  <2> QED
    BY <1>5, <2>1 DEF Rest
<1>7. <<x - 1, x>> \in Less
  BY <1>3, <1>5 DEF OpToRel
<1> QED
  BY <1>4, <1>6, <1>7

\* f is the function of running totals of v up to n.
IsTotals(f, v, n) == f = [i \in 0..n |-> IF i = 0 THEN 0 ELSE f[i - 1] + v[i]]

LEMMA TotalsAgree ==
  ASSUME NEW f, NEW g, NEW v, NEW w, NEW n \in Nat, NEW m \in Nat, NEW k \in Nat,
         IsTotals(f, v, n), IsTotals(g, w, m), k <= n, k <= m,
         \A i \in 1..k : v[i] = w[i]
  PROVE  f[k] = g[k]
<1> DEFINE T == {j \in Nat : j <= k => f[j] = g[j]}
<1>1. 0 \in T
  BY DEF IsTotals
<1>2. ASSUME NEW j \in T PROVE j + 1 \in T
  <2> SUFFICES ASSUME j + 1 <= k PROVE f[j + 1] = g[j + 1]
    OBVIOUS
  <2>1. j + 1 \in 0..n /\ j + 1 \in 0..m /\ j + 1 # 0 /\ (j + 1) - 1 = j /\ j + 1 \in 1..k
    OBVIOUS
  <2>2. f[j] = g[j] /\ v[j + 1] = w[j + 1]
    BY <2>1
  <2>3. f[j + 1] = f[(j + 1) - 1] + v[j + 1]
    BY <2>1 DEF IsTotals
  <2>4. g[j + 1] = g[(j + 1) - 1] + w[j + 1]
    BY <2>1 DEF IsTotals
  <2> QED
    BY <2>1, <2>2, <2>3, <2>4
<1>3. T = Nat
  <2> HIDE DEF T
  <2>1. T \in SUBSET Nat
    BY DEF T
  <2> QED
    BY <1>1, <1>2, <2>1, NumbersByInduction
<1> QED
  BY <1>3

LEMMA TotalsExist == ASSUME NEW v, NEW n \in Nat PROVE \E f : IsTotals(f, v, n)
<1> DEFINE T == {j \in Nat : \E f : IsTotals(f, v, j)}
<1>1. 0 \in T
  <2>1. IsTotals([i \in 0..0 |-> 0], v, 0)
    BY DEF IsTotals
  <2> QED
    BY <2>1
<1>2. ASSUME NEW j \in T PROVE j + 1 \in T
  <2>1. PICK f : IsTotals(f, v, j)
    BY <1>2
  <2> DEFINE g == [i \in 0..(j + 1) |-> IF i = j + 1 THEN f[j] + v[j + 1] ELSE f[i]]
  <2>2. ASSUME NEW i \in 0..(j + 1)
        PROVE  g[i] = IF i = 0 THEN 0 ELSE g[i - 1] + v[i]
    <3>1. CASE i = j + 1
      BY <3>1
    <3>2. CASE i # j + 1 /\ i # 0
      <4>1. i \in 0..j /\ i - 1 \in 0..j
        BY <3>2
      <4>2. f[i] = f[i - 1] + v[i]
        BY <2>1, <3>2, <4>1 DEF IsTotals
      <4> QED
        BY <3>2, <4>1, <4>2
    <3>3. CASE i = 0
      BY <2>1, <3>3 DEF IsTotals
    <3> QED
      BY <3>1, <3>2, <3>3
  <2>3. g = [i \in 0..(j + 1) |-> g[i]]
    OBVIOUS
  <2> HIDE DEF g
  <2>4. g = [i \in 0..(j + 1) |-> IF i = 0 THEN 0 ELSE g[i - 1] + v[i]]
    BY <2>2, <2>3
  <2> QED
    BY <2>4 DEF IsTotals
<1>3. T = Nat
  <2> HIDE DEF T
  <2>1. T \in SUBSET Nat
    BY DEF T
  <2> QED
    BY <1>1, <1>2, <2>1, NumbersByInduction
<1> QED
  BY <1>3

\* Total(v, n) is the last of the running totals.
LEMMA TotalIsLast ==
  ASSUME NEW v, NEW n \in Nat PROVE \E f : IsTotals(f, v, n) /\ Total(v, n) = f[n]
<1> DEFINE f == CHOOSE f : IsTotals(f, v, n)
<1>1. IsTotals(f, v, n)
  BY TotalsExist
<1>2. Total(v, n) = f[n]
  BY DEF Total, IsTotals
<1> QED
  BY <1>1, <1>2

\* The sum of equal numbers is equal.
LEMMA TotalAgrees ==
  ASSUME NEW v, NEW w, NEW n \in Nat, \A i \in 1..n : v[i] = w[i]
  PROVE  Total(v, n) = Total(w, n)
  BY TotalIsLast, TotalsAgree

LEMMA TotalOfNone == ASSUME NEW v PROVE Total(v, 0) = 0
  BY TotalIsLast DEF IsTotals

LEMMA TotalOfNext ==
  ASSUME NEW v, NEW n \in Nat PROVE Total(v, n + 1) = Total(v, n) + v[n + 1]
<1>1. PICK f : IsTotals(f, v, n + 1) /\ Total(v, n + 1) = f[n + 1]
  BY TotalIsLast
<1>2. PICK g : IsTotals(g, v, n) /\ Total(v, n) = g[n]
  BY TotalIsLast
<1>3. f[n] = g[n]
  BY <1>1, <1>2, TotalsAgree
<1>4. f[n + 1] = f[(n + 1) - 1] + v[n + 1]
  BY <1>1 DEF IsTotals
<1> QED
  BY <1>1, <1>2, <1>3, <1>4

\* f holds the account after each of the first n executions of s.
IsReplay(f, s, n) == f = [i \in 0..n |-> IF i = 0 THEN Opening ELSE ApplyFill(f[i - 1], s[i])]

LEMMA ReplaysAgree ==
  ASSUME NEW f, NEW g, NEW s, NEW r, NEW n \in Nat, NEW m \in Nat, NEW k \in Nat,
         IsReplay(f, s, n), IsReplay(g, r, m), k <= n, k <= m,
         \A i \in 1..k : s[i] = r[i]
  PROVE  f[k] = g[k]
<1> DEFINE T == {j \in Nat : j <= k => f[j] = g[j]}
<1>1. 0 \in T
  BY DEF IsReplay
<1>2. ASSUME NEW j \in T PROVE j + 1 \in T
  <2> SUFFICES ASSUME j + 1 <= k PROVE f[j + 1] = g[j + 1]
    OBVIOUS
  <2>1. j + 1 \in 0..n /\ j + 1 \in 0..m /\ j + 1 # 0 /\ (j + 1) - 1 = j /\ j + 1 \in 1..k
    OBVIOUS
  <2>2. f[j] = g[j] /\ s[j + 1] = r[j + 1]
    BY <2>1
  <2>3. f[j + 1] = ApplyFill(f[(j + 1) - 1], s[j + 1])
    BY <2>1 DEF IsReplay
  <2>4. g[j + 1] = ApplyFill(g[(j + 1) - 1], r[j + 1])
    BY <2>1 DEF IsReplay
  <2> QED
    BY <2>1, <2>2, <2>3, <2>4
<1>3. T = Nat
  <2> HIDE DEF T
  <2>1. T \in SUBSET Nat
    BY DEF T
  <2> QED
    BY <1>1, <1>2, <2>1, NumbersByInduction
<1> QED
  BY <1>3

LEMMA ReplaysExist == ASSUME NEW s, NEW n \in Nat PROVE \E f : IsReplay(f, s, n)
<1> DEFINE T == {j \in Nat : \E f : IsReplay(f, s, j)}
<1>1. 0 \in T
  <2>1. IsReplay([i \in 0..0 |-> Opening], s, 0)
    BY DEF IsReplay
  <2> QED
    BY <2>1
<1>2. ASSUME NEW j \in T PROVE j + 1 \in T
  <2>1. PICK f : IsReplay(f, s, j)
    BY <1>2
  <2> DEFINE g == [i \in 0..(j + 1) |-> IF i = j + 1 THEN ApplyFill(f[j], s[j + 1]) ELSE f[i]]
  <2>2. ASSUME NEW i \in 0..(j + 1)
        PROVE  g[i] = IF i = 0 THEN Opening ELSE ApplyFill(g[i - 1], s[i])
    <3>1. CASE i = j + 1
      <4>1. i - 1 = j /\ i # 0 /\ j \in 0..(j + 1) /\ j # j + 1
        BY <3>1
      <4> QED
        BY <3>1, <4>1
    <3>2. CASE i # j + 1 /\ i # 0
      <4>1. i \in 0..j /\ i - 1 \in 0..j
        BY <3>2
      <4>2. f[i] = ApplyFill(f[i - 1], s[i])
        BY <2>1, <3>2, <4>1 DEF IsReplay
      <4> QED
        BY <3>2, <4>1, <4>2
    <3>3. CASE i = 0
      BY <2>1, <3>3 DEF IsReplay
    <3> QED
      BY <3>1, <3>2, <3>3
  <2>3. g = [i \in 0..(j + 1) |-> g[i]]
    OBVIOUS
  <2> HIDE DEF g
  <2>4. g = [i \in 0..(j + 1) |-> IF i = 0 THEN Opening ELSE ApplyFill(g[i - 1], s[i])]
    BY <2>2, <2>3
  <2> QED
    BY <2>4 DEF IsReplay
<1>3. T = Nat
  <2> HIDE DEF T
  <2>1. T \in SUBSET Nat
    BY DEF T
  <2> QED
    BY <1>1, <1>2, <2>1, NumbersByInduction
<1> QED
  BY <1>3

LEMMA AccountIsLast ==
  ASSUME NEW s, NEW n \in Nat PROVE \E f : IsReplay(f, s, n) /\ AccountAfter(s, n) = f[n]
<1> DEFINE f == CHOOSE f : IsReplay(f, s, n)
<1>1. IsReplay(f, s, n)
  BY ReplaysExist
<1>2. AccountAfter(s, n) = f[n]
  BY DEF AccountAfter, IsReplay
<1> QED
  BY <1>1, <1>2

\* The account after n executions is a matter of those n.
LEMMA AccountAgrees ==
  ASSUME NEW s, NEW r, NEW n \in Nat, \A i \in 1..n : s[i] = r[i]
  PROVE  AccountAfter(s, n) = AccountAfter(r, n)
  BY AccountIsLast, ReplaysAgree

LEMMA AccountAtFirst == ASSUME NEW s PROVE AccountAfter(s, 0) = Opening
  BY AccountIsLast DEF IsReplay

LEMMA AccountNext ==
  ASSUME NEW s, NEW n \in Nat
  PROVE  AccountAfter(s, n + 1) = ApplyFill(AccountAfter(s, n), s[n + 1])
<1>1. PICK f : IsReplay(f, s, n + 1) /\ AccountAfter(s, n + 1) = f[n + 1]
  BY AccountIsLast
<1>2. PICK g : IsReplay(g, s, n) /\ AccountAfter(s, n) = g[n]
  BY AccountIsLast
<1>3. f[n] = g[n]
  BY <1>1, <1>2, ReplaysAgree
<1>4. n + 1 \in 0..(n + 1) /\ n + 1 # 0 /\ (n + 1) - 1 = n
  OBVIOUS
<1>5. f[n + 1] = ApplyFill(f[(n + 1) - 1], s[n + 1])
  BY <1>1, <1>4 DEF IsReplay
<1> QED
  BY <1>1, <1>2, <1>3, <1>4, <1>5

-----------------------------------------------------------------------------
(* The clock: what being due says of the instant and of the reactions in it. *)

LEMMA Priorities ==
  /\ Priority["BAR"] = 8 /\ Priority["ORDER"] = 12 /\ Priority["CANCEL"] = 13
  /\ Priority["VENUE_CALLBACK"] = 14 /\ Priority["FILL"] = 15 /\ Priority["EXPIRY"] = 16
  BY DEF Priority

LEMMA PendingAreTyped ==
  ASSUME TypeOK, NEW e \in pending
  PROVE  /\ e.kind \in {"VENUE_CALLBACK", "FILL"} /\ e.time \in 1..MaxTime /\ e.seq \in Nat
         /\ e.order \in Orders
         /\ e.kind = "VENUE_CALLBACK" => e \in Callbacks
         /\ e.kind = "FILL" => e \in Promises
  BY DEF TypeOK, Callbacks, Promises

LEMMA BookingsAreTyped ==
  ASSUME TypeOK, NEW i \in DOMAIN fills
  PROVE  /\ fills[i] \in Booking /\ fills[i].execution \in Nat /\ fills[i].order \in Orders
         /\ fills[i].quantity \in Nat /\ fills[i].time \in 1..MaxTime /\ fills[i].dated \in Nat
         /\ fills[i].side \in {"BUY", "SELL"} /\ fills[i].price \in Prices
<1>1. fills[i] \in Booking
  BY DEF TypeOK
<1> QED
  BY <1>1 DEF Booking

\* An event of the outside comes in the instant of the reactions that wait, or later
\* when none does.
LEMMA DueInTime ==
  ASSUME TypeOK, InTime, NEW t \in 1..MaxTime, NEW seq \in Nat,
         NEW kind \in {"BAR", "ORDER", "CANCEL", "FILL", "EXPIRY"}, Due(t, kind, seq)
  PROVE  /\ now' = <<t, Priority[kind], seq>> /\ now' \in Nat \X Nat \X Nat
         /\ now[1] <= t /\ Priority[kind] >= 8
         /\ Before(now, <<t, Priority[kind], seq>>)
         /\ \A e \in pending : /\ e.time = t /\ now[1] = t
                               /\ Before(<<t, Priority[kind], seq>>, KeyOf(e))
                               /\ ~Before(KeyOf(e), now')
<1>1. Priority[kind] \in Nat /\ Priority[kind] >= 8
  BY Priorities
<1>2. now' = <<t, Priority[kind], seq>>
  BY DEF Due, Key
<1>3. Before(now, <<t, Priority[kind], seq>>)
  BY DEF Due, Key
<1>4. now[1] <= t
  BY <1>1, <1>3 DEF Before, TypeOK
<1>5. ASSUME NEW e \in pending
      PROVE  /\ e.time = t /\ now[1] = t /\ Before(<<t, Priority[kind], seq>>, KeyOf(e))
             /\ ~Before(KeyOf(e), now')
  <2>1. Before(<<t, Priority[kind], seq>>, KeyOf(e))
    BY DEF Due, Key
  <2>2. KeyOf(e) = <<e.time, Priority[e.kind], e.seq>> /\ e.time \in 1..MaxTime /\ e.seq \in Nat
        /\ Priority[e.kind] \in Nat
    BY PendingAreTyped, Priorities DEF KeyOf, Key
  <2>3. e.time = now[1]
    BY DEF InTime
  <2>4. e.time = t
    BY <1>1, <1>4, <2>1, <2>2, <2>3, SizeAssumption DEF Before
  <2> QED
    BY <1>1, <1>2, <2>1, <2>2, <2>3, <2>4 DEF Before
<1> QED
  BY <1>1, <1>2, <1>3, <1>4, <1>5

\* The same, the priority of the kind named by its number.
LEMMA DueAt ==
  ASSUME TypeOK, InTime, NEW t \in 1..MaxTime, NEW seq \in Nat,
         NEW kind \in {"BAR", "ORDER", "CANCEL", "FILL", "EXPIRY"}, Due(t, kind, seq),
         NEW k, Priority[kind] = k
  PROVE  /\ now' = <<t, k, seq>> /\ now' \in Nat \X Nat \X Nat /\ now[1] <= t
         /\ Before(now, <<t, k, seq>>)
         /\ \A e \in pending : e.time = t /\ now[1] = t /\ ~Before(KeyOf(e), now')
<1>1. /\ now' = <<t, Priority[kind], seq>> /\ now' \in Nat \X Nat \X Nat /\ now[1] <= t
      /\ Before(now, <<t, Priority[kind], seq>>)
      /\ \A e \in pending : e.time = t /\ now[1] = t /\ ~Before(KeyOf(e), now')
  <2>1. /\ now' = <<t, Priority[kind], seq>> /\ now' \in Nat \X Nat \X Nat
        /\ now[1] <= t /\ Priority[kind] >= 8
        /\ Before(now, <<t, Priority[kind], seq>>)
        /\ \A e \in pending : /\ e.time = t /\ now[1] = t
                              /\ Before(<<t, Priority[kind], seq>>, KeyOf(e))
                              /\ ~Before(KeyOf(e), now')
    BY DueInTime, ZenonT(60)
  <2> QED
    BY <2>1
<1> QED
  BY <1>1

\* The clock does not run back behind what is booked.
LEMMA BookedInTime ==
  ASSUME TypeOK, InTime, NEW k \in Nat \X Nat \X Nat, ~Before(k, now)
  PROVE  BookedBy(k)
<1> SUFFICES ASSUME NEW i \in DOMAIN fills
             PROVE  fills[i].time <= k[1] /\ (fills[i].time = k[1] => k[2] >= 15)
  BY DEF BookedBy
<1>1. fills[i].time \in Nat
  BY BookingsAreTyped, SizeAssumption
<1>2. fills[i].time <= now[1] /\ (fills[i].time = now[1] => now[2] >= 15)
  BY DEF InTime, BookedBy
<1>3. now[1] \in Nat /\ now[2] \in Nat /\ k[1] \in Nat /\ k[2] \in Nat
  BY DEF TypeOK
<1>4. now[1] <= k[1] /\ (now[1] = k[1] => now[2] <= k[2])
  BY <1>3 DEF Before
<1> QED
  BY <1>1, <1>2, <1>3, <1>4

\* What is due to the outside is not behind the clock.
LEMMA DueIsLater ==
  ASSUME TypeOK, NEW k \in Nat \X Nat \X Nat, Before(now, k) PROVE ~Before(k, now)
  BY DEF TypeOK, Before

\* The order book stays typed when one order is replaced, or its status set.
LEMMA BookIsTyped ==
  ASSUME TypeOK, NEW o \in Orders,
         NEW r \in [status : Statuses, side : {"BUY", "SELL"}, quantity : Nat, filled : Nat,
                    session : Nat]
  PROVE  [order EXCEPT ![o] = r]
           \in [Orders -> [status : Statuses, side : {"BUY", "SELL"}, quantity : Nat,
                           filled : Nat, session : Nat]]
<1> DEFINE R == [status : Statuses, side : {"BUY", "SELL"}, quantity : Nat, filled : Nat,
                 session : Nat]
<1>1. order \in [Orders -> R] /\ r \in R
  BY DEF TypeOK
<1> HIDE DEF R
<1>2. [order EXCEPT ![o] = r] \in [Orders -> R]
  BY <1>1
<1> QED
  BY <1>2 DEF R

LEMMA StatusIsTyped ==
  ASSUME TypeOK, NEW o \in Orders, NEW s \in Statuses
  PROVE  [order EXCEPT ![o].status = s]
           \in [Orders -> [status : Statuses, side : {"BUY", "SELL"}, quantity : Nat,
                           filled : Nat, session : Nat]]
<1>1. order[o] \in [status : Statuses, side : {"BUY", "SELL"}, quantity : Nat, filled : Nat,
                    session : Nat]
  BY DEF TypeOK
<1>2. [order[o] EXCEPT !.status = s]
        \in [status : Statuses, side : {"BUY", "SELL"}, quantity : Nat, filled : Nat, session : Nat]
  BY <1>1
<1>3. [order EXCEPT ![o].status = s] = [order EXCEPT ![o] = [order[o] EXCEPT !.status = s]]
  OBVIOUS
<1> QED
  BY <1>2, <1>3, BookIsTyped

\* A bar may find answers of another bar of its instant waiting, and no execution booked.
LEMMA BarComesFirst ==
  ASSUME TypeOK, InTime, NEW t \in 1..MaxTime, NEW bar \in 1..MaxBars, Due(t, "BAR", bar)
  PROVE  /\ now' = <<t, 8, bar>> /\ now' \in Nat \X Nat \X Nat
         /\ \A e \in pending : e.time = t /\ ~Before(KeyOf(e), now')
         /\ \A i \in DOMAIN fills : fills[i].time < t
         /\ BookedBy(now')
<1>1. bar \in Nat
  BY SizeAssumption
<1>2. /\ now' = <<t, 8, bar>> /\ now' \in Nat \X Nat \X Nat
      /\ Before(now, <<t, 8, bar>>)
      /\ \A e \in pending : e.time = t /\ ~Before(KeyOf(e), now')
  <2>1. Priority["BAR"] = 8
    BY Priorities
  <2> QED
    BY <1>1, <2>1, DueAt
<1>3. BookedBy(now')
  BY <1>2, DueIsLater, BookedInTime
<1>4. ASSUME NEW i \in DOMAIN fills PROVE fills[i].time < t
  <2>1. fills[i].time \in Nat /\ t \in Nat
    BY BookingsAreTyped, SizeAssumption
  <2>2. fills[i].time <= t /\ fills[i].time # t
    BY <1>2, <1>3 DEF BookedBy
  <2> QED
    BY <2>1, <2>2
<1> QED
  BY <1>2, <1>3, <1>4

\* A reaction comes in the instant of the others, and before them.
LEMMA PopInTime ==
  ASSUME TypeOK, InTime, NEW e \in pending, Pop(e)
  PROVE  /\ now' = <<now[1], Priority[e.kind], e.seq>> /\ now' \in Nat \X Nat \X Nat
         /\ e.time = now[1] /\ now'[1] = now[1] /\ BookedBy(now')
         /\ pending' = pending \ {e}
         /\ \A f \in pending : f.time = now[1] /\ ~Before(KeyOf(f), KeyOf(e))
<1>1. /\ e.time \in 1..MaxTime /\ e.seq \in Nat /\ e.kind \in {"VENUE_CALLBACK", "FILL"}
      /\ e.time = now[1]
  BY PendingAreTyped DEF InTime
<1>2. Priority[e.kind] \in Nat
  BY <1>1, Priorities
<1>3. now' = <<e.time, Priority[e.kind], e.seq>> /\ now' = KeyOf(e)
  BY DEF Pop, KeyOf, Key
<1>4. now[1] \in Nat
  BY DEF TypeOK
<1>5. now' \in Nat \X Nat \X Nat
  BY <1>1, <1>2, <1>3, <1>4
<1>7. BookedBy(now')
  BY <1>3, <1>5, BookedInTime DEF InTime
<1>6. pending' = pending \ {e} /\ \A f \in pending : f.time = now[1] /\ ~Before(KeyOf(f), KeyOf(e))
  BY DEF Pop, InTime
<1> QED
  BY <1>1, <1>3, <1>5, <1>6, <1>7

-----------------------------------------------------------------------------
(* Handlers that book nothing *)

\* A step that leaves the ledger and the counters alone leaves the account alone.
LEMMA LedgerStays ==
  ASSUME IInv, fills' = fills, \A o \in Orders : order'[o].filled = order[o].filled
  PROVE  CountsWhatIsBooked' /\ FillsAreFunded' /\ Account' = Account
<1>1. \A o \in Orders : Booked(o)' = Booked(o)
  BY DEF Booked
<1>2. FillsAreFunded'
  BY DEF IInv, FillsAreFunded, Earlier
<1>3. Account' = Account
  BY DEF Account
<1> QED
  BY <1>1, <1>2, <1>3 DEF IInv, CountsWhatIsBooked

\* What waits for an answer has been opened.
LEMMA PendingAreOpened == ASSUME IInv, NEW e \in pending PROVE order[e.order].status # "none"
  BY DEF IInv, CallbackIsDue

\* An order that is not open yet has nothing to its name.
LEMMA UnopenedIsBlank ==
  ASSUME IInv, NEW o \in Orders, order[o].status = "none"
  PROVE  /\ order[o].quantity = 0 /\ order[o].filled = 0
         /\ \A e \in pending : e.order # o
         /\ \A i \in DOMAIN fills : fills[i].order # o
<1>1. order[o].quantity = 0 /\ order[o].filled = 0
  BY DEF IInv, StatusFollowsCount, TypeOK
<1> QED
  BY <1>1, PendingAreOpened DEF IInv, BookedAsOrdered

LEMMA OrderKeeps ==
  ASSUME IInv, NEW o \in Orders, NEW t \in 1..MaxTime, NEW side \in Sides, NEW n \in Quantities,
         OnOrder(o, t, side, n)
  PROVE  IInv'
<1> DEFINE r == [status |-> "SUBMITTED", side |-> side, quantity |-> n, filled |-> 0,
                 session |-> SessionOf[t]]
<1>1. /\ Due(t, "ORDER", o) /\ order[o].status = "none" /\ order' = [order EXCEPT ![o] = r]
      /\ fills' = fills /\ executions' = executions /\ twice' = twice /\ raised = NoException
  BY DEF OnOrder, Due
<1>2. /\ now' = <<t, 12, o>> /\ now' \in Nat \X Nat \X Nat
      /\ \A e \in pending : e.time = t /\ ~Before(KeyOf(e), now')
      /\ BookedBy(now')
  <2>1. o \in Nat /\ TypeOK /\ InTime
    BY DEF IInv, Orders
  <2>2. Priority["ORDER"] = 12
    BY Priorities
  <2>3. /\ now' = <<t, 12, o>> /\ now' \in Nat \X Nat \X Nat /\ Before(now, <<t, 12, o>>)
        /\ \A e \in pending : e.time = t /\ ~Before(KeyOf(e), now')
    BY <1>1, <2>1, <2>2, DueAt
  <2> QED
    BY <2>1, <2>3, DueIsLater, BookedInTime
<1>3. PICK new : /\ pending' = pending \cup new
                 /\ \/ /\ new = {} /\ ~Account.valid
                       /\ raised' = [what |-> "InvariantViolation", order |-> o]
                    \/ \E reply \in {"ACCEPTED", "REJECTED"} : new = {Callback(t, o, o, reply)} /\ raised' = raised
  <2>1. CASE side = "SELL" /\ ~Account.valid
    BY <2>1 DEF OnOrder
  <2>2. CASE ~(side = "SELL" /\ ~Account.valid)
    BY <2>2 DEF OnOrder
  <2> QED
    BY <2>1, <2>2
<1>4. ASSUME NEW e \in new
      PROVE  /\ e \in Callbacks /\ e.order = o /\ e.kind = "VENUE_CALLBACK" /\ e.time = t
             /\ KeyOf(e) = <<t, 14, o>> /\ ~Before(KeyOf(e), now')
  <2>1. PICK reply \in {"ACCEPTED", "REJECTED"} : e = Callback(t, o, o, reply)
    BY <1>3, <1>4
  <2>2. e \in Callbacks /\ e.order = o /\ e.kind = "VENUE_CALLBACK" /\ e.time = t /\ e.seq = o
    BY <2>1 DEF Callback, Callbacks, Orders
  <2>3. KeyOf(e) = <<t, 14, o>>
    BY <2>2, Priorities DEF KeyOf, Key
  <2> QED
    BY <1>2, <2>2, <2>3 DEF Before
<1>5. order'[o] = r /\ \A p \in Orders \ {o} : order'[p] = order[p]
  BY <1>1 DEF IInv, TypeOK
<1>6. /\ order[o].filled = 0
      /\ \A e \in pending : e.order # o
      /\ \A i \in DOMAIN fills : fills[i].order # o
  BY <1>1, UnopenedIsBlank
<1>7. \A p \in Orders : order'[p].filled = order[p].filled
  BY <1>5, <1>6
<1>8. CountsWhatIsBooked' /\ FillsAreFunded' /\ Account' = Account
  BY <1>1, <1>7, LedgerStays
<1>9. n \in Nat \ {0} /\ side \in {"BUY", "SELL"} /\ SessionOf[t] \in Nat
  BY SidesAssumption, SessionAssumption DEF Quantities
<1>10. TypeOK'
  <2>1. r \in [status : Statuses, side : {"BUY", "SELL"}, quantity : Nat, filled : Nat, session : Nat]
    BY <1>9 DEF Statuses
  <2>2. pending' \subseteq Callbacks \cup Promises
    BY <1>3, <1>4 DEF IInv, TypeOK
  <2>3. TypeOK
    BY DEF IInv
  <2>4. order' \in [Orders -> [status : Statuses, side : {"BUY", "SELL"}, quantity : Nat,
                               filled : Nat, session : Nat]]
    BY <1>1, <2>1, <2>3, BookIsTyped
  <2> QED
    BY <1>1, <1>2, <2>2, <2>3, <2>4 DEF TypeOK
<1>11. InTime'
  <2>1. BookedBy(now)'
    BY <1>1, <1>2 DEF BookedBy
  <2>2. \A e \in pending' : e.time = now'[1] /\ ~Before(KeyOf(e), now')
    BY <1>2, <1>3, <1>4
  <2> QED
    BY <2>1, <2>2 DEF InTime, KeyOf, Key
<1>12. OneAnswer'
  <2>1. \A e, f \in new : e = f
    BY <1>3
  <2> QED
    BY <1>1, <1>3, <1>4, <1>6, <2>1 DEF IInv, OneAnswer
<1>13. CallbackIsDue'
  BY <1>1, <1>3, <1>4, <1>5, <1>6, PendingAreTyped DEF IInv, CallbackIsDue
<1>14. PromiseFits'
  BY <1>1, <1>3, <1>4, <1>5, <1>6, PendingAreTyped DEF IInv, PromiseFits, Leaves
<1>15. PromiseIsFunded'
  BY <1>1, <1>3, <1>4, <1>5, <1>6, PendingAreTyped DEF IInv, PromiseIsFunded, Earlier
<1>16. Numbered'
  BY <1>1, <1>3, <1>4 DEF IInv, Numbered
<1>17. BookedAsOrdered'
  BY <1>1, <1>5, <1>6, BookingsAreTyped DEF IInv, BookedAsOrdered
<1>18. StatusFollowsCount'
  BY <1>5, <1>9 DEF IInv, StatusFollowsCount
<1>19. RaisedFor'
  BY <1>1, <1>3, <1>8 DEF RaisedFor, NoException
<1> QED
  BY <1>8, <1>10, <1>11, <1>12, <1>13, <1>14, <1>15, <1>16, <1>17, <1>18, <1>19 DEF IInv

\* A step that takes an order out of the market, or does nothing (_on_cancel, _on_expiry).
LEMMA ClosingKeeps ==
  ASSUME IInv, NEW o \in Orders, NEW t \in 1..MaxTime, NEW kind \in {"CANCEL", "EXPIRY"},
         NEW status \in {"CANCELLED", "EXPIRED"}, kind = "EXPIRY" <=> status = "EXPIRED",
         Due(t, kind, o), order[o].status # "none",
         order' = IF IsTerminal(o) THEN order ELSE [order EXCEPT ![o].status = status],
         UNCHANGED <<fills, pending, executions, raised, twice>>
  PROVE  IInv'
<1>1. o \in Nat /\ TypeOK /\ InTime /\ raised = NoException
  BY DEF IInv, Orders, Due
<1>2. /\ now' = <<t, Priority[kind], o>> /\ now' \in Nat \X Nat \X Nat
      /\ Before(now, <<t, Priority[kind], o>>)
      /\ \A e \in pending : /\ e.time = t /\ ~Before(KeyOf(e), now')
                            /\ Before(<<t, Priority[kind], o>>, KeyOf(e))
  <2>1. CASE kind = "CANCEL"
    BY <1>1, <2>1, DueInTime, Zenon
  <2>2. CASE kind = "EXPIRY"
    BY <1>1, <2>2, DueInTime, ZenonT(30)
  <2> QED
    BY <2>1, <2>2
\* An expiry comes after every reaction of its instant.
<1>3. ASSUME kind = "EXPIRY" PROVE pending = {}
  <2> SUFFICES ASSUME NEW e \in pending PROVE FALSE
    OBVIOUS
  <2>1. e.time = t /\ e.seq \in Nat /\ Priority[e.kind] \in {14, 15}
    BY <1>1, <1>2, PendingAreTyped, Priorities
  <2>2. Before(<<t, 16, o>>, <<t, Priority[e.kind], e.seq>>)
    BY <1>2, <1>3, <2>1, Priorities DEF KeyOf, Key
  <2> QED
    BY <2>1, <2>2 DEF Before
<1>4. \A p \in Orders : /\ order'[p] = [order[p] EXCEPT !.status = order'[p].status]
                        /\ \/ order'[p].status = order[p].status
                           \/ p = o /\ order[p].status \notin TERMINAL \cup {"none"} /\ order'[p].status = status
  BY <1>1 DEF TypeOK, IsTerminal
<1>5. \A p \in Orders : /\ order'[p].filled = order[p].filled /\ order'[p].quantity = order[p].quantity
                        /\ order'[p].side = order[p].side /\ order'[p].session = order[p].session
  BY <1>1, <1>4 DEF TypeOK
<1>6. CountsWhatIsBooked' /\ FillsAreFunded' /\ Account' = Account
  BY <1>5, LedgerStays
<1>7. TypeOK'
  <2>1. order' \in [Orders -> [status : Statuses, side : {"BUY", "SELL"}, quantity : Nat,
                               filled : Nat, session : Nat]]
    <3>1. status \in Statuses
      BY DEF Statuses, TERMINAL
    <3>2. order \in [Orders -> [status : Statuses, side : {"BUY", "SELL"}, quantity : Nat,
                                filled : Nat, session : Nat]]
      BY <1>1 DEF TypeOK
    <3>3. [order EXCEPT ![o].status = status]
            \in [Orders -> [status : Statuses, side : {"BUY", "SELL"}, quantity : Nat,
                            filled : Nat, session : Nat]]
      BY <1>1, <3>1, StatusIsTyped
    <3> QED
      BY <3>2, <3>3, Zenon
  <2> QED
    BY <1>1, <1>2, <2>1 DEF TypeOK
<1>8. InTime'
  <2>1. BookedBy(now')
    BY <1>1, <1>2, DueIsLater, BookedInTime
  <2>2. BookedBy(now)'
    BY <2>1 DEF BookedBy
  <2> QED
    BY <1>2, <2>2 DEF InTime, KeyOf, Key
<1>9. OneAnswer' /\ Numbered'
  BY DEF IInv, OneAnswer, Numbered
<1>10. CallbackIsDue' /\ PromiseFits'
  <2>1. ASSUME NEW e \in pending
        PROVE  order'[e.order].status \in {order[e.order].status, "CANCELLED"} /\ e.order \in Orders
    BY <1>1, <1>3, <1>4, PendingAreTyped
  <2> QED
    BY <1>5, <2>1, PendingAreTyped DEF IInv, CallbackIsDue, PromiseFits, Leaves
<1>11. PromiseIsFunded'
  BY <1>1, <1>5, PendingAreTyped DEF IInv, PromiseIsFunded, Earlier
<1>12. BookedAsOrdered'
  BY <1>1, <1>4, <1>5, BookingsAreTyped DEF IInv, BookedAsOrdered
<1>13. StatusFollowsCount'
  <2> SUFFICES ASSUME NEW p \in Orders
               PROVE  LET r == order'[p] IN
                      /\ r.filled <= r.quantity
                      /\ r.status = "none" => r.quantity = 0
                      /\ r.status # "none" => r.quantity > 0
                      /\ r.status = "FILLED" <=> r.quantity > 0 /\ r.filled = r.quantity
                      /\ r.status \in {"SUBMITTED", "ACCEPTED", "REJECTED"} => r.filled = 0
    BY DEF StatusFollowsCount
  <2> QED
    BY <1>4, <1>5 DEF IInv, StatusFollowsCount, TERMINAL
<1>14. RaisedFor'
  BY <1>1, <1>6 DEF RaisedFor, NoException
<1> QED
  BY <1>6, <1>7, <1>8, <1>9, <1>10, <1>11, <1>12, <1>13, <1>14 DEF IInv

\* An event that changes nothing, but may end the run.
LEMMA ClockMoves ==
  ASSUME IInv, NEW t \in 1..MaxTime, NEW seq \in Nat, NEW kind \in {"CANCEL", "FILL", "EXPIRY"},
         Due(t, kind, seq), UNCHANGED <<order, fills, pending, executions, twice>>, RaisedFor'
  PROVE  IInv'
<1>1. TypeOK /\ InTime
  BY DEF IInv
<1>2. /\ now' \in Nat \X Nat \X Nat /\ Before(now, now') /\ now'[1] = t
      /\ \A e \in pending : e.time = t /\ ~Before(KeyOf(e), now')
  <2>1. /\ now' = <<t, Priority[kind], seq>> /\ now' \in Nat \X Nat \X Nat
        /\ Before(now, <<t, Priority[kind], seq>>)
        /\ \A e \in pending : e.time = t /\ ~Before(KeyOf(e), now')
    <3> DEFINE k == Priority[kind]
    <3>1. kind \in {"BAR", "ORDER", "CANCEL", "FILL", "EXPIRY"} /\ Priority[kind] = k
      OBVIOUS
    <3> HIDE DEF k
    <3>2. /\ now' = <<t, k, seq>> /\ now' \in Nat \X Nat \X Nat /\ now[1] <= t
          /\ Before(now, <<t, k, seq>>)
          /\ \A e \in pending : e.time = t /\ now[1] = t /\ ~Before(KeyOf(e), now')
      BY <1>1, <3>1, DueAt
    <3> QED
      BY <3>1, <3>2
  <2> QED
    BY <2>1
<1>3. CountsWhatIsBooked' /\ FillsAreFunded' /\ Account' = Account
  BY LedgerStays
<1>4. InTime'
  <2>1. BookedBy(now')
    BY <1>1, <1>2, DueIsLater, BookedInTime
  <2>2. BookedBy(now)'
    BY <2>1 DEF BookedBy
  <2> QED
    BY <1>2, <2>2 DEF InTime, KeyOf, Key
<1>5. TypeOK' /\ OneAnswer' /\ CallbackIsDue' /\ Numbered' /\ BookedAsOrdered' /\ StatusFollowsCount'
  BY <1>1, <1>2
     DEF IInv, TypeOK, OneAnswer, CallbackIsDue, Numbered, BookedAsOrdered, StatusFollowsCount
<1>6. PromiseFits' /\ PromiseIsFunded'
  BY DEF IInv, PromiseFits, Leaves, PromiseIsFunded, Earlier
<1> QED
  BY <1>3, <1>4, <1>5, <1>6 DEF IInv

\* An event of an order that was never opened ends the run.
LEMMA UnroutableKeeps ==
  ASSUME IInv, NEW o \in Orders, NEW t \in 1..MaxTime, NEW kind \in {"CANCEL", "EXPIRY"},
         Due(t, kind, o), NEW status, Close(o, status), order[o].status = "none"
  PROVE  IInv'
<1>1. /\ UNCHANGED <<order, fills, pending, executions, twice>>
      /\ raised' = [what |-> "UnroutableEvent", order |-> o]
  BY DEF Close, Raise
<1>2. RaisedFor'
  BY <1>1 DEF RaisedFor
<1>3. o \in Nat /\ kind \in {"CANCEL", "FILL", "EXPIRY"}
  BY DEF Orders
<1> QED
  BY <1>1, <1>2, <1>3, ClockMoves

LEMMA CancelKeeps ==
  ASSUME IInv, NEW o \in Orders, NEW t \in 1..MaxTime, OnCancel(o, t) PROVE IInv'
<1>1. CASE order[o].status = "none"
  BY <1>1, UnroutableKeeps DEF OnCancel
<1>2. CASE order[o].status # "none"
  BY <1>2, ClosingKeeps DEF OnCancel, Close
<1> QED
  BY <1>1, <1>2

LEMMA ExpiryKeeps ==
  ASSUME IInv, NEW o \in Orders, NEW t \in 1..MaxTime, OnExpiry(o, t) PROVE IInv'
<1>1. CASE order[o].status = "none"
  BY <1>1, UnroutableKeeps DEF OnExpiry
<1>2. CASE order[o].status # "none"
  BY <1>2, ClosingKeeps DEF OnExpiry, Close
<1> QED
  BY <1>1, <1>2

\* An execution that is on the ledger is known to its order: absorbed, or contradicted.
LEMMA RedeliverKeeps ==
  ASSUME IInv, NEW i \in DOMAIN fills, NEW t \in 1..MaxTime, Redeliver(i, t) PROVE IInv'
<1>1. fills[i].execution \in Nat
  BY BookingsAreTyped DEF IInv
<1>2. PICK f \in {fills[i], [fills[i] EXCEPT !.quantity = @ + 1]} : Execute(f.order, f)
  BY DEF Redeliver
<1>3. f.order = fills[i].order /\ f.execution = fills[i].execution
  <2>1. fills[i] \in Booking
    BY BookingsAreTyped DEF IInv
  <2> QED
    BY <2>1 DEF Booking
<1>4. Known(f.order, f.execution)
  BY <1>3 DEF Known
<1>5. /\ UNCHANGED <<order, fills, pending, executions, twice>> /\ raised = NoException
      /\ \/ raised' = raised
         \/ raised' = [what |-> "DuplicateExecution", order |-> f.order]
  BY <1>2, <1>4 DEF Redeliver, Execute, Raise, Due
<1>6. RaisedFor'
  BY <1>3, <1>5 DEF RaisedFor, NoException
<1> QED
  BY <1>1, <1>5, <1>6, ClockMoves DEF Redeliver

\* What popping a reaction leaves of the others, when their orders are left alone.
LEMMA OthersWait ==
  ASSUME IInv, NEW e \in pending, Pop(e),
         order' \in [Orders -> [status : Statuses, side : {"BUY", "SELL"}, quantity : Nat,
                                filled : Nat, session : Nat]],
         \A p \in Orders \ {e.order} : order'[p] = order[p], order'[e.order].status # "none",
         twice' = twice
  PROVE  /\ OneAnswer' /\ CallbackIsDue' /\ PromiseFits'
         /\ \A f \in pending' : f \in pending /\ f # e /\ f.order \in Orders
<1>1. \A f \in pending' : f \in pending /\ f # e /\ f.order \in Orders
  BY PendingAreTyped DEF Pop, IInv
<1>2. \A f \in pending' : f.order = e.order => f.order \in twice
  BY <1>1 DEF IInv, OneAnswer
<1>3. OneAnswer'
  BY <1>1 DEF IInv, OneAnswer
<1>4. ASSUME NEW f \in pending', f.order # e.order
      PROVE  order'[f.order] = order[f.order]
  BY <1>1, <1>4
<1>5. CallbackIsDue'
  BY <1>1, <1>2, <1>4 DEF IInv, CallbackIsDue
<1>6. PromiseFits'
  BY <1>1, <1>2, <1>4 DEF IInv, PromiseFits, Leaves
<1> QED
  BY <1>1, <1>3, <1>5, <1>6

LEMMA CallbackKeeps == ASSUME IInv, NEW e \in pending, OnCallback(e) PROVE IInv'
<1>1. /\ TypeOK /\ InTime /\ Pop(e) /\ e \in Callbacks /\ e.order \in Orders
      /\ e.status \in {"ACCEPTED", "REJECTED"} /\ fills' = fills /\ executions' = executions
      /\ raised = NoException /\ twice' = twice
  BY PendingAreTyped DEF IInv, OnCallback, Transition, Raise, Pop, Callbacks
<1>2. /\ now' \in Nat \X Nat \X Nat /\ now'[1] = now[1] /\ BookedBy(now') /\ now' = KeyOf(e)
      /\ \A f \in pending : f.time = now[1] /\ ~Before(KeyOf(f), now')
  BY <1>1, PopInTime DEF Pop
<1>3. \/ /\ order' = [order EXCEPT ![e.order].status = e.status] /\ raised' = raised
         /\ \/ order[e.order].status = "SUBMITTED"
            \/ order[e.order].status = "ACCEPTED" /\ e.status = "REJECTED"
      \/ /\ order' = order /\ raised' = [what |-> "IllegalTransition", order |-> e.order]
         /\ \/ order[e.order].status \in {"CANCELLED", "PARTIALLY_FILLED"}
            \/ e.order \in twice
  <2>1. \/ order[e.order].status \in {"SUBMITTED", "CANCELLED"}
        \/ e.status = "REJECTED" /\ order[e.order].status \in {"ACCEPTED", "PARTIALLY_FILLED"}
        \/ e.order \in twice
    BY <1>1 DEF IInv, CallbackIsDue, OnCallback
  <2>2. order[e.order].status \in {"SUBMITTED", "ACCEPTED"} => order[e.order].filled = 0
    BY <1>1 DEF IInv, StatusFollowsCount
  <2>3. Transition(e.order, e.status)
    BY DEF OnCallback
  <2>4. CASE e.status \in Allowed(order[e.order].status)
             /\ (e.status = "REJECTED" => order[e.order].filled = 0)
    <3>1. order' = [order EXCEPT ![e.order].status = e.status] /\ raised' = raised
      BY <2>3, <2>4 DEF Transition
    <3>2. \/ order[e.order].status = "SUBMITTED"
          \/ order[e.order].status = "ACCEPTED" /\ e.status = "REJECTED"
      BY <1>1, <2>4 DEF Allowed
    <3> QED
      BY <3>1, <3>2
  <2>5. CASE ~(e.status \in Allowed(order[e.order].status)
               /\ (e.status = "REJECTED" => order[e.order].filled = 0))
    <3>1. order' = order /\ raised' = [what |-> "IllegalTransition", order |-> e.order]
      BY <2>3, <2>5 DEF Transition, Raise
    <3>2. order[e.order].status \in {"CANCELLED", "PARTIALLY_FILLED"} \/ e.order \in twice
      BY <1>1, <2>1, <2>2, <2>5 DEF Allowed
    <3> QED
      BY <3>1, <3>2
  <2> QED
    BY <2>4, <2>5
<1>4. \A p \in Orders : /\ order'[p].filled = order[p].filled /\ order'[p].quantity = order[p].quantity
                        /\ order'[p].side = order[p].side /\ order'[p].session = order[p].session
                        /\ p # e.order => order'[p] = order[p]
  <2>1. CASE order' = order
    BY <2>1
  <2>2. CASE order' = [order EXCEPT ![e.order].status = e.status]
    <3>1. ASSUME NEW p \in Orders, p # e.order PROVE order'[p] = order[p]
      BY <1>1, <2>2, <3>1 DEF TypeOK
    <3>2. order'[e.order] = [order[e.order] EXCEPT !.status = e.status]
      BY <1>1, <2>2 DEF TypeOK
    <3>3. order[e.order] \in [status : Statuses, side : {"BUY", "SELL"}, quantity : Nat,
                             filled : Nat, session : Nat]
      BY <1>1 DEF TypeOK
    <3> QED
      BY <3>1, <3>2, <3>3
  <2> QED
    BY <1>3, <2>1, <2>2
<1>5. order' \in [Orders -> [status : Statuses, side : {"BUY", "SELL"}, quantity : Nat,
                             filled : Nat, session : Nat]]
  <2>1. order' = order \/ order' = [order EXCEPT ![e.order].status = e.status]
    BY <1>3
  <2>2. e.status \in Statuses
    BY <1>1 DEF Statuses, TERMINAL
  <2>3. order \in [Orders -> [status : Statuses, side : {"BUY", "SELL"}, quantity : Nat,
                              filled : Nat, session : Nat]]
    BY <1>1 DEF TypeOK
  <2>4. [order EXCEPT ![e.order].status = e.status]
          \in [Orders -> [status : Statuses, side : {"BUY", "SELL"}, quantity : Nat,
                          filled : Nat, session : Nat]]
    BY <1>1, <2>2, StatusIsTyped
  <2> QED
    BY <2>1, <2>3, <2>4, Zenon
<1>6. CountsWhatIsBooked' /\ FillsAreFunded' /\ Account' = Account
  BY <1>1, <1>4, LedgerStays
<1>7. /\ OneAnswer' /\ CallbackIsDue' /\ PromiseFits'
      /\ \A f \in pending' : f \in pending /\ f.order \in Orders
  <2>1. order'[e.order].status # "none"
    <3>1. order[e.order].status # "none"
      BY PendingAreOpened
    <3> QED
      BY <1>1, <1>3, <3>1 DEF TypeOK
  <2> QED
    BY <1>1, <1>4, <1>5, <2>1, OthersWait
<1>8. TypeOK'
  BY <1>1, <1>2, <1>5, <1>7 DEF TypeOK
<1>9. InTime'
  <2>1. BookedBy(now)'
    BY <1>1, <1>2 DEF BookedBy
  <2> QED
    BY <1>1, <1>2, <1>7, <2>1 DEF InTime, KeyOf, Key
<1>10. PromiseIsFunded' /\ Numbered'
  BY <1>1, <1>4, <1>7 DEF IInv, PromiseIsFunded, Earlier, Numbered
<1>11. BookedAsOrdered'
  <2>1. \A p \in Orders : order[p].status # "none" => order'[p].status # "none"
    BY <1>1, <1>3, <1>4 DEF TypeOK
  <2> QED
    BY <1>1, <1>4, <2>1, BookingsAreTyped DEF IInv, BookedAsOrdered
<1>12. StatusFollowsCount'
  <2> SUFFICES ASSUME NEW p \in Orders
               PROVE  LET r == order'[p] IN
                      /\ r.filled <= r.quantity
                      /\ r.status = "none" => r.quantity = 0
                      /\ r.status # "none" => r.quantity > 0
                      /\ r.status = "FILLED" <=> r.quantity > 0 /\ r.filled = r.quantity
                      /\ r.status \in {"SUBMITTED", "ACCEPTED", "REJECTED"} => r.filled = 0
    BY DEF StatusFollowsCount
  <2>1. CASE p # e.order \/ order' = order
    BY <1>4, <2>1 DEF IInv, StatusFollowsCount
  <2>2. CASE p = e.order /\ order' # order
    <3>1. order'[p].status = e.status /\ order[p].status \in {"SUBMITTED", "ACCEPTED"}
      BY <1>1, <1>3, <2>2 DEF TypeOK
    <3> QED
      BY <1>1, <1>4, <3>1 DEF IInv, StatusFollowsCount, TypeOK
  <2> QED
    BY <2>1, <2>2
<1>13. RaisedFor'
  BY <1>1, <1>3 DEF RaisedFor, NoException
<1> QED
  BY <1>6, <1>7, <1>8, <1>9, <1>10, <1>11, <1>12, <1>13 DEF IInv

-----------------------------------------------------------------------------
(* Handlers that promise and book *)

\* What one more execution changes of what is read off the ledger.
LEMMA LedgerGrows ==
  ASSUME TypeOK, NEW f \in Booking, fills' = Append(fills, f)
  PROVE  /\ fills' \in Seq(Booking) /\ Len(fills') = Len(fills) + 1
         /\ DOMAIN fills' = DOMAIN fills \cup {Len(fills) + 1}
         /\ fills'[Len(fills) + 1] = f /\ \A i \in DOMAIN fills : fills'[i] = fills[i]
         /\ \A n \in 0..Len(fills) : AccountAfter(fills', n) = AccountAfter(fills, n)
         /\ \A p \in Orders : Booked(p)' = Booked(p) + IF f.order = p THEN f.quantity ELSE 0
<1>1. /\ fills' \in Seq(Booking) /\ Len(fills') = Len(fills) + 1
      /\ DOMAIN fills' = DOMAIN fills \cup {Len(fills) + 1}
      /\ fills'[Len(fills) + 1] = f /\ \A i \in DOMAIN fills : fills'[i] = fills[i]
      /\ DOMAIN fills = 1..Len(fills) /\ Len(fills) \in Nat
  BY DEF TypeOK
<1>2. ASSUME NEW n \in 0..Len(fills) PROVE AccountAfter(fills', n) = AccountAfter(fills, n)
  <2>1. n \in Nat /\ \A i \in 1..n : fills'[i] = fills[i]
    BY <1>1
  <2> QED
    BY <2>1, AccountAgrees
<1>3. ASSUME NEW p \in Orders
      PROVE  Booked(p)' = Booked(p) + IF f.order = p THEN f.quantity ELSE 0
  <2> DEFINE v == [i \in DOMAIN fills |-> IF fills[i].order = p THEN fills[i].quantity ELSE 0]
             w == [i \in DOMAIN fills' |-> IF fills'[i].order = p THEN fills'[i].quantity ELSE 0]
  <2>1. \A i \in 1..Len(fills) : w[i] = v[i]
    BY <1>1
  <2>2. w[Len(fills) + 1] = IF f.order = p THEN f.quantity ELSE 0
    BY <1>1
  <2>3. Booked(p) = Total(v, Len(fills)) /\ Booked(p)' = Total(w, Len(fills) + 1)
    BY <1>1 DEF Booked
  <2> HIDE DEF v, w
  <2>4. Total(w, Len(fills) + 1) = Total(w, Len(fills)) + w[Len(fills) + 1]
    BY <1>1, TotalOfNext
  <2>5. Total(w, Len(fills)) = Total(v, Len(fills))
    BY <1>1, <2>1, TotalAgrees
  <2> QED
    BY <2>2, <2>3, <2>4, <2>5
<1> QED
  BY <1>1, <1>2, <1>3

LEMMA FillKeeps == ASSUME IInv, NEW e \in pending, OnFill(e) PROVE IInv'
<1> DEFINE o == e.order
           f == [execution |-> e.seq, order |-> o, side |-> order[o].side, quantity |-> e.quantity,
                 price |-> e.price, time |-> e.time, dated |-> Dated(o, e.time)]
           r == [order[o] EXCEPT !.status = IF order[o].filled + e.quantity = order[o].quantity
                                            THEN "FILLED" ELSE "PARTIALLY_FILLED",
                                 !.filled = order[o].filled + e.quantity]
<1>1. /\ TypeOK /\ InTime /\ Pop(e) /\ e.kind = "FILL" /\ e \in Promises /\ o \in Orders
      /\ executions' = executions /\ raised = NoException /\ Execute(o, f) /\ twice' = twice
      /\ e.seq \in Nat /\ e.quantity \in Nat /\ e.price \in Prices /\ e.time \in 1..MaxTime
      /\ e.time = now[1]
  BY PendingAreTyped DEF IInv, InTime, OnFill, Pop, Promises
<1>2. order[o] \in [status : Statuses, side : {"BUY", "SELL"}, quantity : Nat, filled : Nat, session : Nat]
  BY <1>1 DEF TypeOK
<1>3. /\ now' \in Nat \X Nat \X Nat /\ now'[1] = now[1] /\ BookedBy(now') /\ now' = KeyOf(e)
      /\ \A g \in pending : g.time = now[1] /\ ~Before(KeyOf(g), now')
  BY <1>1, PopInTime DEF Pop
<1>4. /\ 0 < e.quantity
      /\ o \notin twice => /\ order[o].status \in {"ACCEPTED", "PARTIALLY_FILLED", "CANCELLED"}
                           /\ order[o].filled + e.quantity <= order[o].quantity
  BY <1>1, <1>2 DEF IInv, PromiseFits, Leaves
<1>5. ~Known(o, e.seq)
  BY <1>1, BookingsAreTyped DEF Known, IInv, Numbered
<1>6. \/ /\ order' = order /\ fills' = fills
         /\ \/ /\ raised' = [what |-> "IllegalTransition", order |-> o]
               /\ order[o].status = "CANCELLED" \/ o \in twice
            \/ raised' = [what |-> "ValueError", order |-> o] /\ o \in twice
      \/ /\ order[o].status \in {"ACCEPTED", "PARTIALLY_FILLED"}
         /\ order[o].filled + e.quantity <= order[o].quantity
         /\ order' = [order EXCEPT ![o] = r] /\ fills' = Append(fills, f) /\ raised' = raised
  <2> DEFINE target == IF order[o].filled + e.quantity = order[o].quantity
                       THEN "FILLED" ELSE "PARTIALLY_FILLED"
  <2>1. CASE IsTerminal(o)
    <3>1. order' = order /\ fills' = fills /\ raised' = [what |-> "IllegalTransition", order |-> o]
      BY <1>1, <1>5, <2>1 DEF Execute, Raise
    <3>2. order[o].status = "CANCELLED" \/ o \in twice
      BY <1>4, <2>1 DEF IsTerminal, TERMINAL
    <3> QED
      BY <3>1, <3>2
  <2>2. CASE ~IsTerminal(o) /\ order[o].filled + e.quantity > order[o].quantity
    <3>1. order' = order /\ fills' = fills /\ raised' = [what |-> "ValueError", order |-> o]
      BY <1>1, <1>5, <2>2 DEF Execute, Raise
    <3>2. o \in twice
      BY <1>1, <1>2, <1>4, <2>2
    <3> QED
      BY <3>1, <3>2
  <2>3. CASE /\ ~IsTerminal(o) /\ ~(order[o].filled + e.quantity > order[o].quantity)
             /\ target \notin Allowed(order[o].status)
    <3>1. order' = order /\ fills' = fills /\ raised' = [what |-> "IllegalTransition", order |-> o]
      BY <1>1, <1>5, <2>3 DEF Execute, Raise
    <3>2. order[o].status \notin {"ACCEPTED", "PARTIALLY_FILLED"}
      BY <2>3 DEF Allowed
    <3> QED
      BY <1>4, <3>1, <3>2
  <2>4. CASE /\ ~IsTerminal(o) /\ ~(order[o].filled + e.quantity > order[o].quantity)
             /\ target \in Allowed(order[o].status)
    <3>1. /\ order' = [order EXCEPT ![o].status = target, ![o].filled = order[o].filled + e.quantity]
          /\ fills' = Append(fills, f) /\ raised' = raised
      BY <1>1, <1>5, <2>4 DEF Execute
    <3>2. order' = [order EXCEPT ![o] = r]
      BY <1>1, <1>2, <3>1 DEF TypeOK
    <3>3. order[o].status \in {"ACCEPTED", "PARTIALLY_FILLED", "CANCEL_REQUESTED"}
      BY <2>4 DEF Allowed
    <3>4. order[o].status \in {"ACCEPTED", "PARTIALLY_FILLED"}
      BY <1>2, <3>3 DEF Statuses, TERMINAL
    <3>5. order[o].filled + e.quantity <= order[o].quantity
      BY <1>1, <1>2, <2>4
    <3> QED
      BY <3>1, <3>2, <3>4, <3>5
  <2> QED
    BY <2>1, <2>2, <2>3, <2>4
<1>7. CASE UNCHANGED <<order, fills>>
           /\ raised'.order = o /\ raised'.what \in {"IllegalTransition", "ValueError"}
           /\ \/ o \in twice
              \/ raised'.what = "IllegalTransition" /\ order[o].status = "CANCELLED"
  <2>2. CountsWhatIsBooked' /\ FillsAreFunded' /\ Account' = Account
    BY <1>7, LedgerStays
  <2>3. /\ OneAnswer' /\ CallbackIsDue' /\ PromiseFits' /\ \A g \in pending' : g \in pending
    <3>1. order'[o].status # "none"
      BY <1>7, PendingAreOpened
    <3> QED
      BY <1>1, <1>7, <3>1, OthersWait DEF TypeOK
  <2>4. BookedBy(now)'
    BY <1>3, <1>7 DEF BookedBy
  <2>5. TypeOK' /\ InTime'
    BY <1>1, <1>3, <1>7, <2>3, <2>4 DEF TypeOK, InTime, KeyOf, Key
  <2>6. PromiseIsFunded' /\ Numbered' /\ BookedAsOrdered' /\ StatusFollowsCount'
    BY <1>1, <1>7, <2>3
       DEF IInv, PromiseIsFunded, Earlier, Numbered, BookedAsOrdered, StatusFollowsCount
  <2>7. RaisedFor'
    BY <1>1, <1>7 DEF RaisedFor
  <2> QED
    BY <2>2, <2>3, <2>5, <2>6, <2>7 DEF IInv
<1>8. CASE /\ order[o].status \in {"ACCEPTED", "PARTIALLY_FILLED"}
           /\ order[o].filled + e.quantity <= order[o].quantity
           /\ order' = [order EXCEPT ![o] = r] /\ fills' = Append(fills, f) /\ raised' = raised
  <2>1. /\ order' = [order EXCEPT ![o] = r] /\ fills' = Append(fills, f) /\ raised' = raised
    BY <1>8
  <2>2. f \in Booking /\ f.dated = order[o].session
    BY <1>1, <1>2 DEF Booking, Dated
  <2>3. /\ order'[o] = r /\ \A p \in Orders \ {o} : order'[p] = order[p]
        /\ r \in [status : Statuses, side : {"BUY", "SELL"}, quantity : Nat, filled : Nat, session : Nat]
        /\ r.side = order[o].side /\ r.quantity = order[o].quantity /\ r.session = order[o].session
        /\ r.filled = order[o].filled + e.quantity
    <3>1. /\ r \in [status : Statuses, side : {"BUY", "SELL"}, quantity : Nat, filled : Nat, session : Nat]
          /\ r.side = order[o].side /\ r.quantity = order[o].quantity /\ r.session = order[o].session
          /\ r.filled = order[o].filled + e.quantity
      <4>1. ASSUME NEW st \in Statuses, NEW k \in Nat
            PROVE  LET q == [order[o] EXCEPT !.status = st, !.filled = k] IN
                   /\ q \in [status : Statuses, side : {"BUY", "SELL"}, quantity : Nat,
                              filled : Nat, session : Nat]
                   /\ q.side = order[o].side /\ q.quantity = order[o].quantity
                   /\ q.session = order[o].session /\ q.filled = k
        BY <1>2
      <4>2. (IF order[o].filled + e.quantity = order[o].quantity THEN "FILLED"
             ELSE "PARTIALLY_FILLED") \in Statuses
        BY DEF Statuses, TERMINAL
      <4>3. order[o].filled + e.quantity \in Nat
        BY <1>1, <1>2
      <4> QED
        BY <4>1, <4>2, <4>3
    <3> HIDE DEF r
    <3> QED
      BY <1>1, <2>1, <3>1 DEF TypeOK
  <2> HIDE DEF f, r
  <2>4. order' \in [Orders -> [status : Statuses, side : {"BUY", "SELL"}, quantity : Nat,
                               filled : Nat, session : Nat]]
    BY <1>1, <2>1, <2>3 DEF TypeOK
  <2>5. /\ fills' \in Seq(Booking) /\ Len(fills') = Len(fills) + 1 /\ Len(fills) \in Nat
        /\ DOMAIN fills' = DOMAIN fills \cup {Len(fills) + 1} /\ DOMAIN fills = 1..Len(fills)
        /\ fills'[Len(fills) + 1] = f /\ \A i \in DOMAIN fills : fills'[i] = fills[i]
        /\ \A n \in 0..Len(fills) : AccountAfter(fills', n) = AccountAfter(fills, n)
        /\ \A p \in Orders : Booked(p)' = Booked(p) + IF f.order = p THEN f.quantity ELSE 0
    <3>1. Len(fills) \in Nat /\ DOMAIN fills = 1..Len(fills)
      BY <1>1 DEF TypeOK
    <3>2. fills' = Append(fills, f)
      BY <2>1
    <3> QED
      BY <1>1, <2>2, <3>1, <3>2, LedgerGrows
  <2>6. /\ f.execution = e.seq /\ f.order = o /\ f.side = order[o].side /\ f.quantity = e.quantity
        /\ f.price = e.price /\ f.time = now[1]
    BY <1>1 DEF f
  <2>7. /\ OneAnswer' /\ CallbackIsDue' /\ PromiseFits'
        /\ \A g \in pending' : g \in pending /\ g # e /\ g.order \in Orders
    <3>1. r.status # "none"
      BY DEF r
    <3>2. order'[o].status # "none"
      BY <2>3, <3>1
    <3> QED
      BY <1>1, <2>3, <2>4, <3>2, OthersWait
  <2>8. TypeOK'
    BY <1>1, <1>3, <2>4, <2>5, <2>7 DEF TypeOK
  <2>9. InTime'
    <3>1. BookedBy(now)'
      <4>1. now'[1] \in Nat /\ now'[2] = 15
        <5>1. KeyOf(e) = <<e.time, 15, e.seq>>
          BY <1>1, Priorities DEF KeyOf, Key
        <5> QED
          BY <1>3, <5>1
      <4>2. ASSUME NEW i \in DOMAIN fills'
            PROVE  fills'[i].time <= now'[1] /\ (fills'[i].time = now'[1] => now'[2] >= 15)
        <5>1. CASE i \in DOMAIN fills
          BY <1>3, <2>5, <5>1 DEF BookedBy
        <5>2. CASE i = Len(fills) + 1
          BY <1>3, <2>5, <2>6, <4>1, <5>2
        <5> QED
          BY <2>5, <5>1, <5>2
      <4> QED
        BY <4>2 DEF BookedBy
    <3>2. \A g \in pending' : g.time = now'[1] /\ ~Before(KeyOf(g), now')
      BY <1>3, <2>7
    <3> QED
      BY <1>3, <3>1, <3>2 DEF InTime, KeyOf, Key
  <2>10. \A t \in 1..MaxTime, n \in 0..Len(fills) : t <= now[1] /\ Earlier(n, t) =>
              \A j \in DOMAIN fills' : j <= n <=> fills'[j].time < t
    <3> SUFFICES ASSUME NEW t \in 1..MaxTime, NEW n \in 0..Len(fills), t <= now[1], Earlier(n, t),
                        NEW j \in DOMAIN fills'
                 PROVE  j <= n <=> fills'[j].time < t
      BY DEF Earlier
    <3>1. CASE j \in DOMAIN fills
      BY <2>5, <3>1 DEF Earlier
    <3>2. CASE j = Len(fills) + 1
      BY <1>1, <2>5, <2>6, <3>2 DEF TypeOK
    <3> QED
      BY <2>5, <3>1, <3>2
  <2>11. PromiseIsFunded'
    <3> SUFFICES ASSUME NEW g \in pending', g.kind = "FILL"
                 PROVE  \E n \in 0..Len(fills') :
                          /\ \A j \in DOMAIN fills' : j <= n <=> fills'[j].time < g.time
                          /\ Covers(AccountAfter(fills', n), order'[g.order].side, g.quantity,
                                    g.price, SessionOf[g.time])
      BY DEF PromiseIsFunded, Earlier
    <3>1. g \in pending /\ g.order \in Orders /\ g.time \in 1..MaxTime /\ g.time <= now[1]
      BY <1>1, <2>7, PendingAreTyped DEF InTime, TypeOK
    <3>0. order'[g.order].side = order[g.order].side
      BY <2>3, <3>1
    <3>2. PICK n \in 0..Len(fills) :
                 /\ Earlier(n, g.time)
                 /\ Covers(AccountAfter(fills, n), order[g.order].side, g.quantity, g.price,
                           SessionOf[g.time])
      BY <3>1 DEF IInv, PromiseIsFunded
    <3>3. n \in 0..Len(fills')
      BY <2>5
    <3> QED
      BY <2>5, <2>10, <3>0, <3>1, <3>2, <3>3
  <2>12. FillsAreFunded'
    <3> SUFFICES ASSUME NEW i \in DOMAIN fills'
                 PROVE  \E n \in 0..(i - 1) :
                          /\ \A j \in DOMAIN fills' : j <= n <=> fills'[j].time < fills'[i].time
                          /\ Covers(AccountAfter(fills', n), fills'[i].side, fills'[i].quantity,
                                    fills'[i].price, SessionOf[fills'[i].time])
      BY DEF FillsAreFunded, Earlier
    <3>1. CASE i \in DOMAIN fills
      <4>1. PICK n \in 0..(i - 1) :
                   /\ Earlier(n, fills[i].time)
                   /\ Covers(AccountAfter(fills, n), fills[i].side, fills[i].quantity,
                             fills[i].price, SessionOf[fills[i].time])
        BY <3>1 DEF IInv, FillsAreFunded
      <4>2. n \in 0..Len(fills) /\ fills'[i] = fills[i]
            /\ fills[i].time \in 1..MaxTime /\ fills[i].time <= now[1]
        BY <1>1, <2>5, <3>1, BookingsAreTyped DEF InTime, BookedBy
      <4> QED
        BY <2>5, <2>10, <4>1, <4>2
    <3>2. CASE i = Len(fills) + 1
      <4>1. PICK n \in 0..Len(fills) :
                   /\ Earlier(n, e.time)
                   /\ Covers(AccountAfter(fills, n), order[o].side, e.quantity, e.price,
                             SessionOf[e.time])
        BY <1>1 DEF IInv, PromiseIsFunded
      <4>2. n \in 0..(i - 1) /\ fills'[i] = f /\ f.time = e.time
        BY <1>1, <2>5, <2>6, <3>2
      <4>3. \A j \in DOMAIN fills' : j <= n <=> fills'[j].time < e.time
        <5>1. e.time \in 1..MaxTime /\ e.time <= now[1]
          BY <1>1 DEF TypeOK
        <5> QED
          BY <2>10, <4>1, <5>1
      <4> QED
        BY <2>5, <2>6, <4>1, <4>2, <4>3
    <3> QED
      BY <2>5, <3>1, <3>2
  <2>13. Numbered'
    <3>1. ASSUME NEW g \in pending, g.kind = "FILL", g # e PROVE e.seq < g.seq
      <4>1. g.time = e.time /\ g.seq \in Nat /\ ~Before(KeyOf(g), KeyOf(e)) /\ g.seq # e.seq
        BY <1>1, <1>3, <3>1, PendingAreTyped DEF IInv, Numbered
      <4>2. KeyOf(g) = <<e.time, 15, g.seq>> /\ KeyOf(e) = <<e.time, 15, e.seq>>
        BY <1>1, <3>1, <4>1, Priorities DEF KeyOf, Key
      <4> QED
        BY <1>1, <4>1, <4>2 DEF Before
    <3>2. \A i \in DOMAIN fills : fills[i].execution < e.seq /\ fills[i].execution \in Nat
      BY <1>1, BookingsAreTyped DEF IInv, Numbered
    <3>3. e.seq <= executions
      BY <1>1 DEF IInv, Numbered
    <3>4. \A i \in DOMAIN fills' : fills'[i].execution <= executions'
      BY <1>1, <2>5, <2>6, <3>3 DEF IInv, Numbered
    <3>5. ASSUME NEW i \in DOMAIN fills', NEW j \in DOMAIN fills', i < j
          PROVE  fills'[i].execution < fills'[j].execution
      <4>1. i \in DOMAIN fills
        BY <2>5, <3>5
      <4>2. CASE j \in DOMAIN fills
        BY <2>5, <3>5, <4>1, <4>2 DEF IInv, Numbered
      <4>3. CASE j = Len(fills) + 1
        BY <2>5, <2>6, <3>2, <4>1, <4>3
      <4> QED
        BY <2>5, <4>2, <4>3
    <3>6. ASSUME NEW g \in pending', g.kind = "FILL"
          PROVE  /\ g.seq <= executions'
                 /\ \A i \in DOMAIN fills' : fills'[i].execution < g.seq
                 /\ \A h \in pending' : h.kind = "FILL" /\ h.seq = g.seq => h = g
      <4>1. g \in pending /\ g # e /\ \A h \in pending' : h \in pending
        BY <2>7
      <4>2. \A i \in DOMAIN fills' : fills'[i].execution < g.seq
        BY <2>5, <2>6, <3>1, <3>6, <4>1 DEF IInv, Numbered
      <4> QED
        BY <1>1, <3>6, <4>1, <4>2 DEF IInv, Numbered
    <3> QED
      BY <3>4, <3>5, <3>6 DEF Numbered
  <2>14. BookedAsOrdered'
    <3> SUFFICES ASSUME NEW i \in DOMAIN fills'
                 PROVE  /\ fills'[i].side = order'[fills'[i].order].side
                        /\ fills'[i].dated = order'[fills'[i].order].session
                        /\ order'[fills'[i].order].status # "none"
      BY DEF BookedAsOrdered
    <3>1. r.status # "none"
      BY DEF r
    <3>2. CASE i \in DOMAIN fills
      BY <1>1, <2>3, <2>5, <3>1, <3>2, BookingsAreTyped DEF IInv, BookedAsOrdered
    <3>3. CASE i = Len(fills) + 1
      BY <2>2, <2>3, <2>5, <2>6, <3>1, <3>3
    <3> QED
      BY <2>5, <3>2, <3>3
  <2>15. StatusFollowsCount'
    <3> SUFFICES ASSUME NEW p \in Orders
                 PROVE  LET q == order'[p] IN
                        /\ q.filled <= q.quantity
                        /\ q.status = "none" => q.quantity = 0
                        /\ q.status # "none" => q.quantity > 0
                        /\ q.status = "FILLED" <=> q.quantity > 0 /\ q.filled = q.quantity
                        /\ q.status \in {"SUBMITTED", "ACCEPTED", "REJECTED"} => q.filled = 0
      BY DEF StatusFollowsCount
    <3>1. CASE p # o
      BY <2>3, <3>1 DEF IInv, StatusFollowsCount
    <3>2. CASE p = o
      <4>1. r.status = IF r.filled = r.quantity THEN "FILLED" ELSE "PARTIALLY_FILLED"
        BY <1>2 DEF r
      <4> QED
        BY <1>1, <1>2, <1>4, <1>8, <2>3, <3>2, <4>1
    <3> QED
      BY <3>1, <3>2
  <2>16. CountsWhatIsBooked'
    <3> SUFFICES ASSUME NEW p \in Orders PROVE order'[p].filled = Booked(p)'
      BY DEF CountsWhatIsBooked
    <3>1. order[p].filled = Booked(p) /\ order[p].filled \in Nat
      BY <1>1 DEF IInv, CountsWhatIsBooked, TypeOK
    <3> QED
      BY <1>1, <2>3, <2>5, <2>6, <3>1
  <2>17. RaisedFor'
    BY <1>1, <2>1 DEF RaisedFor, NoException
  <2> QED
    BY <2>7, <2>8, <2>9, <2>11, <2>12, <2>13, <2>14, <2>15, <2>16, <2>17 DEF IInv
<1> HIDE DEF o, f, r
<1> QED
  BY <1>6, <1>7, <1>8

LEMMA FinitelyMany ==
  ASSUME NEW m \in Nat, NEW S \in SUBSET (1..m)
  PROVE  IsFiniteSet(S) /\ Cardinality(S) \in Nat
<1>1. IsFiniteSet(1..m)
  BY FS_Interval
<1>2. IsFiniteSet(S)
  BY <1>1, FS_Subset
<1> QED
  BY <1>2, FS_CardinalityType

\* The ranks of a finite set of numbers.
LEMMA Ranks ==
  ASSUME NEW m \in Nat, NEW S \in SUBSET (1..m), NEW o \in S
  PROVE  /\ Cardinality({p \in S : p <= o}) \in 1..Cardinality(S) /\ Cardinality(S) \in Nat
         /\ \A q \in S : o < q => Cardinality({p \in S : p <= o}) < Cardinality({p \in S : p <= q})
<1>1. IsFiniteSet(S)
  BY FinitelyMany
<1>2. ASSUME NEW q \in S
      PROVE  /\ IsFiniteSet({p \in S : p <= q}) /\ {p \in S : p <= q} \subseteq S
             /\ Cardinality({p \in S : p <= q}) \in Nat
             /\ Cardinality({p \in S : p <= q}) <= Cardinality(S)
  BY <1>1, FS_Subset, FS_CardinalityType
<1>3. Cardinality(S) \in Nat
  BY <1>1, FS_CardinalityType
<1>4. Cardinality({p \in S : p <= o}) # 0
  <2>1. o \in {p \in S : p <= o}
    OBVIOUS
  <2> QED
    BY <1>2, <2>1, FS_EmptySet
<1>5. ASSUME NEW q \in S, o < q
      PROVE  Cardinality({p \in S : p <= o}) < Cardinality({p \in S : p <= q})
  <2> DEFINE A == {p \in S : p <= o}
             B == {p \in S : p <= q}
  <2>1. A \subseteq B /\ q \in B /\ q \notin A
    <3>1. \A p \in S : p \in Nat
      OBVIOUS
    <3>2. o \in Nat /\ q \in Nat
      BY <3>1
    <3>3. ASSUME NEW p \in A PROVE p \in B
      <4>1. p \in S /\ p \in Nat /\ p <= o
        BY <3>1
      <4> QED
        BY <1>5, <3>2, <4>1
    <3>4. q <= q /\ ~(q <= o)
      BY <1>5, <3>2
    <3> QED
      BY <3>3, <3>4
  <2>2. IsFiniteSet(B) /\ Cardinality(A) \in Nat /\ Cardinality(B) \in Nat
    BY <1>2
  <2> HIDE DEF A, B
  <2>3. Cardinality(A) <= Cardinality(B) /\ Cardinality(A) # Cardinality(B)
    BY <2>1, <2>2, FS_Subset
  <2>4. Cardinality(A) < Cardinality(B)
    BY <2>2, <2>3
  <2> QED
    BY <2>4 DEF A, B
<1> QED
  BY <1>2, <1>3, <1>4, <1>5

LEMMA BarKeeps ==
  ASSUME IInv, NEW t \in 1..MaxTime, NEW bar \in 1..MaxBars, NEW volume \in Quantities,
         NEW price \in Prices, NEW reached \in SUBSET Orders, OnBar(t, bar, volume, price, reached)
  PROVE  IInv'
<1> DEFINE funded == {o \in reached : Funded(o, Fraction(o, volume), price, t)}
           number(o) == executions + Cardinality({p \in funded : p <= o})
           answer(o) == IF o \in funded
                        THEN Execution(t, number(o), o, Fraction(o, volume), price)
                        ELSE Callback(t, bar, o, "REJECTED")
           new == {answer(o) : o \in reached}
<1>1. /\ TypeOK /\ InTime /\ Due(t, "BAR", bar) /\ order' = order /\ fills' = fills
      /\ raised = NoException /\ reached \subseteq Working /\ executions \in Nat /\ bar \in Nat
  <2>1. /\ Due(t, "BAR", bar) /\ order' = order /\ fills' = fills /\ reached \subseteq Working
    BY DEF OnBar
  <2>2. bar \in Nat
    BY SizeAssumption
  <2>3. TypeOK /\ InTime
    BY DEF IInv
  <2> QED
    BY <2>1, <2>2, <2>3 DEF Due, TypeOK
<1>2. /\ now' = <<t, 8, bar>> /\ now' \in Nat \X Nat \X Nat
      /\ \A e \in pending : e.time = t /\ ~Before(KeyOf(e), now')
      /\ \A i \in DOMAIN fills : fills[i].time < t
      /\ BookedBy(now')
  BY <1>1, BarComesFirst
<1>3. \/ /\ raised' = [what |-> "InvariantViolation", order |-> 0] /\ ~Account.valid
         /\ UNCHANGED <<pending, executions, twice>>
      \/ /\ raised' = raised /\ pending' = pending \cup new
         /\ executions' = executions + Cardinality(funded)
         /\ twice' = twice \cup {o \in reached : \E e \in pending : e.order = o}
  <2>1. CASE reached # {} /\ ~Account.valid
    BY <2>1 DEF OnBar
  <2>2. CASE ~(reached # {} /\ ~Account.valid)
    BY <2>2 DEF OnBar
  <2> QED
    BY <2>1, <2>2
<1>4. CountsWhatIsBooked' /\ FillsAreFunded' /\ Account' = Account
  BY <1>1, LedgerStays
<1>5. BookedAsOrdered' /\ StatusFollowsCount'
  BY <1>1 DEF IInv, BookedAsOrdered, StatusFollowsCount
<1>6. RaisedFor'
  BY <1>1, <1>3, <1>4 DEF RaisedFor, NoException
<1>7. BookedBy(now)'
  BY <1>1, <1>2 DEF BookedBy
<1>8. CASE UNCHANGED <<pending, executions, twice>>
  <2>1. TypeOK' /\ InTime'
    BY <1>1, <1>2, <1>7, <1>8 DEF TypeOK, InTime, KeyOf, Key
  <2>2. OneAnswer' /\ CallbackIsDue' /\ PromiseFits' /\ PromiseIsFunded' /\ Numbered'
    BY <1>1, <1>8 DEF OneAnswer, CallbackIsDue, PromiseFits, Leaves, PromiseIsFunded, Earlier,
                      IInv, Numbered
  <2> QED
    BY <1>4, <1>5, <1>6, <2>1, <2>2 DEF IInv
<1> HIDE DEF new
<1>9. CASE /\ pending' = pending \cup new /\ executions' = executions + Cardinality(funded)
           /\ twice' = twice \cup {o \in reached : \E e \in pending : e.order = o}
  <2>1. ASSUME NEW o \in reached
        PROVE  /\ o \in Orders /\ order[o].status \in {"ACCEPTED", "PARTIALLY_FILLED"}
               /\ Fraction(o, volume) \in Nat /\ 0 < Fraction(o, volume)
               /\ Fraction(o, volume) <= Leaves(o)
    <3>1. /\ o \in Orders /\ order[o].status \in {"ACCEPTED", "PARTIALLY_FILLED"}
          /\ order[o].quantity \in Nat /\ order[o].filled \in Nat /\ volume \in Nat \ {0}
      BY <1>1 DEF Working, TypeOK, Quantities
    <3>2. order[o].filled < order[o].quantity
      BY <3>1 DEF IInv, StatusFollowsCount
    <3> QED
      BY <3>1, <3>2 DEF Fraction, Leaves
  <2>2. ASSUME NEW o \in funded
        PROVE  /\ number(o) \in Nat /\ executions < number(o) /\ number(o) <= executions'
               /\ \A p \in funded : o < p => number(o) < number(p)
    <3>1. funded \in SUBSET (1..NumOrders) /\ NumOrders \in Nat
      BY SizeAssumption DEF Orders
    <3> HIDE DEF funded
    <3>2. \A p \in funded : Cardinality({q \in funded : q <= p}) \in 1..Cardinality(funded)
      BY <3>1, Ranks
    <3>3. \A p \in funded : o < p =>
            Cardinality({q \in funded : q <= o}) < Cardinality({q \in funded : q <= p})
      BY <3>1, Ranks
    <3> DEFINE rank(p) == Cardinality({q \in funded : q <= p})
    <3>4. Cardinality(funded) \in Nat
      BY <3>1, FinitelyMany
    <3>5. \A p \in funded : rank(p) \in 1..Cardinality(funded) /\ (o < p => rank(o) < rank(p))
      BY <3>2, <3>3
    <3>6. \A p : number(p) = executions + rank(p)
      OBVIOUS
    <3> HIDE DEF rank, number
    <3> QED
      BY <1>1, <1>9, <3>4, <3>5, <3>6
  <2>3. executions' \in Nat
    <3>1. Cardinality(funded) \in Nat
      BY FinitelyMany, SizeAssumption DEF Orders
    <3> QED
      BY <1>1, <1>9, <3>1
  <2> HIDE DEF number
  <2>4. ASSUME NEW o \in funded
        PROVE  /\ answer(o) \in Promises /\ answer(o).kind = "FILL" /\ answer(o).time = t
               /\ answer(o).seq = number(o) /\ answer(o).order = o
               /\ answer(o).quantity = Fraction(o, volume) /\ answer(o).price = price
    <3>1. answer(o) = Execution(t, number(o), o, Fraction(o, volume), price) /\ o \in reached
      OBVIOUS
    <3>2. number(o) \in Nat /\ o \in Orders /\ Fraction(o, volume) \in Nat
      BY <2>1, <2>2
    <3> HIDE DEF funded, answer
    <3> QED
      BY <3>1, <3>2 DEF Execution, Promises
  <2>5. ASSUME NEW o \in reached, o \notin funded
        PROVE  /\ answer(o) \in Callbacks /\ answer(o).kind = "VENUE_CALLBACK" /\ answer(o).time = t
               /\ answer(o).order = o /\ answer(o).status = "REJECTED"
    <3>1. answer(o) = Callback(t, bar, o, "REJECTED") /\ o \in Orders
      BY <2>5
    <3> HIDE DEF funded, answer
    <3> QED
      BY <1>1, <3>1 DEF Callback, Callbacks
  <2>6. \A o \in funded : o \in reached /\ Funded(o, Fraction(o, volume), price, t)
    OBVIOUS
  <2> HIDE DEF funded, answer
  <2>7. \A e \in new : e.order \in reached /\ e = answer(e.order)
    BY <2>4, <2>5 DEF new
  <2>8. \A e \in new : e.kind = "FILL" <=> e.order \in funded
    BY <2>4, <2>5, <2>7
  <2>16. \A e \in pending' : e \in pending \/ e \in new
    BY <1>9
  <2>17. \A o : o \notin twice' => o \notin twice
    BY <1>9
  <2>9. TypeOK'
    <3>1. new \subseteq Callbacks \cup Promises
      BY <2>4, <2>5, <2>7
    <3> QED
      BY <1>1, <1>2, <1>9, <2>3, <3>1 DEF TypeOK
  <2>10. InTime'
    <3>1. ASSUME NEW e \in new PROVE e.time = t /\ ~Before(KeyOf(e), now')
      <4>1. e.time = t /\ e.kind \in {"FILL", "VENUE_CALLBACK"}
        BY <2>4, <2>5, <2>7
      <4>2. KeyOf(e) = <<t, Priority[e.kind], e.seq>> /\ Priority[e.kind] \in {14, 15}
        BY <4>1, Priorities DEF KeyOf, Key
      <4> QED
        BY <1>2, <4>1, <4>2 DEF Before
    <3> QED
      BY <1>2, <1>7, <2>16, <3>1 DEF InTime, KeyOf, Key
  <2>11. OneAnswer'
    <3> SUFFICES ASSUME NEW e \in pending', NEW f \in pending', e.order = f.order, e # f
                 PROVE  e.order \in twice'
      BY DEF OneAnswer
    <3>1. CASE e \in pending /\ f \in pending
      BY <1>9, <3>1 DEF IInv, OneAnswer
    <3>2. CASE e \in new /\ f \in new
      BY <2>7, <3>2
    <3>3. CASE e \in pending /\ f \in new
      BY <1>9, <2>7, <3>3
    <3>4. CASE e \in new /\ f \in pending
      BY <1>9, <2>7, <3>4
    <3> QED
      BY <2>16, <3>1, <3>2, <3>3, <3>4
  <2>12. CallbackIsDue'
    <3> SUFFICES ASSUME NEW e \in pending'
                 PROVE  /\ order[e.order].status # "none"
                        /\ e.kind = "VENUE_CALLBACK" /\ e.order \notin twice' =>
                             \/ order[e.order].status \in {"SUBMITTED", "CANCELLED"}
                             \/ /\ e.status = "REJECTED"
                                /\ order[e.order].status \in {"ACCEPTED", "PARTIALLY_FILLED"}
      BY <1>1 DEF CallbackIsDue
    <3>1. CASE e \in pending
      BY <2>17, <3>1 DEF IInv, CallbackIsDue
    <3>2. CASE e \in new
      BY <2>1, <2>4, <2>5, <2>7, <3>2
    <3> QED
      BY <2>16, <3>1, <3>2
  <2>13. PromiseFits'
    <3> SUFFICES ASSUME NEW e \in pending', e.kind = "FILL"
                 PROVE  /\ 0 < e.quantity
                        /\ e.order \notin twice' =>
                             /\ order[e.order].status \in {"ACCEPTED", "PARTIALLY_FILLED", "CANCELLED"}
                             /\ e.quantity <= Leaves(e.order)
      BY <1>1 DEF PromiseFits, Leaves
    <3>1. CASE e \in pending
      BY <2>17, <3>1 DEF IInv, PromiseFits
    <3>2. CASE e \in new
      BY <2>1, <2>4, <2>6, <2>7, <2>8, <3>2
    <3> QED
      BY <2>16, <3>1, <3>2
  <2>14. PromiseIsFunded'
    <3> SUFFICES ASSUME NEW e \in pending', e.kind = "FILL"
                 PROVE  \E n \in 0..Len(fills) :
                          /\ Earlier(n, e.time)
                          /\ Covers(AccountAfter(fills, n), order[e.order].side, e.quantity,
                                    e.price, SessionOf[e.time])
      BY <1>1 DEF PromiseIsFunded, Earlier
    <3>0. CASE e \in pending
      BY <3>0 DEF IInv, PromiseIsFunded
    <3> SUFFICES ASSUME e \in new PROVE Earlier(Len(fills), e.time) /\ Len(fills) \in 0..Len(fills)
                        /\ Covers(AccountAfter(fills, Len(fills)), order[e.order].side, e.quantity,
                                  e.price, SessionOf[e.time])
      BY <2>16, <3>0
    <3>1. /\ e.order \in funded /\ e.time = t /\ e.quantity = Fraction(e.order, volume)
          /\ e.price = price
      BY <2>4, <2>7, <2>8
    <3>2. Covers(AccountAfter(fills, Len(fills)), order[e.order].side, e.quantity, e.price,
                 SessionOf[e.time])
      BY <2>6, <3>1 DEF Funded, Account
    <3>3. Earlier(Len(fills), e.time) /\ Len(fills) \in 0..Len(fills)
      BY <1>1, <1>2, <3>1 DEF Earlier, TypeOK
    <3> QED
      BY <3>2, <3>3
  <2>15. Numbered'
    <3>1. \A i \in DOMAIN fills' : fills'[i].execution <= executions /\ fills'[i].execution \in Nat
      BY <1>1, BookingsAreTyped DEF IInv, Numbered
    <3>2. executions <= executions'
      <4>1. Cardinality(funded) \in Nat
        BY FinitelyMany, SizeAssumption DEF Orders, funded
      <4> QED
        BY <1>1, <1>9, <4>1
    <3>3. \A i \in DOMAIN fills' : fills'[i].execution <= executions'
      BY <1>1, <2>3, <3>1, <3>2
    <3>4. \A i, j \in DOMAIN fills' : i < j => fills'[i].execution < fills'[j].execution
      BY <1>1 DEF IInv, Numbered
    <3>6. ASSUME NEW e \in pending, e.kind = "FILL"
          PROVE  /\ e.seq \in Nat /\ e.seq <= executions
                 /\ \A i \in DOMAIN fills' : fills'[i].execution < e.seq
                 /\ \A f \in pending : f.kind = "FILL" /\ f.seq = e.seq => f = e
      BY <1>1, <3>6, PendingAreTyped DEF IInv, Numbered
    <3>5. ASSUME NEW e \in new, e.kind = "FILL"
          PROVE  /\ e.seq \in Nat /\ executions < e.seq /\ e.seq <= executions'
                 /\ \A i \in DOMAIN fills' : fills'[i].execution < e.seq
                 /\ \A f \in new : f.kind = "FILL" /\ f.seq = e.seq => f = e
      <4>1. e.order \in funded /\ e = answer(e.order) /\ e.seq = number(e.order)
        BY <2>4, <2>7, <2>8, <3>5
      <4>2. e.seq \in Nat /\ executions < e.seq /\ e.seq <= executions'
        BY <2>2, <4>1
      <4>3. \A i \in DOMAIN fills' : fills'[i].execution < e.seq
        BY <1>1, <3>1, <4>2
      <4>4. ASSUME NEW f \in new, f.kind = "FILL", f.seq = e.seq PROVE f = e
        <5>1. f.order \in funded /\ f = answer(f.order) /\ f.seq = number(f.order)
          BY <2>4, <2>7, <2>8, <4>4
        <5>2. e.order \in Nat /\ f.order \in Nat
          <6>1. e.order \in Orders /\ f.order \in Orders
            BY <2>1, <2>6, <4>1, <5>1
          <6> QED
            BY <6>1 DEF Orders
        <5>3. number(e.order) \in Nat /\ number(f.order) \in Nat
              /\ (e.order < f.order => number(e.order) < number(f.order))
              /\ (f.order < e.order => number(f.order) < number(e.order))
          BY <2>2, <4>1, <5>1
        <5>4. e.order = f.order
          BY <4>1, <4>4, <5>1, <5>2, <5>3
        <5> QED
          BY <4>1, <5>1, <5>4
      <4> QED
        BY <4>2, <4>3, <4>4
    <3>7. ASSUME NEW e \in pending', e.kind = "FILL"
          PROVE  /\ e.seq <= executions'
                 /\ \A i \in DOMAIN fills' : fills'[i].execution < e.seq
                 /\ \A f \in pending' : f.kind = "FILL" /\ f.seq = e.seq => f = e
      <4>1. CASE e \in pending
        <5>1. ASSUME NEW f \in new, f.kind = "FILL" PROVE f.seq # e.seq
          BY <1>1, <3>5, <3>6, <3>7, <4>1, <5>1
        <5> QED
          BY <1>1, <2>3, <2>16, <3>2, <3>6, <3>7, <4>1, <5>1
      <4>2. CASE e \in new
        <5>1. ASSUME NEW f \in pending, f.kind = "FILL" PROVE f.seq # e.seq
          BY <1>1, <3>5, <3>6, <3>7, <4>2, <5>1
        <5> QED
          BY <2>16, <3>5, <3>7, <4>2, <5>1
      <4> QED
        BY <2>16, <4>1, <4>2
    <3> QED
      BY <3>3, <3>4, <3>7 DEF Numbered
  <2> QED
    BY <1>4, <1>5, <1>6, <2>9, <2>10, <2>11, <2>12, <2>13, <2>14, <2>15 DEF IInv
<1> QED
  BY <1>3, <1>8, <1>9

-----------------------------------------------------------------------------
(* Lots: what buying and selling does to what is settled. *)

Lot == [acquired : Nat, quantity : Nat]

LEMMA TotalIsNatural ==
  ASSUME NEW v, NEW n \in Nat, \A i \in 1..n : v[i] \in Nat PROVE Total(v, n) \in Nat
<1> DEFINE T == {j \in Nat : j <= n => Total(v, j) \in Nat}
<1>1. 0 \in T
  BY TotalOfNone
<1>2. ASSUME NEW j \in T PROVE j + 1 \in T
  <2> SUFFICES ASSUME j + 1 <= n PROVE Total(v, j + 1) \in Nat
    OBVIOUS
  <2>1. Total(v, j) \in Nat /\ v[j + 1] \in Nat
    OBVIOUS
  <2>2. Total(v, j + 1) = Total(v, j) + v[j + 1]
    BY TotalOfNext
  <2> QED
    BY <2>1, <2>2
<1>3. T = Nat
  <2> HIDE DEF T
  <2>1. T \in SUBSET Nat
    BY DEF T
  <2> QED
    BY <1>1, <1>2, <2>1, NumbersByInduction
<1> QED
  BY <1>3

LEMMA SettledLot ==
  ASSUME NEW lots \in Seq(Lot), NEW s \in Nat, NEW i \in 1..Len(lots)
  PROVE  /\ lots[i] \in Lot /\ lots[i].quantity \in Nat /\ lots[i].acquired \in Nat
         /\ Settled(lots, s)[i] = IF lots[i].acquired < s THEN lots[i].quantity ELSE 0
         /\ Settled(lots, s)[i] \in Nat /\ Settled(lots, s)[i] <= lots[i].quantity
<1>1. lots[i] \in Lot
  OBVIOUS
<1>2. lots[i].quantity \in Nat /\ lots[i].acquired \in Nat
  BY <1>1 DEF Lot
<1>3. Settled(lots, s)[i] = IF lots[i].acquired < s THEN lots[i].quantity ELSE 0
  BY DEF Settled
<1> QED
  BY <1>1, <1>2, <1>3

LEMMA SellableIsNatural ==
  ASSUME NEW lots \in Seq(Lot), NEW s \in Nat PROVE Sellable(lots, s) \in Nat
<1>1. Len(lots) \in Nat /\ \A i \in 1..Len(lots) : Settled(lots, s)[i] \in Nat
  BY SettledLot
<1> QED
  BY <1>1, TotalIsNatural DEF Sellable

\* A purchase adds a lot that settles the session after.
LEMMA BoughtLot ==
  ASSUME NEW lots \in Seq(Lot), NEW lot \in Lot, NEW s \in Nat
  PROVE  /\ Append(lots, lot) \in Seq(Lot)
         /\ Sellable(Append(lots, lot), s)
              = Sellable(lots, s) + IF lot.acquired < s THEN lot.quantity ELSE 0
<1> DEFINE more == Append(lots, lot)
<1>1. /\ more \in Seq(Lot) /\ Len(more) = Len(lots) + 1 /\ Len(lots) \in Nat
      /\ more[Len(lots) + 1] = lot /\ \A i \in 1..Len(lots) : more[i] = lots[i]
  OBVIOUS
<1> HIDE DEF more
<1>2. ASSUME NEW i \in 1..Len(lots) PROVE Settled(more, s)[i] = Settled(lots, s)[i]
  <2>1. i \in 1..Len(more)
    BY <1>1
  <2>2. Settled(more, s)[i] = IF more[i].acquired < s THEN more[i].quantity ELSE 0
    BY <1>1, <2>1, SettledLot
  <2>3. Settled(lots, s)[i] = IF lots[i].acquired < s THEN lots[i].quantity ELSE 0
    BY SettledLot
  <2> QED
    BY <1>1, <2>2, <2>3
<1>3. Settled(more, s)[Len(lots) + 1] = IF lot.acquired < s THEN lot.quantity ELSE 0
  <2>1. Len(lots) + 1 \in 1..Len(more)
    BY <1>1
  <2> QED
    BY <1>1, <2>1, SettledLot
<1>4. Sellable(more, s) = Total(Settled(more, s), Len(lots)) + Settled(more, s)[Len(lots) + 1]
  BY <1>1, TotalOfNext DEF Sellable
<1>5. Total(Settled(more, s), Len(lots)) = Sellable(lots, s)
  BY <1>1, <1>2, TotalAgrees DEF Sellable
<1> QED
  BY <1>1, <1>3, <1>4, <1>5 DEF more

\* What a sale takes of a lot is there.
LEMMA TakenFits ==
  ASSUME NEW lots \in Seq(Lot), NEW s \in Nat, NEW n \in Nat, NEW i \in 1..Len(lots)
  PROVE  /\ Taken(Settled(lots, s), n, i) \in Nat
         /\ Taken(Settled(lots, s), n, i) <= Settled(lots, s)[i]
         /\ Settled(lots, s)[i] <= lots[i].quantity
         /\ Total(Settled(lots, s), i - 1) \in Nat
<1>1. Settled(lots, s)[i] \in Nat /\ Settled(lots, s)[i] <= lots[i].quantity
  BY SettledLot
<1>2. Total(Settled(lots, s), i - 1) \in Nat
  <2>1. i - 1 \in Nat /\ \A j \in 1..(i - 1) : Settled(lots, s)[j] \in Nat
    BY SettledLot
  <2> QED
    BY <2>1, TotalIsNatural
<1> QED
  BY <1>1, <1>2 DEF Taken

\* A covered sale takes its quantity, first in, first out, from what is settled: so much
\* less is settled in any session from then on.
LEMMA SoldLots ==
  ASSUME NEW lots \in Seq(Lot), NEW s \in Nat, NEW u \in Nat, s <= u,
         NEW n \in Nat, n <= Sellable(lots, s)
  PROVE  /\ Sell(lots, n, s) \in Seq(Lot)
         /\ Sellable(Sell(lots, n, s), u) = Sellable(lots, u) - n
<1> DEFINE left == Sell(lots, n, s)
           take(i) == Taken(Settled(lots, s), n, i)
<1>1. ASSUME NEW i \in 1..Len(lots)
      PROVE  /\ left[i] \in Lot /\ left[i].acquired = lots[i].acquired
             /\ left[i].quantity = lots[i].quantity - take(i)
  <2>1. lots[i] \in Lot /\ lots[i].quantity \in Nat /\ Settled(lots, s)[i] \in Nat
        /\ Settled(lots, s)[i] <= lots[i].quantity
    BY SettledLot
  <2>2. take(i) \in Nat /\ take(i) <= Settled(lots, s)[i]
    BY TakenFits
  <2>3. left[i] = [lots[i] EXCEPT !.quantity = @ - take(i)]
    BY DEF Sell
  <2> HIDE DEF left, take
  <2>4. lots[i].quantity - take(i) \in Nat
    BY <2>1, <2>2
  <2> QED
    BY <2>1, <2>3, <2>4 DEF Lot
<1>2. left \in Seq(Lot) /\ Len(left) = Len(lots) /\ Len(lots) \in Nat
  <2>1. left = [i \in 1..Len(lots) |-> left[i]]
    BY DEF Sell
  <2> HIDE DEF left
  <2> QED
    BY <1>1, <2>1
<1> HIDE DEF left
<1> DEFINE before(i) == Total(Settled(lots, u), i)
           after(i) == Total(Settled(left, u), i)
           sold(i) == Total(Settled(lots, s), i)
           T == {i \in Nat : i <= Len(lots) =>
                   after(i) = before(i) - IF n <= sold(i) THEN n ELSE sold(i)}
<1>3. 0 \in T
  BY TotalOfNone
<1>4. ASSUME NEW i \in T PROVE i + 1 \in T
  <2> SUFFICES ASSUME i + 1 <= Len(lots)
               PROVE  after(i + 1) = before(i + 1) - IF n <= sold(i + 1) THEN n ELSE sold(i + 1)
    OBVIOUS
  <2> DEFINE x == Settled(lots, s)[i + 1]
             y == Settled(lots, u)[i + 1]
             z == Settled(left, u)[i + 1]
             k == take(i + 1)
  <2>1. /\ after(i + 1) = after(i) + z /\ before(i + 1) = before(i) + y
        /\ sold(i + 1) = sold(i) + x
    BY TotalOfNext
  <2>2. i + 1 \in 1..Len(lots) /\ (i + 1) - 1 = i
    OBVIOUS
  <2>3. /\ x = IF lots[i + 1].acquired < s THEN lots[i + 1].quantity ELSE 0
        /\ y = IF lots[i + 1].acquired < u THEN lots[i + 1].quantity ELSE 0
        /\ lots[i + 1].acquired \in Nat /\ lots[i + 1].quantity \in Nat
    BY <2>2, SettledLot
  <2>4. z = IF lots[i + 1].acquired < u THEN lots[i + 1].quantity - k ELSE 0
    <3>1. Settled(left, u)[i + 1] = IF left[i + 1].acquired < u THEN left[i + 1].quantity ELSE 0
      BY <1>2, <2>2, SettledLot
    <3>2. left[i + 1].acquired = lots[i + 1].acquired /\ left[i + 1].quantity = lots[i + 1].quantity - k
      BY <1>1, <2>2
    <3> QED
      BY <3>1, <3>2
  <2>5. k = IF n - sold(i) <= 0 THEN 0 ELSE IF n - sold(i) < x THEN n - sold(i) ELSE x
    BY <2>2 DEF Taken
  <2>6. sold(i) \in Nat
    BY <2>2, TakenFits
  <2>7. before(i) \in Nat
    <3>1. Total(Settled(lots, u), (i + 1) - 1) \in Nat
      BY <2>2, TakenFits
    <3> QED
      BY <2>2, <3>1
  <2>8. after(i) = before(i) - IF n <= sold(i) THEN n ELSE sold(i)
    OBVIOUS
  <2> HIDE DEF after, before, sold, x, y, z, k, take, T
  <2>9. z = y - k
    BY <2>3, <2>4, <2>5, <2>6
  <2>10. x \in Nat /\ y \in Nat
    BY <2>3
  <2>11. CASE n <= sold(i)
    BY <2>1, <2>5, <2>6, <2>7, <2>8, <2>9, <2>10, <2>11
  <2>12. CASE ~(n <= sold(i)) /\ n - sold(i) < x
    BY <2>1, <2>5, <2>6, <2>7, <2>8, <2>9, <2>10, <2>12
  <2>13. CASE ~(n <= sold(i)) /\ ~(n - sold(i) < x)
    <3>1. k = x /\ after(i) = before(i) - sold(i) /\ sold(i) + x <= n
      BY <2>5, <2>6, <2>8, <2>10, <2>13
    <3>2. after(i + 1) = before(i + 1) - sold(i + 1)
      BY <2>1, <2>6, <2>7, <2>9, <2>10, <3>1
    <3>3. sold(i + 1) <= n /\ sold(i + 1) \in Nat
      BY <2>1, <2>6, <2>10, <3>1
    <3> QED
      BY <3>2, <3>3
  <2> QED
    BY <2>11, <2>12, <2>13
<1>5. T = Nat
  <2> HIDE DEF T
  <2>1. T \in SUBSET Nat
    BY DEF T
  <2> QED
    BY <1>3, <1>4, <2>1, NumbersByInduction
<1>6. after(Len(lots)) = before(Len(lots)) - IF n <= sold(Len(lots)) THEN n ELSE sold(Len(lots))
  BY <1>2, <1>5
<1>7. sold(Len(lots)) = Sellable(lots, s) /\ before(Len(lots)) = Sellable(lots, u)
      /\ after(Len(lots)) = Sellable(left, u)
  BY <1>2 DEF Sellable
<1>8. Sellable(left, u) = Sellable(lots, u) - n
  BY <1>6, <1>7
<1> QED
  BY <1>2, <1>8 DEF left

-----------------------------------------------------------------------------
(* The chain replays *)

\* Executions are booked in the order of their instants.
LEMMA Chronological ==
  ASSUME TypeOK, FillsAreFunded, NEW i \in DOMAIN fills, NEW j \in DOMAIN fills, i <= j
  PROVE  fills[i].time <= fills[j].time
<1>1. i \in Nat /\ j \in Nat /\ fills[i].time \in Nat /\ fills[j].time \in Nat
  <2>1. fills[i].time \in 1..MaxTime /\ fills[j].time \in 1..MaxTime
    BY BookingsAreTyped
  <2>2. DOMAIN fills = 1..Len(fills)
    BY DEF TypeOK
  <2> QED
    BY <2>1, <2>2
<1>2. SUFFICES ASSUME fills[j].time < fills[i].time PROVE FALSE
  BY <1>1
<1>3. PICK n \in 0..(i - 1) : Earlier(n, fills[i].time)
  BY DEF FillsAreFunded
<1>4. j <= n
  BY <1>2, <1>3 DEF Earlier
<1> QED
  BY <1>1, <1>3, <1>4

\* The account is well-formed as long as no sale was refused.
Sound(account) == account \in [valid : {TRUE}, cash : Int, lots : Seq(Lot)]

LEMMA OpeningIsSound ==
  Sound(Opening) /\ \A s \in Nat \ {0} : Sellable(Opening.lots, s) = InitialLots
<1> DEFINE lot == [acquired |-> 0, quantity |-> InitialLots]
<1>1. lot \in Lot /\ lot.acquired = 0 /\ lot.quantity = InitialLots /\ InitialLots \in Nat
  BY SizeAssumption DEF Lot
<1>2. Opening = [valid |-> TRUE, cash |-> InitialCash, lots |-> <<lot>>] /\ InitialCash \in Int
  BY SizeAssumption DEF Opening
<1> HIDE DEF lot
<1>3. <<lot>> \in Seq(Lot) /\ Len(<<lot>>) = 1 /\ <<lot>>[1] = lot
  BY <1>1
<1>4. ASSUME NEW s \in Nat \ {0} PROVE Sellable(<<lot>>, s) = InitialLots
  <2>1. Settled(<<lot>>, s)[1] = InitialLots
    BY <1>1, <1>3 DEF Settled
  <2>2. Total(Settled(<<lot>>, s), 0 + 1) = Total(Settled(<<lot>>, s), 0) + Settled(<<lot>>, s)[0 + 1]
    BY TotalOfNext
  <2>3. Total(Settled(<<lot>>, s), 0) = 0
    BY TotalOfNone
  <2> QED
    BY <1>1, <1>3, <2>1, <2>2, <2>3 DEF Sellable
<1> QED
  BY <1>2, <1>3, <1>4 DEF Sound

\* What one execution does to a sound account.
LEMMA FillOnSound ==
  ASSUME NEW account, Sound(account), NEW f \in Booking
  PROVE  /\ f.side = "BUY" =>
              /\ Sound(ApplyFill(account, f))
              /\ \A s \in Nat : Sellable(ApplyFill(account, f).lots, s)
                                  = Sellable(account.lots, s) + IF f.dated < s THEN f.quantity ELSE 0
         /\ f.side # "BUY" /\ f.quantity <= Sellable(account.lots, f.dated) =>
              /\ Sound(ApplyFill(account, f))
              /\ \A s \in Nat : f.dated <= s =>
                   Sellable(ApplyFill(account, f).lots, s) = Sellable(account.lots, s) - f.quantity
         /\ f.side # "BUY" /\ ~(f.quantity <= Sellable(account.lots, f.dated)) =>
              ApplyFill(account, f).valid = FALSE
<1>1. /\ account.valid = TRUE /\ account.cash \in Int /\ account.lots \in Seq(Lot)
      /\ account = [valid |-> account.valid, cash |-> account.cash, lots |-> account.lots]
  BY DEF Sound
<1>2. /\ f.quantity \in Nat /\ f.dated \in Nat /\ f.price \in Nat
  BY SidesAssumption DEF Booking
<1>3. f.quantity * f.price \in Int
  BY <1>2
<1>4. CASE f.side = "BUY"
  <2> DEFINE lot == [acquired |-> f.dated, quantity |-> f.quantity]
  <2>1. ApplyFill(account, f) = [valid |-> TRUE, cash |-> account.cash - f.quantity * f.price,
                                 lots |-> Append(account.lots, lot)]
    BY <1>1, <1>4 DEF ApplyFill
  <2>2. lot \in Lot /\ lot.acquired = f.dated /\ lot.quantity = f.quantity
    BY <1>2 DEF Lot
  <2> HIDE DEF lot
  <2>3. Append(account.lots, lot) \in Seq(Lot)
    BY <1>1, <2>2
  <2>4. Sound(ApplyFill(account, f))
    BY <1>1, <1>3, <2>1, <2>3 DEF Sound
  <2>5. \A s \in Nat : Sellable(Append(account.lots, lot), s)
                        = Sellable(account.lots, s) + IF lot.acquired < s THEN lot.quantity ELSE 0
    BY <1>1, <2>2, BoughtLot
  <2> QED
    BY <1>4, <2>1, <2>2, <2>4, <2>5
<1>5. CASE f.side # "BUY" /\ f.quantity <= Sellable(account.lots, f.dated)
  <2> DEFINE left == Sell(account.lots, f.quantity, f.dated)
  <2>1. ~(f.quantity > Sellable(account.lots, f.dated))
    BY <1>1, <1>2, <1>5, SellableIsNatural
  <2>2. ApplyFill(account, f) = [valid |-> TRUE, cash |-> account.cash + f.quantity * f.price,
                                 lots |-> left]
    BY <1>1, <1>5, <2>1 DEF ApplyFill
  <2>3. left \in Seq(Lot)
    BY <1>1, <1>2, <1>5, SoldLots
  <2>4. \A s \in Nat : f.dated <= s => Sellable(left, s) = Sellable(account.lots, s) - f.quantity
    BY <1>1, <1>2, <1>5, SoldLots
  <2> HIDE DEF left
  <2>5. Sound(ApplyFill(account, f))
    BY <1>1, <1>3, <2>2, <2>3 DEF Sound
  <2> QED
    BY <1>5, <2>2, <2>4, <2>5
<1>6. CASE f.side # "BUY" /\ ~(f.quantity <= Sellable(account.lots, f.dated))
  <2>1. f.quantity > Sellable(account.lots, f.dated)
    BY <1>1, <1>2, <1>6, SellableIsNatural
  <2>2. ApplyFill(account, f).valid = FALSE
    BY <1>1, <1>6, <2>1 DEF ApplyFill
  <2> QED
    BY <1>6, <2>2
<1> QED
  BY <1>4, <1>5, <1>6

\* The execution that comes next, and the account it meets.
LEMMA NextBooking ==
  ASSUME IInv, NEW k \in Nat, k + 1 <= Len(fills)
  PROVE  /\ k + 1 \in DOMAIN fills /\ fills[k + 1] \in Booking
         /\ AccountAfter(fills, k + 1) = ApplyFill(AccountAfter(fills, k), fills[k + 1])
<1>1. k + 1 \in DOMAIN fills /\ TypeOK
  BY DEF IInv, TypeOK
<1> QED
  BY <1>1, AccountNext, BookingsAreTyped

\* A purchase that is booked adds to what is settled after its session.
LEMMA PurchaseIsHeld ==
  ASSUME IInv, NEW k \in Nat, k + 1 <= Len(fills), Sound(AccountAfter(fills, k)),
         fills[k + 1].side = "BUY", NEW s \in Nat
  PROVE  Sellable(AccountAfter(fills, k + 1).lots, s)
           = Sellable(AccountAfter(fills, k).lots, s)
               + IF fills[k + 1].dated < s THEN fills[k + 1].quantity ELSE 0
<1> DEFINE f == fills[k + 1]
           account == AccountAfter(fills, k)
           next == AccountAfter(fills, k + 1)
<1>1. f \in Booking /\ next = ApplyFill(account, f)
  BY NextBooking
<1>2. Sound(account) /\ f.side = "BUY"
  OBVIOUS
<1>3. Sellable(next.lots, s) = Sellable(account.lots, s) + IF f.dated < s THEN f.quantity ELSE 0
  <2> HIDE DEF f, account, next
  <2>1. \A u \in Nat : Sellable(ApplyFill(account, f).lots, u)
                        = Sellable(account.lots, u) + IF f.dated < u THEN f.quantity ELSE 0
    BY <1>1, <1>2, FillOnSound
  <2> QED
    BY <1>1, <2>1
<1> QED
  BY <1>3

\* A sale that is booked takes its quantity from what is settled in its session and after.
LEMMA SaleIsTaken ==
  ASSUME IInv, NEW k \in Nat, k + 1 <= Len(fills), Sound(AccountAfter(fills, k)),
         fills[k + 1].side = "SELL",
         fills[k + 1].quantity <= Sellable(AccountAfter(fills, k).lots, fills[k + 1].dated),
         NEW s \in Nat, fills[k + 1].dated <= s
  PROVE  Sellable(AccountAfter(fills, k + 1).lots, s)
           = Sellable(AccountAfter(fills, k).lots, s) - fills[k + 1].quantity
<1> DEFINE f == fills[k + 1]
           account == AccountAfter(fills, k)
           next == AccountAfter(fills, k + 1)
<1>1. f \in Booking /\ next = ApplyFill(account, f)
  BY NextBooking
<1>2. /\ Sound(account) /\ f.side # "BUY" /\ f.dated <= s
      /\ f.quantity <= Sellable(account.lots, f.dated)
  OBVIOUS
<1>3. Sellable(next.lots, s) = Sellable(account.lots, s) - f.quantity
  <2> HIDE DEF f, account, next
  <2>1. \A u \in Nat : f.dated <= u =>
          Sellable(ApplyFill(account, f).lots, u) = Sellable(account.lots, u) - f.quantity
    BY <1>1, <1>2, FillOnSound
  <2> QED
    BY <1>1, <1>2, <2>1
<1> QED
  BY <1>3

\* When a bar executes one sale at most, and orders execute in their session, a sale finds
\* what its bar found: the executions of the bar that came before it are purchases.
LEMMA SaleFindsLots ==
  ASSUME IInv, Regular, NEW k \in Nat, k + 1 <= Len(fills), fills[k + 1].side # "BUY",
         \A j \in 0..k : Sound(AccountAfter(fills, j))
  PROVE  fills[k + 1].quantity <= Sellable(AccountAfter(fills, k).lots, fills[k + 1].dated)
<1> DEFINE f == fills[k + 1]
           s == f.dated
           held(j) == Sellable(AccountAfter(fills, j).lots, s)
<1>1. /\ TypeOK /\ k + 1 \in DOMAIN fills /\ DOMAIN fills = 1..Len(fills) /\ Len(fills) \in Nat
      /\ f.side = "SELL" /\ s \in Nat /\ f.time \in 1..MaxTime
  <2>1. TypeOK
    BY DEF IInv
  <2>2. DOMAIN fills = 1..Len(fills) /\ Len(fills) \in Nat
    BY <2>1 DEF TypeOK
  <2>3. k + 1 \in DOMAIN fills
    BY <2>2
  <2> QED
    BY <2>1, <2>2, <2>3, BookingsAreTyped
<1>2. \A j \in DOMAIN fills : fills[j].dated = SessionOf[fills[j].time]
  BY DEF IInv, BookedAsOrdered, Regular
<1>3. PICK n \in 0..k : /\ Earlier(n, f.time)
                        /\ Covers(AccountAfter(fills, n), f.side, f.quantity, f.price, SessionOf[f.time])
  <2>1. (k + 1) - 1 = k
    OBVIOUS
  <2> QED
    BY <1>1, <2>1 DEF IInv, FillsAreFunded
<1>4. f.quantity <= held(n)
  BY <1>1, <1>2, <1>3 DEF Covers
<1> DEFINE T == {j \in Nat : n <= j /\ j <= k => held(j) = held(n)}
<1>5. 0 \in T
  OBVIOUS
<1>6. ASSUME NEW j \in T PROVE j + 1 \in T
  <2> SUFFICES ASSUME n <= j + 1, j + 1 <= k PROVE held(j + 1) = held(n)
    OBVIOUS
  <2>1. CASE n = j + 1
    BY <2>1
  <2>2. CASE n # j + 1
    <3>1. n <= j /\ j <= k /\ j \in 0..k /\ j + 1 <= Len(fills) /\ j + 1 \in DOMAIN fills
      BY <1>1, <2>2
    <3>2. held(j) = held(n) /\ Sound(AccountAfter(fills, j))
      BY <3>1
    <3>3. fills[j + 1].time = f.time
      <4>1. fills[j + 1].time <= f.time
        BY <1>1, <3>1, Chronological DEF IInv
      <4>2. ~(fills[j + 1].time < f.time)
        BY <1>3, <3>1 DEF Earlier
      <4>3. fills[j + 1].time \in 1..MaxTime
        BY <1>1, <3>1, BookingsAreTyped
      <4> QED
        BY <1>1, <4>1, <4>2, <4>3
    <3>4. fills[j + 1].side = "BUY"
      <4>1. fills[j + 1].side \in {"BUY", "SELL"} /\ j + 1 # k + 1
        BY <1>1, <3>1, BookingsAreTyped
      <4> QED
        BY <1>1, <3>1, <3>3, <4>1 DEF Regular
    <3>5. fills[j + 1].dated = s
      BY <1>1, <1>2, <3>1, <3>3
    <3>6. held(j) \in Nat
      BY <1>1, <3>2, SellableIsNatural DEF Sound
    <3>7. held(j + 1) = held(j) + IF fills[j + 1].dated < s THEN fills[j + 1].quantity ELSE 0
      BY <1>1, <3>1, <3>2, <3>4, PurchaseIsHeld
    <3> HIDE DEF held, s
    <3> QED
      BY <1>1, <3>2, <3>5, <3>6, <3>7
  <2> QED
    BY <2>1, <2>2
<1>7. T = Nat
  <2> HIDE DEF T
  <2>1. T \in SUBSET Nat
    BY DEF T
  <2> QED
    BY <1>5, <1>6, <2>1, NumbersByInduction
<1>8. k \in T
  BY <1>7
<1> QED
  BY <1>3, <1>4, <1>8

\* So a regular chain is sound to its end.
LEMMA RegularIsSound ==
  ASSUME IInv, Regular
  PROVE  \A k \in 0..Len(fills) : Sound(AccountAfter(fills, k))
<1> DEFINE T == {k \in Nat : \A j \in 0..k : j <= Len(fills) => Sound(AccountAfter(fills, j))}
<1>0. Len(fills) \in Nat
  BY DEF IInv, TypeOK
<1>1. 0 \in T
  BY AccountAtFirst, OpeningIsSound
<1>2. ASSUME NEW k \in T PROVE k + 1 \in T
  <2> SUFFICES ASSUME k + 1 <= Len(fills) PROVE Sound(AccountAfter(fills, k + 1))
    OBVIOUS
  <2>1. \A j \in 0..k : Sound(AccountAfter(fills, j))
    BY <1>0
  <2>2. k \in 0..k /\ k \in Nat
    OBVIOUS
  <2>3. Sound(AccountAfter(fills, k))
    BY <2>1, <2>2
  <2>4. /\ fills[k + 1] \in Booking
        /\ AccountAfter(fills, k + 1) = ApplyFill(AccountAfter(fills, k), fills[k + 1])
    BY <2>2, NextBooking
  <2>5. CASE fills[k + 1].side = "BUY"
    BY <2>3, <2>4, <2>5, FillOnSound
  <2>6. CASE fills[k + 1].side # "BUY"
    <3>1. fills[k + 1].quantity <= Sellable(AccountAfter(fills, k).lots, fills[k + 1].dated)
      BY <2>1, <2>2, <2>6, SaleFindsLots
    <3> QED
      BY <2>3, <2>4, <2>6, <3>1, FillOnSound
  <2> QED
    BY <2>5, <2>6
<1>3. T = Nat
  <2> HIDE DEF T
  <2>1. T \in SUBSET Nat
    BY DEF T
  <2> QED
    BY <1>1, <1>2, <2>1, NumbersByInduction
<1>4. Len(fills) \in T
  BY <1>0, <1>3
<1> QED
  BY <1>0, <1>4

\* The executions of a side up to a session, one by one.
TradedEach(side, upto) ==
    [i \in DOMAIN fills |-> IF fills[i].side = side /\ SessionOf[fills[i].time] <= upto
                            THEN fills[i].quantity ELSE 0]

LEMMA TradedNext ==
  ASSUME IInv, NEW k \in Nat, k + 1 <= Len(fills), NEW side \in {"BUY", "SELL"}, NEW upto \in Int
  PROVE  /\ Total(TradedEach(side, upto), k) \in Nat
         /\ Total(TradedEach(side, upto), k + 1) = Total(TradedEach(side, upto), k)
              + IF fills[k + 1].side = side /\ SessionOf[fills[k + 1].time] <= upto
                THEN fills[k + 1].quantity ELSE 0
<1>1. TypeOK /\ DOMAIN fills = 1..Len(fills) /\ Len(fills) \in Nat /\ k + 1 \in DOMAIN fills
  BY DEF IInv, TypeOK
<1>2. \A i \in DOMAIN fills :
        TradedEach(side, upto)[i] = IF fills[i].side = side /\ SessionOf[fills[i].time] <= upto
                                    THEN fills[i].quantity ELSE 0
  BY DEF TradedEach
<1>3. \A i \in 1..k : TradedEach(side, upto)[i] \in Nat
  BY <1>1, <1>2, BookingsAreTyped
<1> QED
  BY <1>1, <1>2, <1>3, TotalOfNext, TotalIsNatural

\* While no execution is of a later session than s, what is settled in s is what was held
\* or bought before it, less what has been sold.
LEMMA SettledIsKept ==
  ASSUME IInv, Regular, NEW s \in Nat \ {0}, NEW k \in 0..Len(fills),
         \A i \in 1..k : SessionOf[fills[i].time] <= s
  PROVE  Sellable(AccountAfter(fills, k).lots, s)
           = InitialLots + Total(TradedEach("BUY", s - 1), k) - Total(TradedEach("SELL", s), k)
<1> DEFINE held(j) == Sellable(AccountAfter(fills, j).lots, s)
           bought(j) == Total(TradedEach("BUY", s - 1), j)
           sold(j) == Total(TradedEach("SELL", s), j)
           T == {j \in Nat : j <= k => held(j) = InitialLots + bought(j) - sold(j)}
<1>0. k \in Nat /\ Len(fills) \in Nat /\ TypeOK /\ InitialLots \in Nat /\ s - 1 \in Int /\ s \in Int
  <2>1. TypeOK
    BY DEF IInv
  <2>2. Len(fills) \in Nat
    BY <2>1 DEF TypeOK
  <2> QED
    BY <2>1, <2>2, SizeAssumption
<1>1. 0 \in T
  <2>1. held(0) = InitialLots
    BY AccountAtFirst, OpeningIsSound
  <2>2. bought(0) = 0 /\ sold(0) = 0
    BY TotalOfNone
  <2> QED
    BY <1>0, <2>1, <2>2
<1>2. ASSUME NEW j \in T PROVE j + 1 \in T
  <2> SUFFICES ASSUME j + 1 <= k
               PROVE  held(j + 1) = InitialLots + bought(j + 1) - sold(j + 1)
    OBVIOUS
  <2> DEFINE f == fills[j + 1]
             d == f.dated
  <2>1. j + 1 <= Len(fills) /\ j \in 0..Len(fills) /\ j + 1 \in 0..Len(fills) /\ j + 1 \in 1..k
        /\ j \in Nat
    BY <1>0
  <2>2. /\ j + 1 \in DOMAIN fills /\ f \in Booking
        /\ AccountAfter(fills, j + 1) = ApplyFill(AccountAfter(fills, j), f)
    BY <2>1, NextBooking
  <2>3. d \in Nat /\ f.quantity \in Nat /\ f.side \in {"BUY", "SELL"}
    BY <1>0, <2>2, BookingsAreTyped
  <2>4. d = SessionOf[f.time] /\ d <= s
    <3>1. d = SessionOf[f.time]
      BY <2>2 DEF IInv, BookedAsOrdered, Regular
    <3>2. SessionOf[f.time] <= s
      BY <2>1
    <3> QED
      BY <3>1, <3>2
  <2>5. Sound(AccountAfter(fills, j)) /\ Sound(ApplyFill(AccountAfter(fills, j), f))
    BY <2>1, <2>2, RegularIsSound
  <2>6. held(j) = InitialLots + bought(j) - sold(j)
    BY <1>0
  <2>7. /\ bought(j) \in Nat /\ sold(j) \in Nat
        /\ bought(j + 1) = bought(j) + IF f.side = "BUY" /\ d <= s - 1 THEN f.quantity ELSE 0
        /\ sold(j + 1) = sold(j) + IF f.side = "SELL" /\ d <= s THEN f.quantity ELSE 0
    BY <1>0, <2>1, <2>4, TradedNext
  <2>8. held(j) \in Nat
    BY <2>5, SellableIsNatural DEF Sound
  <2>9. CASE f.side = "BUY"
    <3>1. held(j + 1) = held(j) + IF d < s THEN f.quantity ELSE 0
      BY <1>0, <2>1, <2>5, <2>9, PurchaseIsHeld
    <3> HIDE DEF held, bought, sold, f, d
    <3> QED
      BY <1>0, <2>3, <2>6, <2>7, <2>8, <2>9, <3>1
  <2>10. CASE f.side = "SELL"
    <3>1. ApplyFill(AccountAfter(fills, j), f).valid = TRUE
      BY <2>5 DEF Sound
    <3>2. f.quantity <= Sellable(AccountAfter(fills, j).lots, d)
      BY <2>2, <2>5, <2>10, <3>1, FillOnSound
    <3>3. held(j + 1) = held(j) - f.quantity
      BY <1>0, <2>1, <2>4, <2>5, <2>10, <3>2, SaleIsTaken
    <3> HIDE DEF held, bought, sold, f, d
    <3> QED
      BY <1>0, <2>3, <2>4, <2>6, <2>7, <2>8, <2>10, <3>3
  <2> QED
    BY <2>3, <2>9, <2>10
<1>3. T = Nat
  <2> HIDE DEF T
  <2>1. T \in SUBSET Nat
    BY DEF T
  <2> QED
    BY <1>1, <1>2, <2>1, NumbersByInduction
<1> QED
  BY <1>0, <1>3

\* Nothing is sold that was not held before its session.
LEMMA SoldWasHeld ==
  ASSUME IInv, Regular, NEW s \in Nat \ {0}
  PROVE  Traded("SELL", s) <= InitialLots + Traded("BUY", s - 1)
<1> DEFINE bought(j) == Total(TradedEach("BUY", s - 1), j)
           sold(j) == Total(TradedEach("SELL", s), j)
           T == {j \in Nat : j <= Len(fills) => sold(j) <= InitialLots + bought(j)}
<1>0. Len(fills) \in Nat /\ TypeOK /\ InitialLots \in Nat /\ s - 1 \in Int /\ s \in Int
      /\ DOMAIN fills = 1..Len(fills)
  <2>1. TypeOK /\ fills \in Seq(Booking)
    BY DEF IInv, TypeOK
  <2>2. InitialLots \in Nat
    BY SizeAssumption
  <2> QED
    BY ONLY <2>1, <2>2, s \in Nat \ {0}
<1>1. 0 \in T
  BY <1>0, TotalOfNone
<1>2. ASSUME NEW j \in T PROVE j + 1 \in T
  <2> SUFFICES ASSUME j + 1 <= Len(fills) PROVE sold(j + 1) <= InitialLots + bought(j + 1)
    OBVIOUS
  <2> DEFINE u == SessionOf[fills[j + 1].time]
  <2>1. j \in Nat /\ j + 1 \in DOMAIN fills /\ j + 1 \in 0..Len(fills) /\ j <= Len(fills)
    BY <1>0
  <2>2. /\ bought(j) \in Nat /\ sold(j) \in Nat /\ fills[j + 1].quantity \in Nat
        /\ fills[j + 1].time \in 1..MaxTime /\ u \in Nat
        /\ bought(j + 1) = bought(j) + IF fills[j + 1].side = "BUY" /\ u <= s - 1
                                       THEN fills[j + 1].quantity ELSE 0
        /\ sold(j + 1) = sold(j) + IF fills[j + 1].side = "SELL" /\ u <= s
                                   THEN fills[j + 1].quantity ELSE 0
    BY <1>0, <2>1, TradedNext, BookingsAreTyped, SessionAssumption
  <2>3. sold(j) <= InitialLots + bought(j)
    BY <2>1
  <2>4. CASE u <= s
    <3>1. ASSUME NEW i \in 1..(j + 1) PROVE SessionOf[fills[i].time] <= s
      <4>1. i \in DOMAIN fills /\ i <= j + 1
        BY <1>0, <2>1
      <4>2. fills[i].time <= fills[j + 1].time /\ fills[i].time \in 1..MaxTime
        BY <1>0, <2>1, <4>1, Chronological, BookingsAreTyped DEF IInv
      <4>3. SessionOf[fills[i].time] <= u /\ SessionOf[fills[i].time] \in Nat
        BY <2>2, <4>2, SessionAssumption
      <4> QED
        BY <2>2, <2>4, <4>3
    <3>2. Sellable(AccountAfter(fills, j + 1).lots, s) = InitialLots + bought(j + 1) - sold(j + 1)
      BY <2>1, <3>1, SettledIsKept
    <3>3. Sellable(AccountAfter(fills, j + 1).lots, s) \in Nat
      <4>1. Sound(AccountAfter(fills, j + 1))
        BY <2>1, RegularIsSound
      <4>2. AccountAfter(fills, j + 1).lots \in Seq(Lot)
        BY <4>1 DEF Sound
      <4> QED
        BY <4>2, SellableIsNatural
    <3>4. bought(j + 1) \in Nat /\ sold(j + 1) \in Nat
      BY <2>2
    <3> HIDE DEF bought, sold
    <3> QED
      BY <1>0, <3>2, <3>3, <3>4
  <2>5. CASE ~(u <= s)
    <3>1. ~(u <= s - 1)
      BY <2>2, <2>5
    <3> HIDE DEF bought, sold, u
    <3> QED
      BY <1>0, <2>2, <2>3, <2>5, <3>1
  <2> QED
    BY <2>4, <2>5
<1>3. T = Nat
  <2> HIDE DEF T
  <2>1. T \in SUBSET Nat
    BY DEF T
  <2> QED
    BY <1>1, <1>2, <2>1, NumbersByInduction
<1>4. sold(Len(fills)) <= InitialLots + bought(Len(fills))
  BY <1>0, <1>3
<1> QED
  BY <1>4 DEF Traded, TradedEach

-----------------------------------------------------------------------------
(* The theorems *)

\* The inductive invariant holds of every reachable state: whatever the outside sends, in
\* whatever instant, and however the reactions fall between.
LEMMA StreamInvariant == Spec => []IInv
<1>1. Init => IInv
  <2> SUFFICES ASSUME Init PROVE IInv
    OBVIOUS
  <2>1. fills = <<>> /\ Len(fills) = 0 /\ DOMAIN fills = {} /\ pending = {} /\ executions = 0
        /\ raised = NoException /\ now = <<0, 0, 0>>
    BY DEF Init
  <2>2. \A o \in Orders : order[o] = NoOrder
    BY DEF Init
  <2>3. TypeOK
    BY <2>1 DEF Init, TypeOK, NoOrder, Statuses
  <2>4. CountsWhatIsBooked
    BY <2>1, <2>2, TotalOfNone DEF CountsWhatIsBooked, Booked, NoOrder
  <2>5. InTime /\ OneAnswer /\ CallbackIsDue /\ PromiseFits /\ PromiseIsFunded
    BY <2>1 DEF InTime, BookedBy, OneAnswer, CallbackIsDue, PromiseFits, PromiseIsFunded
  <2>6. Numbered /\ BookedAsOrdered /\ FillsAreFunded /\ RaisedFor
    BY <2>1 DEF Numbered, BookedAsOrdered, FillsAreFunded, RaisedFor, NoException
  <2>7. StatusFollowsCount
    BY <2>2 DEF StatusFollowsCount, NoOrder
  <2> QED
    BY <2>3, <2>4, <2>5, <2>6, <2>7 DEF IInv
<1>2. IInv /\ [Next]_vars => IInv'
  <2> SUFFICES ASSUME IInv, [Next]_vars PROVE IInv'
    OBVIOUS
  <2>1. ASSUME NEW o \in Orders, NEW t \in 1..MaxTime, NEW side \in Sides, NEW n \in Quantities,
               OnOrder(o, t, side, n)
        PROVE  IInv'
    BY <2>1, OrderKeeps
  <2>2. ASSUME NEW o \in Orders, NEW t \in 1..MaxTime, OnCancel(o, t) PROVE IInv'
    BY <2>2, CancelKeeps
  <2>3. ASSUME NEW o \in Orders, NEW t \in 1..MaxTime, OnExpiry(o, t) PROVE IInv'
    BY <2>3, ExpiryKeeps
  <2>4. ASSUME NEW t \in 1..MaxTime, NEW bar \in 1..MaxBars, NEW volume \in Quantities,
               NEW price \in Prices, NEW reached \in SUBSET Orders,
               OnBar(t, bar, volume, price, reached)
        PROVE  IInv'
    BY <2>4, BarKeeps
  <2>5. ASSUME NEW e \in pending, OnCallback(e) PROVE IInv'
    BY <2>5, CallbackKeeps
  <2>6. ASSUME NEW e \in pending, OnFill(e) PROVE IInv'
    BY <2>6, FillKeeps
  <2>7. ASSUME NEW i \in DOMAIN fills, NEW t \in 1..MaxTime, Redeliver(i, t) PROVE IInv'
    BY <2>7, RedeliverKeeps
  <2>8. CASE UNCHANGED vars
    <3>1. CountsWhatIsBooked' /\ FillsAreFunded' /\ Account' = Account
      BY <2>8, LedgerStays DEF vars
    <3>2. TypeOK' /\ InTime' /\ OneAnswer' /\ CallbackIsDue' /\ PromiseFits' /\ PromiseIsFunded'
      BY <2>8 DEF IInv, vars, TypeOK, InTime, BookedBy, KeyOf, Key, OneAnswer, CallbackIsDue, PromiseFits,
                  Leaves, PromiseIsFunded, Earlier
    <3>3. Numbered' /\ BookedAsOrdered' /\ StatusFollowsCount' /\ RaisedFor'
      BY <2>8, <3>1 DEF IInv, vars, Numbered, BookedAsOrdered, StatusFollowsCount, RaisedFor
    <3> QED
      BY <3>1, <3>2, <3>3 DEF IInv
  <2> QED
    BY <2>1, <2>2, <2>3, <2>4, <2>5, <2>6, <2>7, <2>8 DEF Next
<1> QED
  BY <1>1, <1>2, PTL DEF Spec

\* No execution is booked twice or lost: the counters of the book are the sums of what the
\* ledger holds, and status follows them (Order.apply, _assert_rejectable).
THEOREM ExecutionsAreCounted == Spec => []ExecutionsCount
<1>1. IInv => ExecutionsCount
  <2> SUFFICES ASSUME IInv PROVE ExecutionsCount
    OBVIOUS
  <2>1. ASSUME NEW i \in DOMAIN fills, NEW j \in DOMAIN fills,
               fills[i].execution = fills[j].execution
        PROVE  i = j
    <3>1. i \in Nat /\ j \in Nat /\ fills[i].execution \in Nat /\ fills[j].execution \in Nat
      <4>1. TypeOK /\ fills \in Seq(Booking)
        BY DEF IInv, TypeOK
      <4> QED
        BY <4>1, BookingsAreTyped
    <3>2. ~(i < j) /\ ~(j < i)
      BY <2>1, <3>1 DEF IInv, Numbered
    <3> QED
      BY <3>1, <3>2
  <2>2. \A o \in Orders : order[o].filled = Booked(o)
    BY DEF IInv, CountsWhatIsBooked
  <2> QED
    BY <2>1, <2>2 DEF ExecutionsCount, IInv, StatusFollowsCount
<1> QED
  BY <1>1, StreamInvariant, PTL

\* Every execution was covered by the account as it stood before its instant, however
\* many were booked since its bar promised it (_funding_shortfall).
THEOREM ExecutionsAreFunded == Spec => []FillsAreFunded
<1>1. IInv => FillsAreFunded
  BY DEF IInv
<1> QED
  BY <1>1, StreamInvariant, PTL

\* A chain with one sale at most in an instant, and every execution in the session of its order,
\* replays, and sells in a session only what was held before it (_apply_sell, sellable_on).
THEOREM RegularChainsReplay == Spec => []ChainReplays
<1>1. IInv => ChainReplays
  <2> SUFFICES ASSUME IInv, Regular
               PROVE  /\ Account.valid
                      /\ \A s \in {SessionOf[t] : t \in 1..MaxTime} :
                           Traded("SELL", s) <= InitialLots + Traded("BUY", s - 1)
    BY DEF ChainReplays
  <2>1. Len(fills) \in 0..Len(fills)
    BY DEF IInv, TypeOK
  <2>2. Account.valid
    BY <2>1, RegularIsSound DEF Account, Sound
  <2>3. \A s \in {SessionOf[t] : t \in 1..MaxTime} : s \in Nat \ {0}
    BY SessionAssumption
  <2> QED
    BY <2>2, <2>3, SoldWasHeld
<1> QED
  BY <1>1, StreamInvariant, PTL

\* What a bar has promised finds its order open, unless a cancel of the instant came first
\* or another bar of it answered the order as well (ordering_key: an expiry comes after
\* every execution of its instant).
THEOREM PromisesFindTheirOrder == Spec => []TradesAreBooked
<1>1. IInv => TradesAreBooked
  BY DEF IInv, PromiseFits, TradesAreBooked, IsTerminal, TERMINAL
<1> QED
  BY <1>1, StreamInvariant, PTL

\* What ends a run, and of which order: an overfilled order or an answer that comes too late
\* is one that a cancel, a refusal in part filled or a second bar of the instant met; a sale
\* that has not settled is one of irregular sales.
THEOREM RunsRaiseOnlyFor == Spec => []RunNeverRaises
<1>1. IInv => RunNeverRaises
  <2> SUFFICES ASSUME IInv PROVE RunNeverRaises
    OBVIOUS
  <2>1. raised.what = "InvariantViolation" => ~Regular
    <3> SUFFICES ASSUME Regular, ~Account.valid PROVE FALSE
      BY DEF IInv, RaisedFor
    <3>1. Len(fills) \in 0..Len(fills)
      BY DEF IInv, TypeOK
    <3> QED
      BY <3>1, RegularIsSound DEF Account, Sound
  <2> QED
    BY <2>1 DEF IInv, RaisedFor, RunNeverRaises
<1> QED
  BY <1>1, StreamInvariant, PTL

=============================================================================
