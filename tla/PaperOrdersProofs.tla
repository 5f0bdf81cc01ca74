-------------------------- MODULE PaperOrdersProofs -------------------------
(***************************************************************************)
(* The paper-order endpoint, for any requests, workers, limits, restarts   *)
(* and overlapping calls: the durable claim makes the step from evidence   *)
(* to action exclusive.                                                    *)
(***************************************************************************)
EXTENDS PaperOrders, SequenceTheorems, FiniteSetTheorems, TLAPS

\* A worker between the claim it won and the venue's answer.
InFlight(w) == worker[w].pc \in {"open", "risk", "submit", "venue", "answer"}

\* A running call is at an entry of the queue.
AtEntries ==
    \A w \in Workers : /\ worker[w].pc # "idle" => worker[w].at \in DOMAIN queue
                       /\ worker[w].todo \subseteq DOMAIN queue

\* A claim names one request, for its own intent.
OneOwner ==
    /\ \A i \in Intents : \A o \in owner[i] : owner[i] = {o} /\ Intent(o) = i
    /\ \A w \in Workers : InFlight(w) => owner[Intent(Current(w))] = {Current(w)}
    /\ \A r \in Requests : ord[r] # "none" => owner[Intent(r)] = {r}

\* Only one worker is in flight with a request ...
OneInFlight ==
    \A v, w \in Workers : InFlight(v) /\ InFlight(w) /\ Current(v) = Current(w) => v = w

\* ... and knows how far its order is.
OrderFollowsWorker ==
    \A w \in Workers :
        /\ worker[w].pc = "open" => ord[Current(w)] = "none"
        /\ worker[w].pc = "risk" => ord[Current(w)] = "created"
        /\ worker[w].pc = "submit" => ord[Current(w)] = "approved"
        /\ worker[w].pc \in {"venue", "answer"} => ord[Current(w)] = "submitted"
        /\ worker[w].pc = "venue" => sent[Current(w)] = 0

\* An order that was sent is on the ledger as submitted or further, and sent once.
SentOnce == \A r \in Requests : sent[r] > 0 => ord[r] \in Reached /\ sent[r] = 1

IInv == TypeOK /\ AtEntries /\ OneOwner /\ OneInFlight /\ OrderFollowsWorker /\ SentOnce

\* What a running worker is at is a request.
LEMMA CurrentIsRequest ==
    ASSUME TypeOK, AtEntries, NEW w \in Workers, worker[w].pc # "idle"
    PROVE  Current(w) \in Requests /\ Intent(Current(w)) \in Intents
BY DEF TypeOK, AtEntries, Current, Intents

LEMMA CountIsNatural == ASSUME TypeOK PROVE SymbolOrdersToday \in Nat
<1>1. IsFiniteSet(SubmittedOrders)
  BY RequestsAssumption, FS_Subset DEF SubmittedOrders
<1> QED
  BY <1>1, FS_CardinalityType DEF TypeOK, SymbolOrdersToday, Unseeded

LEMMA InitInvariant == Init => IInv
<1> SUFFICES ASSUME Init PROVE IInv
  OBVIOUS
<1>1. <<>> \in Seq(Requests)
  OBVIOUS
<1>2. TypeOK
  <2>1. Idle \in Threads
    BY DEF Idle, Threads
  <2> QED
    BY <1>1, <2>1 DEF Init, TypeOK, Unseeded, Statuses
<1> QED
  BY <1>2 DEF Init, IInv, AtEntries, OneOwner, OneInFlight, OrderFollowsWorker, SentOnce,
              InFlight, Idle

\* A step that only moves worker w to a step in which it holds no claim, or leaves all
\* workers alone, and touches no owner, order or sending.
LEMMA QuietStep ==
    ASSUME IInv, NEW w \in Workers,
           UNCHANGED <<queue, owner, ord, sent>>,
           NEW next, worker' = [worker EXCEPT ![w] = next],
           next.pc \notin {"open", "risk", "submit", "venue", "answer"},
           next.pc # "idle" => next.at \in DOMAIN queue,
           next.todo \subseteq DOMAIN queue
    PROVE  AtEntries' /\ OneOwner' /\ OneInFlight' /\ OrderFollowsWorker' /\ SentOnce'
<1>1. /\ \A v \in Workers : v # w => worker'[v] = worker[v]
      /\ worker'[w] = next
      /\ \A v \in Workers : InFlight(v)' => v # w /\ InFlight(v) /\ Current(v)' = Current(v)
  BY DEF IInv, TypeOK, InFlight, Current
<1>2. AtEntries'
  BY <1>1 DEF IInv, AtEntries
<1>3. OneOwner' /\ OneInFlight'
  BY <1>1 DEF IInv, OneOwner, OneInFlight
<1>4. OrderFollowsWorker'
  BY <1>1 DEF IInv, OrderFollowsWorker, InFlight, Current
<1>5. SentOnce'
  BY DEF IInv, SentOnce
<1> QED
  BY <1>2, <1>3, <1>4, <1>5

\* A call that visits entries of the queue is at one of them afterwards, or has ended.
LEMMA VisitIsQuiet ==
    ASSUME TypeOK, NEW w \in Workers, NEW entries \in SUBSET (DOMAIN queue),
           NEW recover \in BOOLEAN, Visit(w, entries, recover)
    PROVE  \E next \in Threads : /\ next.pc \in {"idle", "check", "ledger"}
                                 /\ worker' = [worker EXCEPT ![w] = next]
                                 /\ next.pc # "idle" => next.at \in DOMAIN queue
                                 /\ next.todo \subseteq DOMAIN queue
<1>1. DOMAIN queue \subseteq Nat
  BY LenProperties DEF TypeOK
<1>2. CASE entries = {}
  <2>1. worker' = [worker EXCEPT ![w] = Idle]
    BY <1>2 DEF Visit
  <2>2. Idle \in Threads /\ Idle.pc = "idle" /\ Idle.todo = {}
    BY DEF Idle, Threads
  <2> QED
    BY <2>1, <2>2
<1>3. CASE entries # {}
  <2>1. PICK i \in entries :
          worker' = [worker EXCEPT ![w] =
                [pc |-> IF recover THEN "ledger" ELSE "check", at |-> i,
                 todo |-> entries \ {i}, recover |-> recover, found |-> {}]]
    BY <1>3 DEF Visit
  <2> DEFINE next == [pc |-> IF recover THEN "ledger" ELSE "check", at |-> i,
                      todo |-> entries \ {i}, recover |-> recover, found |-> {}]
  <2>2. /\ next \in Threads /\ next.pc \in {"check", "ledger"}
        /\ next.at \in DOMAIN queue /\ next.todo \subseteq DOMAIN queue
    BY <1>1 DEF Threads
  <2> QED
    BY <2>1, <2>2
<1> QED
  BY <1>2, <1>3

\* Requests, restarts of a call and answers from the ledger touch no order.
LEMMA VisitInvariant ==
    ASSUME IInv, NEW w \in Workers, NEW entries \in SUBSET (DOMAIN queue),
           NEW recover \in BOOLEAN, Visit(w, entries, recover),
           UNCHANGED <<queue, owner, ord, wire, counts, sent, failed>>,
           req' = req \/ \E c \in [state : {"executed", "interrupted"}, order : SUBSET Requests] :
                            req' = [req EXCEPT ![Current(w)] = c],
           overlaps' \in Nat
    PROVE  IInv'
<1>1. PICK next \in Threads : /\ next.pc \in {"idle", "check", "ledger"}
                              /\ worker' = [worker EXCEPT ![w] = next]
                              /\ next.pc # "idle" => next.at \in DOMAIN queue
                              /\ next.todo \subseteq DOMAIN queue
  BY VisitIsQuiet DEF IInv
<1>2. next.pc \notin {"open", "risk", "submit", "venue", "answer"}
  BY <1>1
<1>3. AtEntries' /\ OneOwner' /\ OneInFlight' /\ OrderFollowsWorker' /\ SentOnce'
  BY <1>1, <1>2, QuietStep
<1>4. TypeOK'
  <2>1. req' \in [Requests -> [state : {"none", "queued", "executed", "interrupted"},
                              order : SUBSET Requests]]
    BY DEF IInv, TypeOK
  <2>2. worker' \in [Workers -> Threads]
    BY <1>1 DEF IInv, TypeOK, Threads
  <2> QED
    BY <2>1, <2>2 DEF IInv, TypeOK, Threads, failed
<1> QED
  BY <1>3, <1>4 DEF IInv

\* A worker that takes its next step on an entry and holds no claim at it.
LEMMA QuietInvariant ==
    ASSUME IInv, NEW w \in Workers, worker[w].pc # "idle",
           UNCHANGED <<queue, owner, ord, wire, sent, req, overlaps>>,
           counts' \in Nat \cup {Unseeded}, failures' \in Nat, missed' \in SUBSET Requests,
           NEW next \in Threads, worker' = [worker EXCEPT ![w] = next],
           next.pc \in {"claim", "report", "ledger", "settle"} \/ next = Idle,
           next # Idle => next.at = worker[w].at /\ next.todo = worker[w].todo
    PROVE  IInv'
<1>1. /\ next.pc \notin {"open", "risk", "submit", "venue", "answer"}
      /\ next.pc # "idle" => next.at \in DOMAIN queue
      /\ next.todo \subseteq DOMAIN queue
  BY DEF IInv, AtEntries, Idle
<1>2. AtEntries' /\ OneOwner' /\ OneInFlight' /\ OrderFollowsWorker' /\ SentOnce'
  BY <1>1, QuietStep
<1>3. TypeOK'
  <2>1. worker' \in [Workers -> Threads]
    BY DEF IInv, TypeOK, Threads
  <2> QED
    BY <2>1 DEF IInv, TypeOK, Threads
<1> QED
  BY <1>2, <1>3 DEF IInv

\* A worker in flight that moves on with its order, which may be sent meanwhile.
LEMMA InFlightStep ==
    ASSUME IInv, NEW w \in Workers, InFlight(w),
           UNCHANGED <<queue, owner, req, overlaps, failed>>,
           NEW next \in Threads, worker' = [worker EXCEPT ![w] = next], next.pc # "idle",
           next.at = worker[w].at, next.todo = worker[w].todo,
           NEW st \in Statuses \ {"none"}, ord' = [ord EXCEPT ![Current(w)] = st],
           sent' \in [Requests -> Nat], sent'[Current(w)] \in {0, 1},
           \A r \in Requests : r # Current(w) => sent'[r] = sent[r],
           sent'[Current(w)] = 1 => st \in Reached,
           next.pc # "open",
           next.pc = "risk" => st = "created",
           next.pc = "submit" => st = "approved",
           next.pc \in {"venue", "answer"} => st = "submitted",
           next.pc = "venue" => sent'[Current(w)] = 0,
           counts' \in Nat \cup {Unseeded}, wire' \subseteq Requests
    PROVE  IInv'
<1>1. /\ Current(w) \in Requests /\ owner[Intent(Current(w))] = {Current(w)}
      /\ Intent(Current(w)) \in Intents
  BY CurrentIsRequest DEF IInv, InFlight, OneOwner
<1>2. /\ worker'[w] = next /\ Current(w)' = Current(w)
      /\ \A v \in Workers : v # w => worker'[v] = worker[v] /\ Current(v)' = Current(v)
      /\ \A v \in Workers : v # w /\ InFlight(v) => Current(v) # Current(w)
  BY DEF IInv, TypeOK, Current, OneInFlight
<1>3. TypeOK'
  BY <1>1 DEF IInv, TypeOK, failed
<1>4. AtEntries'
  BY <1>2 DEF IInv, AtEntries, InFlight
<1>5. OneOwner'
  BY <1>1, <1>2 DEF IInv, TypeOK, OneOwner, InFlight
<1>6. OneInFlight'
  BY <1>2 DEF IInv, OneInFlight, InFlight
<1>7. OrderFollowsWorker'
  <2>1. \A v \in Workers : v # w /\ InFlight(v) =>
            ord'[Current(v)] = ord[Current(v)] /\ sent'[Current(v)] = sent[Current(v)]
    BY <1>1, <1>2, CurrentIsRequest DEF IInv, TypeOK, InFlight
  <2>2. ord'[Current(w)] = st
    BY <1>1 DEF IInv, TypeOK
  <2> QED
    BY <1>2, <2>1, <2>2 DEF IInv, OrderFollowsWorker, InFlight
<1>8. SentOnce'
  BY <1>1 DEF IInv, TypeOK, SentOnce
<1> QED
  BY <1>3, <1>4, <1>5, <1>6, <1>7, <1>8 DEF IInv

\* Every step of every worker, every cancellation and every death of the process.
LEMMA StepInvariant == ASSUME IInv, [Next]_vars PROVE IInv'
<1>1. /\ queue \in Seq(Requests) /\ DOMAIN queue = 1..Len(queue) /\ Len(queue) \in Nat
      /\ worker \in [Workers -> Threads] /\ Pending \subseteq DOMAIN queue
      /\ TypeOK /\ AtEntries
  BY LenProperties DEF IInv, TypeOK, Threads, Pending
<1>2. ASSUME NEW w \in Workers, worker[w].pc # "idle"
      PROVE  /\ Current(w) \in Requests /\ Intent(Current(w)) \in Intents
             /\ worker[w].todo \subseteq DOMAIN queue /\ worker[w].recover \in BOOLEAN
  BY <1>1, <1>2, CurrentIsRequest DEF AtEntries, Threads
<1>3. ASSUME NEW r \in Requests, Submit(r) PROVE IInv'
  <2>1. /\ queue' = Append(queue, r) /\ req' = [req EXCEPT ![r].state = "queued"]
        /\ UNCHANGED <<owner, ord, wire, counts, worker, sent, overlaps, failed>>
    BY <1>3 DEF Submit
  <2>2. /\ queue' \in Seq(Requests) /\ DOMAIN queue \subseteq DOMAIN queue'
        /\ \A i \in DOMAIN queue : queue'[i] = queue[i]
    BY <1>1, <2>1, AppendProperties, LenProperties
  <2>3. req' \in [Requests -> [state : {"none", "queued", "executed", "interrupted"},
                              order : SUBSET Requests]]
    <3> DEFINE States == [state : {"none", "queued", "executed", "interrupted"},
                          order : SUBSET Requests]
    <3>1. req \in [Requests -> States] /\ req[r] \in States
      BY <1>1 DEF TypeOK
    <3>2. [req[r] EXCEPT !.state = "queued"] \in States
      BY <3>1
    <3> QED
      BY <2>1, <3>1, <3>2
  <2>4. TypeOK' /\ AtEntries'
    BY <1>1, <2>1, <2>2, <2>3 DEF TypeOK, AtEntries, failed
  <2>5. \A w \in Workers : InFlight(w)' => InFlight(w) /\ Current(w)' = Current(w)
    BY <1>1, <2>1, <2>2 DEF AtEntries, InFlight, Current
  <2>6. OneOwner' /\ OneInFlight'
    BY <2>1, <2>5 DEF IInv, OneOwner, OneInFlight
  <2>7. OrderFollowsWorker' /\ SentOnce'
    BY <2>1, <2>5 DEF IInv, OrderFollowsWorker, SentOnce, InFlight
  <2> QED
    BY <2>4, <2>6, <2>7 DEF IInv
<1>4. ASSUME NEW r \in Requests, Cancel(r) PROVE IInv'
  <2>1. /\ ord[r] = "working" /\ ord' = [ord EXCEPT ![r] = "cancelled"]
        /\ UNCHANGED <<queue, req, owner, wire, counts, worker, sent, overlaps, failed>>
    BY <1>4 DEF Cancel
  <2>2. TypeOK'
    BY <1>1, <2>1 DEF TypeOK, Statuses, Reached, failed
  <2>3. \A w \in Workers : InFlight(w) => Current(w) # r /\ ord'[Current(w)] = ord[Current(w)]
    BY <1>1, <1>2, <2>1 DEF IInv, TypeOK, OrderFollowsWorker, InFlight
  <2>4. AtEntries' /\ OneOwner' /\ OneInFlight'
    BY <1>1, <2>1 DEF IInv, TypeOK, AtEntries, OneOwner, OneInFlight, InFlight, Current
  <2>5. OrderFollowsWorker'
    BY <2>1, <2>3 DEF IInv, OrderFollowsWorker, InFlight, Current
  <2>6. SentOnce'
    BY <1>1, <2>1 DEF IInv, TypeOK, SentOnce, Reached
  <2> QED
    BY <2>2, <2>4, <2>5, <2>6 DEF IInv
<1>5. ASSUME NEW w \in Workers, Drain(w) \/ Recover(w) PROVE IInv'
  <2>1. /\ \E recover \in BOOLEAN : Visit(w, Pending, recover)
        /\ UNCHANGED <<queue, req, owner, ord, wire, counts, sent, failed>> /\ Starts(w)
    BY <1>5 DEF Drain, Recover, disk
  <2>2. overlaps' \in Nat
    BY <1>1, <2>1 DEF Starts, TypeOK
  <2> QED
    BY <1>1, <2>1, <2>2, VisitInvariant
<1>6. ASSUME NEW w \in Workers,
             ExecuteSkips(w) \/ ExecuteRefused(w) \/ Report(w) \/ SettleFromLedger(w)
      PROVE  IInv'
  <2>1. /\ worker[w].pc # "idle" /\ Visit(w, worker[w].todo, worker[w].recover)
        /\ UNCHANGED <<queue, owner, ord, wire, counts, sent, overlaps, failed>>
    BY <1>6 DEF ExecuteSkips, ExecuteRefused, Report, SettleFromLedger, NextEntry, At, disk
  <2>2. worker[w].found \subseteq Requests
    BY <1>1 DEF Threads
  <2>3. req' = req \/ \E c \in [state : {"executed", "interrupted"}, order : SUBSET Requests] :
                            req' = [req EXCEPT ![Current(w)] = c]
    BY <1>6, <2>2 DEF ExecuteSkips, ExecuteRefused, Report, SettleFromLedger, disk
  <2>4. overlaps' \in Nat
    BY <1>1, <2>1 DEF TypeOK
  <2> QED
    BY <1>2, <2>1, <2>3, <2>4, VisitInvariant
<1>7. ASSUME NEW w \in Workers, ExecuteStarts(w) PROVE IInv'
  <2>1. /\ worker' = [worker EXCEPT ![w] = [worker[w] EXCEPT !.pc = "claim"]]
        /\ worker[w].pc # "idle"
        /\ UNCHANGED <<queue, owner, ord, wire, counts, sent, req, overlaps, failed>>
    BY <1>7 DEF ExecuteStarts, Goto, At, disk
  <2>2. [worker[w] EXCEPT !.pc = "claim"] \in Threads
    BY <1>1 DEF Threads
  <2> QED
    BY <1>1, <2>1, <2>2, QuietInvariant DEF Threads, TypeOK, failed
<1>8. ASSUME NEW w \in Workers, ClaimConflict(w) PROVE IInv'
  <2>1. Idle \in Threads
    BY DEF Idle, Threads
  <2> QED
    BY <1>1, <1>8, <2>1, QuietInvariant DEF ClaimConflict, At, disk, TypeOK, failed
<1>9. ASSUME NEW w \in Workers, ClaimDuplicate(w) \/ ReadLedger(w) PROVE IInv'
  <2>1. \E pc \in {"report", "ledger", "settle"}, found \in SUBSET Requests :
            worker' = [worker EXCEPT ![w] = [worker[w] EXCEPT !.pc = pc, !.found = found]]
    <3>1. CASE ClaimDuplicate(w)
      <4>1. PICK o \in owner[Intent(Current(w))] :
              worker' = [worker EXCEPT ![w].pc = IF o \in wire THEN "report" ELSE "ledger",
                                       ![w].found = IF o \in wire THEN {o} ELSE {}]
        BY <3>1 DEF ClaimDuplicate
      <4>2. o \in wire => o \in Requests
        BY <1>1 DEF TypeOK
      <4> QED
        BY <1>1, <4>1, <4>2
    <3>2. CASE ReadLedger(w)
      BY <1>1, <3>2 DEF ReadLedger, Matches
    <3> QED
      BY <1>9, <3>1, <3>2
  <2>2. /\ worker[w].pc # "idle"
        /\ UNCHANGED <<queue, owner, ord, wire, counts, sent, req, overlaps, failed>>
    BY <1>9 DEF ClaimDuplicate, ReadLedger, At, disk
  <2>3. PICK pc \in {"report", "ledger", "settle"}, found \in SUBSET Requests :
            worker' = [worker EXCEPT ![w] = [worker[w] EXCEPT !.pc = pc, !.found = found]]
    BY <2>1
  <2> DEFINE next == [worker[w] EXCEPT !.pc = pc, !.found = found]
  <2>4. /\ next \in Threads /\ next.pc = pc
        /\ next.at = worker[w].at /\ next.todo = worker[w].todo
    BY <1>1 DEF Threads
  <2> QED
    BY <1>1, <2>2, <2>3, <2>4, QuietInvariant DEF TypeOK, failed
<1>10. ASSUME NEW w \in Workers, ClaimGranted(w) PROVE IInv'
  <2> DEFINE r == Current(w)
  <2>1. /\ worker[w].pc = "claim" /\ owner[Intent(r)] = {}
        /\ owner' = [owner EXCEPT ![Intent(r)] = {r}]
        /\ worker' = [worker EXCEPT ![w] = [worker[w] EXCEPT !.pc = "open"]]
        /\ UNCHANGED <<queue, req, ord, wire, counts, sent, overlaps, failed>>
    BY <1>10 DEF ClaimGranted, At, Goto
  <2>2. r \in Requests /\ Intent(r) \in Intents
    BY <1>2, <2>1
  <2>3. ord[r] = "none"
    BY <2>1, <2>2 DEF IInv, OneOwner
  <2>4. /\ Current(w)' = r /\ InFlight(w)' /\ worker'[w].pc = "open"
        /\ worker'[w].at = worker[w].at /\ worker'[w].todo = worker[w].todo
        /\ \A v \in Workers : v # w => worker'[v] = worker[v] /\ Current(v)' = Current(v)
    BY <1>1, <2>1 DEF Threads, Current, InFlight
  <2>5. \A v \in Workers : InFlight(v) => Intent(Current(v)) # Intent(r)
    BY <2>1 DEF IInv, OneOwner
  <2>6. TypeOK'
    <3>1. worker' \in [Workers -> Threads]
      <4>1. [worker[w] EXCEPT !.pc = "open"] \in Threads
        BY <1>1 DEF Threads
      <4> QED
        BY <1>1, <2>1, <4>1
    <3> QED
      BY <1>1, <2>1, <2>2, <3>1 DEF TypeOK, failed
  <2>7. AtEntries'
    BY <1>1, <2>1, <2>4 DEF AtEntries
  <2>8. OneOwner'
    <3>1. owner'[Intent(r)] = {r} /\ \A i \in Intents : i # Intent(r) => owner'[i] = owner[i]
      BY <1>1, <2>1, <2>2 DEF TypeOK
    <3>2. \A i \in Intents : \A o \in owner'[i] : owner'[i] = {o} /\ Intent(o) = i
      BY <3>1 DEF IInv, OneOwner
    <3>3. \A v \in Workers : InFlight(v)' => owner'[Intent(Current(v)')] = {Current(v)'}
      <4> SUFFICES ASSUME NEW v \in Workers, InFlight(v)', v # w
                   PROVE  owner'[Intent(Current(v)')] = {Current(v)'}
        BY <2>4, <3>1
      <4>1. InFlight(v) /\ Current(v)' = Current(v) /\ Intent(Current(v)) \in Intents
        BY <1>2, <2>4 DEF InFlight
      <4> QED
        BY <2>5, <3>1, <4>1 DEF IInv, OneOwner
    <3>4. \A q \in Requests : ord'[q] # "none" => owner'[Intent(q)] = {q}
      <4>1. \A q \in Requests : ord[q] # "none" => owner[Intent(q)] = {q}
        BY DEF IInv, OneOwner
      <4>2. \A q \in Requests : Intent(q) \in Intents
        BY DEF Intents
      <4> QED
        BY <2>1, <3>1, <4>1, <4>2
    <3> QED
      BY <3>2, <3>3, <3>4 DEF OneOwner, Intents, Intent, InFlight
  <2>9. OneInFlight'
    BY <2>4, <2>5 DEF IInv, OneInFlight, InFlight
  <2>10. OrderFollowsWorker' /\ SentOnce'
    BY <2>1, <2>3, <2>4 DEF IInv, OrderFollowsWorker, SentOnce
  <2> QED
    BY <2>6, <2>7, <2>8, <2>9, <2>10 DEF IInv
<1>11. ASSUME NEW w \in Workers, OpenCanonical(w) PROVE IInv'
  <2> DEFINE next == [worker[w] EXCEPT !.pc = "risk"]
  <2>1. /\ worker[w].pc = "open" /\ worker' = [worker EXCEPT ![w] = next]
        /\ ord' = [ord EXCEPT ![Current(w)] = "created"]
        /\ UNCHANGED <<queue, owner, req, overlaps, wire, counts, sent, failed>>
    BY <1>11 DEF OpenCanonical, At, Goto
  <2>2. /\ next \in Threads /\ next.pc = "risk" /\ InFlight(w)
        /\ next.at = worker[w].at /\ next.todo = worker[w].todo
    BY <1>1, <2>1 DEF Threads, InFlight
  <2>3. Current(w) \in Requests /\ sent[Current(w)] = 0
    <3>1. Current(w) \in Requests /\ sent[Current(w)] \in Nat
      BY <1>1, <1>2, <2>1 DEF TypeOK
    <3>2. ord[Current(w)] \in {"none", "created", "approved"}
      BY <2>1 DEF IInv, OrderFollowsWorker
    <3> QED
      BY <3>1, <3>2 DEF IInv, SentOnce, Reached
  <2>4. /\ sent' \in [Requests -> Nat]
        /\ sent'[Current(w)] = 0 /\ sent'[Current(w)] # 1 /\ sent'[Current(w)] \in {0, 1}
        /\ \A r \in Requests : r # Current(w) => sent'[r] = sent[r]
    BY <1>1, <2>1, <2>3 DEF TypeOK
  <2>5. counts' \in Nat \cup {Unseeded} /\ wire' \subseteq Requests
    BY <1>1, <2>1 DEF TypeOK
  <2>6. "created" \in Statuses \ {"none"}
    BY DEF Statuses, Reached
  <2>7. /\ worker' = [worker EXCEPT ![w] = next] /\ ord' = [ord EXCEPT ![Current(w)] = "created"]
        /\ UNCHANGED <<queue, owner, req, overlaps, failed>>
    BY <2>1
  <2> QED
    BY <2>2, <2>4, <2>5, <2>6, <2>7, InFlightStep
<1>12. ASSUME NEW w \in Workers, RiskDecides(w) PROVE IInv'
  <2>1. PICK next \in Threads, st \in {"approved", "risk_rejected"} :
            /\ worker' = [worker EXCEPT ![w] = next]
            /\ ord' = [ord EXCEPT ![Current(w)] = st]
            /\ next.at = worker[w].at /\ next.todo = worker[w].todo
            /\ next.pc \in {"submit", "report"} /\ (next.pc = "submit" => st = "approved")
            /\ wire' \subseteq wire \cup {Current(w)}
    <3>0. worker[w].pc = "risk" /\ Current(w) \in Requests
      BY <1>2, <1>12 DEF RiskDecides, At
    <3>1. CASE SymbolOrdersToday < Limit
      <4> DEFINE next == [worker[w] EXCEPT !.pc = "submit"]
      <4>1. /\ worker' = [worker EXCEPT ![w] = next] /\ wire' = wire
            /\ ord' = [ord EXCEPT ![Current(w)] = "approved"]
        BY <1>12, <3>1 DEF RiskDecides, Goto
      <4>2. /\ next \in Threads /\ next.pc = "submit"
            /\ next.at = worker[w].at /\ next.todo = worker[w].todo
        BY <1>1 DEF Threads
      <4> QED
        BY <4>1, <4>2
    <3>2. CASE ~(SymbolOrdersToday < Limit)
      <4> DEFINE next == [worker[w] EXCEPT !.pc = "report", !.found = {Current(w)}]
      <4>1. /\ worker' = [worker EXCEPT ![w] = next] /\ wire' = wire \cup {Current(w)}
            /\ ord' = [ord EXCEPT ![Current(w)] = "risk_rejected"]
        BY <1>1, <1>12, <3>2 DEF RiskDecides
      <4>2. /\ next \in Threads /\ next.pc = "report"
            /\ next.at = worker[w].at /\ next.todo = worker[w].todo
        BY <1>1, <3>0 DEF Threads
      <4> QED
        BY <4>1, <4>2
    <3> QED
      BY <3>1, <3>2
  <2>2. /\ worker[w].pc = "risk" /\ counts' = SymbolOrdersToday /\ InFlight(w)
        /\ UNCHANGED <<queue, req, owner, sent, overlaps, failed>>
    BY <1>12 DEF RiskDecides, At, InFlight
  <2>3. Current(w) \in Requests /\ sent[Current(w)] = 0
    <3>1. Current(w) \in Requests /\ sent[Current(w)] \in Nat
      BY <1>1, <1>2, <2>2 DEF TypeOK
    <3>2. ord[Current(w)] \in {"none", "created", "approved"}
      BY <2>2 DEF IInv, OrderFollowsWorker
    <3> QED
      BY <3>1, <3>2 DEF IInv, SentOnce, Reached
  <2>4. /\ sent' \in [Requests -> Nat]
        /\ sent'[Current(w)] = 0 /\ sent'[Current(w)] # 1 /\ sent'[Current(w)] \in {0, 1}
        /\ \A r \in Requests : r # Current(w) => sent'[r] = sent[r]
    BY <1>1, <2>2, <2>3 DEF TypeOK
  <2>5. counts' \in Nat \cup {Unseeded} /\ wire' \subseteq Requests
    BY <1>1, <2>1, <2>2, <2>3, CountIsNatural DEF TypeOK
  <2>6. st \in Statuses \ {"none"}
    BY <2>1 DEF Statuses, Reached
  <2>7. InFlight(w) /\ UNCHANGED <<queue, owner, req, overlaps, failed>>
    BY <2>2
  <2> QED
    BY <2>1, <2>4, <2>5, <2>6, <2>7, InFlightStep
<1>13. ASSUME NEW w \in Workers, SubmitCanonical(w) PROVE IInv'
  <2> DEFINE next == [worker[w] EXCEPT !.pc = "venue"]
  <2>1. /\ worker[w].pc = "submit" /\ worker' = [worker EXCEPT ![w] = next]
        /\ ord' = [ord EXCEPT ![Current(w)] = "submitted"]
        /\ UNCHANGED <<queue, owner, req, overlaps, wire, counts, sent, failed>>
    BY <1>13 DEF SubmitCanonical, At, Goto
  <2>2. /\ next \in Threads /\ next.pc = "venue" /\ InFlight(w)
        /\ next.at = worker[w].at /\ next.todo = worker[w].todo
    BY <1>1, <2>1 DEF Threads, InFlight
  <2>3. Current(w) \in Requests /\ sent[Current(w)] = 0
    <3>1. Current(w) \in Requests /\ sent[Current(w)] \in Nat
      BY <1>1, <1>2, <2>1 DEF TypeOK
    <3>2. ord[Current(w)] \in {"none", "created", "approved"}
      BY <2>1 DEF IInv, OrderFollowsWorker
    <3> QED
      BY <3>1, <3>2 DEF IInv, SentOnce, Reached
  <2>4. /\ sent' \in [Requests -> Nat]
        /\ sent'[Current(w)] = 0 /\ sent'[Current(w)] # 1 /\ sent'[Current(w)] \in {0, 1}
        /\ \A r \in Requests : r # Current(w) => sent'[r] = sent[r]
    BY <1>1, <2>1, <2>3 DEF TypeOK
  <2>5. counts' \in Nat \cup {Unseeded} /\ wire' \subseteq Requests
    BY <1>1, <2>1 DEF TypeOK
  <2>6. "submitted" \in Statuses \ {"none"}
    BY DEF Statuses, Reached
  <2>7. /\ worker' = [worker EXCEPT ![w] = next] /\ ord' = [ord EXCEPT ![Current(w)] = "submitted"]
        /\ UNCHANGED <<queue, owner, req, overlaps, failed>>
    BY <2>1
  <2> QED
    BY <2>2, <2>4, <2>5, <2>6, <2>7, InFlightStep
<1>14. ASSUME NEW w \in Workers, Send(w) PROVE IInv'
  <2> DEFINE next == [worker[w] EXCEPT !.pc = "answer"]
  <2>1. /\ worker[w].pc = "venue" /\ worker' = [worker EXCEPT ![w] = next]
        /\ sent' = [sent EXCEPT ![Current(w)] = @ + 1]
        /\ UNCHANGED <<queue, owner, req, overlaps, wire, counts, ord, failed>>
    BY <1>14 DEF Send, At, Goto, disk
  <2>2. /\ next \in Threads /\ next.pc = "answer" /\ InFlight(w)
        /\ next.at = worker[w].at /\ next.todo = worker[w].todo
    BY <1>1, <2>1 DEF Threads, InFlight
  <2>3. Current(w) \in Requests /\ sent[Current(w)] = 0 /\ ord[Current(w)] = "submitted"
    BY <1>1, <1>2, <2>1 DEF IInv, OrderFollowsWorker
  <2>4. /\ ord' = [ord EXCEPT ![Current(w)] = "submitted"]
        /\ sent' \in [Requests -> Nat] /\ sent'[Current(w)] = 1
        /\ \A r \in Requests : r # Current(w) => sent'[r] = sent[r]
    BY <1>1, <2>1, <2>3 DEF TypeOK
  <2>5. counts' \in Nat \cup {Unseeded} /\ wire' \subseteq Requests
    BY <1>1, <2>1 DEF TypeOK
  <2>6. "submitted" \in Statuses \ {"none"} /\ "submitted" \in Reached
    BY DEF Statuses, Reached
  <2> QED
    BY <2>1, <2>2, <2>4, <2>5, <2>6, InFlightStep
<1>15. ASSUME NEW w \in Workers, VenueAnswers(w) PROVE IInv'
  <2> DEFINE next == [worker[w] EXCEPT !.pc = "report", !.found = {Current(w)}]
  <2>1. /\ worker[w].pc = "answer" /\ worker' = [worker EXCEPT ![w] = next]
        /\ wire' = wire \cup {Current(w)} /\ counts' = counts + 1
        /\ UNCHANGED <<queue, owner, req, overlaps, sent, failed>>
    BY <1>1, <1>15 DEF VenueAnswers, At
  <2>2. Current(w) \in Requests
    BY <1>2, <2>1
  <2>3. /\ next \in Threads /\ next.pc = "report" /\ InFlight(w)
        /\ next.at = worker[w].at /\ next.todo = worker[w].todo
    BY <1>1, <2>1, <2>2 DEF Threads, InFlight
  <2>4. PICK st \in {"rejected", "filled", "working"} : ord' = [ord EXCEPT ![Current(w)] = st]
    BY <1>15 DEF VenueAnswers
  <2>5. /\ sent' \in [Requests -> Nat] /\ sent'[Current(w)] \in {0, 1}
        /\ \A r \in Requests : r # Current(w) => sent'[r] = sent[r]
    BY <1>1, <2>1, <2>2 DEF IInv, TypeOK, SentOnce
  <2>6. counts' \in Nat \cup {Unseeded} /\ wire' \subseteq Requests
    BY <1>1, <2>1, <2>2 DEF TypeOK, Unseeded
  <2>7. st \in Statuses \ {"none"} /\ st \in Reached
    BY <2>4 DEF Statuses, Reached
  <2> QED
    BY <2>1, <2>3, <2>4, <2>5, <2>6, <2>7, InFlightStep
<1>16. CASE Crash
  <2>1. /\ \A w \in Workers : worker'[w] = Idle
        /\ worker' = [w \in Workers |-> Idle] /\ wire' = {} /\ counts' = Unseeded
        /\ UNCHANGED <<queue, req, owner, ord, sent, overlaps, failed>>
    BY <1>16 DEF Crash, disk
  <2>2. Idle \in Threads /\ Idle.pc = "idle" /\ Idle.todo = {}
    BY DEF Idle, Threads
  <2>3. TypeOK'
    BY <1>1, <2>1, <2>2 DEF TypeOK, failed
  <2>4. \A w \in Workers : ~InFlight(w)' /\ worker'[w].pc = "idle" /\ worker'[w].todo = {}
    BY <2>1, <2>2 DEF InFlight
  <2> QED
    BY <2>1, <2>3, <2>4 DEF IInv, AtEntries, OneOwner, OneInFlight, OrderFollowsWorker, SentOnce
<1>17. CASE UNCHANGED vars
  BY <1>17 DEF vars, failed, IInv, TypeOK, AtEntries, OneOwner, OneInFlight, OrderFollowsWorker,
               SentOnce, InFlight, Current
<1>18. ASSUME NEW w \in Workers, Raises(w) PROVE IInv'
  <2>1. /\ worker[w].pc # "idle" /\ worker' = [worker EXCEPT ![w] = Idle]
        /\ counts' = counts \/ counts' = SymbolOrdersToday
        /\ failures' = failures + 1 /\ missed' \in {missed, missed \cup {Current(w)}}
        /\ UNCHANGED <<queue, owner, ord, wire, sent, req, overlaps>>
    BY <1>18 DEF Raises, At, disk
  <2>2. Idle \in Threads
    BY DEF Idle, Threads
  <2>3. counts' \in Nat \cup {Unseeded} /\ failures' \in Nat /\ missed' \in SUBSET Requests
    BY <1>1, <1>2, <2>1, CountIsNatural DEF TypeOK
  <2> QED
    BY <2>1, <2>2, <2>3, QuietInvariant
<1>19. ASSUME NEW w \in Workers, VenueRaises(w) PROVE IInv'
  <2>1. PICK st \in {"submitted", "rejected", "filled", "working"} :
            ord' = [ord EXCEPT ![Current(w)] = st]
    BY <1>19 DEF VenueRaises
  <2>2. /\ worker[w].pc = "answer" /\ worker' = [worker EXCEPT ![w] = Idle]
        /\ wire' \in {wire, wire \cup {Current(w)}}
        /\ failures' = failures + 1 /\ missed' = missed \cup {Current(w)}
        /\ UNCHANGED <<queue, req, owner, counts, sent, overlaps>>
    BY <1>19 DEF VenueRaises, At
  <2>3. Current(w) \in Requests /\ InFlight(w) /\ ord[Current(w)] = "submitted"
    BY <1>2, <2>2 DEF IInv, OrderFollowsWorker, InFlight
  <2>4. Idle \in Threads /\ Idle.pc = "idle" /\ Idle.todo = {}
    BY DEF Idle, Threads
  <2>5. st \in Statuses /\ st \in Reached /\ st # "none"
    BY DEF Statuses, Reached
  <2>6. TypeOK'
    BY <1>1, <2>1, <2>2, <2>3, <2>4, <2>5 DEF TypeOK
  <2>7. /\ worker'[w] = Idle /\ \A v \in Workers : v # w => worker'[v] = worker[v]
        /\ \A v \in Workers : InFlight(v)' => /\ v # w /\ InFlight(v) /\ Current(v)' = Current(v)
                                              /\ Current(v) # Current(w)
    BY <1>1, <2>2, <2>3, <2>4 DEF InFlight, Current, IInv, OneInFlight
  <2>8. AtEntries'
    BY <1>1, <2>2, <2>4, <2>7 DEF AtEntries
  <2>9. OneOwner' /\ OneInFlight'
    BY <1>1, <2>1, <2>2, <2>3, <2>7 DEF IInv, TypeOK, OneOwner, OneInFlight
  <2>10. OrderFollowsWorker'
    <3>1. \A v \in Workers : InFlight(v)' => ord'[Current(v)'] = ord[Current(v)]
      BY <1>1, <1>2, <2>1, <2>3, <2>7 DEF TypeOK, InFlight
    <3> QED
      BY <2>2, <2>7, <3>1 DEF IInv, OrderFollowsWorker, InFlight
  <2>11. SentOnce'
    BY <1>1, <2>1, <2>2, <2>3, <2>5 DEF IInv, TypeOK, SentOnce
  <2> QED
    BY <2>6, <2>8, <2>9, <2>10, <2>11 DEF IInv
<1> QED
  BY <1>3, <1>4, <1>5, <1>6, <1>7, <1>8, <1>9, <1>10, <1>11, <1>12, <1>13, <1>14, <1>15,
     <1>16, <1>17, <1>18, <1>19 DEF Next, WorkerStep

LEMMA OrdersInvariant == Spec => []IInv
<1>1. IInv /\ [Next]_vars => IInv'
  BY StepInvariant
<1> QED
  BY InitInvariant, <1>1, PTL DEF Spec

\* No venue order without its canonical submission, and no canonical order without the
\* claim of its own request, at whatever step a process dies (_submit_all).
THEOREM EvidencePrecedesAction == Spec => []EvidenceFirst
<1>1. IInv => EvidenceFirst
  BY DEF IInv, TypeOK, SentOnce, OneOwner, EvidenceFirst
<1> QED
  BY <1>1, OrdersInvariant, PTL

\* An economic intent reaches the venue at most once, however many workers, new keys
\* and restarts retry it (OrderManager's durable claim).
THEOREM IntentReachesVenueOnce == Spec => []OneOrderPerIntent
<1>1. IInv => OneOrderPerIntent
  <2> SUFFICES ASSUME IInv, NEW r \in Requests, NEW s \in Requests,
                      Intent(r) = Intent(s), sent[r] > 0, sent[s] > 0
               PROVE  r = s /\ sent[r] = 1
    BY DEF OneOrderPerIntent
  <2>1. sent[r] = 1 /\ ord[r] # "none" /\ ord[s] # "none"
    BY DEF IInv, SentOnce, Reached
  <2>2. owner[Intent(r)] = {r} /\ owner[Intent(s)] = {s}
    BY <2>1 DEF IInv, OneOwner
  <2> QED
    BY <2>1, <2>2
<1> QED
  BY <1>1, OrdersInvariant, PTL

-----------------------------------------------------------------------------
(* What a request is told *)

\* A thread between calls holds nothing, and while no calls have overlapped one runs
\* at most.
OneRunning ==
    /\ \A w \in Workers : At(w, "idle") => worker[w] = Idle
    /\ overlaps = 0 => \A v, w \in Workers : ~At(v, "idle") /\ ~At(w, "idle") => v = w

\* A request is queued by its claim, once.
QueuedOnce ==
    /\ \A i, j \in DOMAIN queue : queue[i] = queue[j] => i = j
    /\ \A i \in DOMAIN queue : req[queue[i]].state # "none"

\* What a call that runs alone is at or has yet to come to is still queued.
RunIsQueued ==
    overlaps = 0 =>
        \A w \in Workers : ~At(w, "idle") =>
            /\ IsQueued(Current(w)) /\ worker[w].at \notin worker[w].todo
            /\ \A i \in worker[w].todo : IsQueued(queue[i])

\* An order found for a request is of its signal.
FoundIsOwn ==
    /\ \A w \in Workers : \A o \in worker[w].found : o.signal = Current(w).signal
    /\ \A r \in Requests : \A o \in req[r].order : o.signal = r.signal

\* While calls run alone, nothing found on the ledger means nothing was opened.
Unopened ==
    overlaps = 0 =>
        /\ \A r \in Requests : req[r].state = "interrupted" => ord[r] = "none"
        /\ \A w \in Workers : At(w, "settle") /\ worker[w].found = {} => ord[Current(w)] = "none"

Settled == OneRunning /\ QueuedOnce /\ RunIsQueued /\ FoundIsOwn /\ Unopened

\* A call goes to one of the entries and has the others left, or ends.
LEMMA VisitGoesOn ==
    ASSUME TypeOK, NEW w \in Workers, NEW entries, NEW recover \in BOOLEAN,
           Visit(w, entries, recover)
    PROVE  \E next : /\ worker' = [worker EXCEPT ![w] = next]
                     /\ \/ next = Idle
                        \/ /\ next.pc \in {"check", "ledger"} /\ next.found = {}
                           /\ next.at \in entries /\ next.todo = entries \ {next.at}
<1>1. CASE entries = {}
  BY <1>1 DEF Visit
<1>2. CASE entries # {}
  <2>1. PICK i \in entries :
          worker' = [worker EXCEPT ![w] =
                [pc |-> IF recover THEN "ledger" ELSE "check", at |-> i,
                 todo |-> entries \ {i}, recover |-> recover, found |-> {}]]
    BY <1>2 DEF Visit
  <2> DEFINE next == [pc |-> IF recover THEN "ledger" ELSE "check", at |-> i,
                      todo |-> entries \ {i}, recover |-> recover, found |-> {}]
  <2>2. /\ next.pc \in {"check", "ledger"} /\ next.found = {}
        /\ next.at \in entries /\ next.todo = entries \ {next.at}
    OBVIOUS
  <2> QED
    BY <2>1, <2>2
<1> QED
  BY <1>1, <1>2

\* A call that starts, or goes on to its next entry after it settled one.
LEMMA VisitSettled ==
    ASSUME IInv, Settled, NEW w \in Workers, NEW entries \in SUBSET (DOMAIN queue),
           NEW recover \in BOOLEAN, Visit(w, entries, recover),
           UNCHANGED <<queue, ord>>,
           \A r \in Requests :
             req'[r] = req[r] \/ /\ req'[r].state \in {"executed", "interrupted"}
                                 /\ \A o \in req'[r].order : o.signal = r.signal
                                 /\ req'[r].state = "interrupted" /\ overlaps' = 0 => ord[r] = "none",
           overlaps' = 0 => /\ overlaps = 0 /\ \A v \in Workers : v # w => At(v, "idle")
                            /\ \A i \in entries : req'[queue[i]].state = "queued"
    PROVE  Settled'
<1>1. PICK next : /\ worker' = [worker EXCEPT ![w] = next]
                  /\ \/ next = Idle
                     \/ /\ next.pc \in {"check", "ledger"} /\ next.found = {}
                        /\ next.at \in entries /\ next.todo = entries \ {next.at}
  BY VisitGoesOn DEF IInv
<1>2. /\ worker'[w] = next /\ \A v \in Workers : v # w => worker'[v] = worker[v]
      /\ next.found = {} /\ (next.pc = "idle" => next = Idle) /\ next.pc # "settle"
  BY <1>1 DEF IInv, TypeOK, Idle
<1>3. queue' = queue /\ \A i \in DOMAIN queue : queue[i] \in Requests
  BY DEF IInv, TypeOK
<1>4. OneRunning'
  BY <1>2 DEF Settled, OneRunning, At
<1>5. QueuedOnce'
  BY <1>3 DEF Settled, QueuedOnce
<1>6. RunIsQueued'
  <2> SUFFICES ASSUME overlaps' = 0, NEW v \in Workers, ~At(v, "idle")'
               PROVE  /\ IsQueued(Current(v))' /\ worker'[v].at \notin worker'[v].todo
                      /\ \A i \in worker'[v].todo : IsQueued(queue[i])'
    BY DEF RunIsQueued
  <2>1. v = w
    BY <1>2 DEF At
  <2>2. next.at \in entries /\ next.todo = entries \ {next.at}
    BY <1>1, <1>2, <2>1 DEF At, Idle
  <2> QED
    BY <1>2, <1>3, <2>1, <2>2 DEF IsQueued, Current
<1>7. FoundIsOwn'
  BY <1>2, <1>3 DEF Settled, FoundIsOwn, Current
<1>8. Unopened'
  <2>1. ASSUME overlaps' = 0, NEW v \in Workers, At(v, "settle")' PROVE FALSE
    BY <1>2, <2>1 DEF At
  <2> QED
    BY <2>1 DEF Settled, Unopened
<1> QED
  BY <1>4, <1>5, <1>6, <1>7, <1>8 DEF Settled

\* A worker that goes on with the entry it is at, and may move that entry's order.
LEMMA EntrySettled ==
    ASSUME IInv, Settled, NEW w \in Workers, ~At(w, "idle"),
           NEW next, worker' = [worker EXCEPT ![w] = next],
           next.pc # "idle", next.at = worker[w].at, next.todo = worker[w].todo,
           \A o \in next.found : o.signal = Current(w).signal,
           next.pc = "settle" /\ next.found = {} => ord'[Current(w)] = "none",
           \A r \in Requests : r # Current(w) => ord'[r] = ord[r],
           UNCHANGED <<queue, req, overlaps>>
    PROVE  Settled'
<1>1. /\ worker'[w] = next /\ Current(w)' = Current(w)
      /\ \A v \in Workers : v # w => worker'[v] = worker[v] /\ Current(v)' = Current(v)
  BY DEF IInv, TypeOK, Current
<1>2. OneRunning'
  BY <1>1 DEF Settled, OneRunning, At
<1>3. QueuedOnce' /\ FoundIsOwn'
  BY <1>1 DEF Settled, QueuedOnce, FoundIsOwn
<1>4. RunIsQueued'
  <2> SUFFICES ASSUME overlaps = 0, NEW v \in Workers, ~At(v, "idle")'
               PROVE  /\ IsQueued(Current(v)') /\ worker'[v].at \notin worker'[v].todo
                      /\ \A i \in worker'[v].todo : IsQueued(queue[i])
    BY DEF RunIsQueued, IsQueued
  <2>1. v = w
    BY <1>1 DEF Settled, OneRunning, At
  <2> QED
    BY <1>1, <2>1 DEF Settled, RunIsQueued
<1>5. Unopened'
  <2> SUFFICES ASSUME overlaps = 0 PROVE Unopened'
    BY DEF Unopened
  <2>1. IsQueued(Current(w)) /\ \A v \in Workers : v # w => At(v, "idle")
    BY DEF Settled, RunIsQueued, OneRunning
  <2>2. \A r \in Requests : req[r].state = "interrupted" => ord'[r] = "none"
    BY <2>1 DEF Settled, Unopened, IsQueued
  <2> QED
    BY <1>1, <2>1, <2>2 DEF Unopened, At
<1> QED
  BY <1>2, <1>3, <1>4, <1>5 DEF Settled

\* Every step keeps what a request is told true.
LEMMA StepSettled == ASSUME IInv, Settled, [Next]_vars PROVE Settled'
<1>1. /\ queue \in Seq(Requests) /\ DOMAIN queue = 1..Len(queue) /\ Len(queue) \in Nat
      /\ worker \in [Workers -> Threads] /\ Pending \subseteq DOMAIN queue
      /\ TypeOK /\ AtEntries
  BY LenProperties DEF IInv, TypeOK, Threads, Pending
<1>2. ASSUME NEW w \in Workers, worker[w].pc # "idle"
      PROVE  /\ Current(w) \in Requests /\ Intent(Current(w)) \in Intents
             /\ worker[w].at \in DOMAIN queue /\ Current(w) = queue[worker[w].at]
             /\ worker[w].todo \subseteq DOMAIN queue /\ worker[w].recover \in BOOLEAN
  BY <1>1, <1>2, CurrentIsRequest DEF AtEntries, Threads, Current
<1>3. ASSUME NEW r \in Requests, Submit(r) PROVE Settled'
  <2>1. /\ req[r].state = "none"
        /\ queue' = Append(queue, r) /\ req' = [req EXCEPT ![r].state = "queued"]
        /\ UNCHANGED <<owner, ord, wire, counts, worker, sent, overlaps>>
    BY <1>3 DEF Submit
  <2>2. /\ DOMAIN queue' = DOMAIN queue \cup {Len(queue) + 1}
        /\ queue'[Len(queue) + 1] = r
        /\ \A i \in DOMAIN queue : queue'[i] = queue[i] /\ queue[i] \in Requests
    BY <1>1, <2>1, AppendProperties, LenProperties
  <2>3. /\ \A q \in Requests : q # r => req'[q] = req[q]
        /\ req'[r].state = "queued" /\ req'[r].order = req[r].order
    BY <1>1, <2>1 DEF TypeOK
  <2>4. \A i \in DOMAIN queue : queue[i] # r
    BY <2>1 DEF Settled, QueuedOnce
  <2>5. \A w \in Workers : ~At(w, "idle") => Current(w)' = Current(w) /\ Current(w) \in Requests
    BY <1>2, <2>1, <2>2 DEF At, Current
  <2>6. OneRunning'
    BY <2>1 DEF Settled, OneRunning, At
  <2>7. QueuedOnce'
    BY <1>1, <2>2, <2>3, <2>4 DEF Settled, QueuedOnce
  <2>8. RunIsQueued'
    <3> SUFFICES ASSUME overlaps = 0, NEW w \in Workers, ~At(w, "idle")
                 PROVE  /\ req'[Current(w)].state = "queued" /\ worker[w].at \notin worker[w].todo
                        /\ \A i \in worker[w].todo : req'[queue'[i]].state = "queued"
      BY <2>1, <2>5 DEF RunIsQueued, IsQueued, At
    <3>1. /\ IsQueued(Current(w)) /\ worker[w].at \notin worker[w].todo
          /\ \A i \in worker[w].todo : IsQueued(queue[i])
      BY DEF Settled, RunIsQueued
    <3>2. worker[w].todo \subseteq DOMAIN queue
      BY <1>1 DEF AtEntries
    <3> QED
      BY <2>2, <2>3, <2>5, <3>1, <3>2 DEF IsQueued
  <2>9. FoundIsOwn'
    <3>1. \A w \in Workers : At(w, "idle") => worker[w].found = {}
      BY DEF Settled, OneRunning, Idle
    <3> QED
      BY <2>1, <2>3, <2>5, <3>1 DEF Settled, FoundIsOwn
  <2>10. Unopened'
    <3>1. \A w \in Workers : At(w, "settle") => ~At(w, "idle")
      BY DEF At
    <3> QED
      BY <2>1, <2>3, <2>5, <3>1 DEF Settled, Unopened, At
  <2> QED
    BY <2>6, <2>7, <2>8, <2>9, <2>10 DEF Settled
<1>4. ASSUME NEW r \in Requests, Cancel(r) PROVE Settled'
  <2>1. /\ ord[r] = "working" /\ ord' = [ord EXCEPT ![r] = "cancelled"]
        /\ UNCHANGED <<queue, req, worker, overlaps>>
    BY <1>4 DEF Cancel
  <2>2. \A q \in Requests : ord[q] = "none" => ord'[q] = "none"
    BY <1>1, <2>1 DEF TypeOK
  <2>3. Unopened'
    <3>1. \A w \in Workers : At(w, "settle") => Current(w) \in Requests
      BY <1>2 DEF At
    <3> QED
      BY <2>1, <2>2, <3>1 DEF Settled, Unopened, At, Current
  <2> QED
    BY <2>1, <2>3 DEF Settled, OneRunning, QueuedOnce, RunIsQueued, FoundIsOwn, At, Current,
                      IsQueued
<1>5. ASSUME NEW w \in Workers, Drain(w) \/ Recover(w) PROVE Settled'
  <2>1. /\ \E recover \in BOOLEAN : Visit(w, Pending, recover)
        /\ UNCHANGED <<queue, req, ord>> /\ Starts(w)
    BY <1>5 DEF Drain, Recover, disk
  <2>2. overlaps' = 0 => overlaps = 0 /\ \A v \in Workers : v # w => At(v, "idle")
    BY <1>1, <2>1 DEF Starts, TypeOK
  <2>3. \A i \in Pending : req'[queue[i]].state = "queued"
    BY <2>1 DEF Pending, IsQueued
  <2> QED
    BY <1>1, <2>1, <2>2, <2>3, VisitSettled
<1>6. ASSUME NEW w \in Workers,
             ExecuteSkips(w) \/ ExecuteRefused(w) \/ Report(w) \/ SettleFromLedger(w)
      PROVE  Settled'
  <2>1. /\ ~At(w, "idle") /\ worker[w].pc # "idle"
        /\ Visit(w, worker[w].todo, worker[w].recover)
        /\ UNCHANGED <<queue, ord, overlaps>>
    BY <1>6 DEF ExecuteSkips, ExecuteRefused, Report, SettleFromLedger, NextEntry, At, disk
  <2>2. req' = req \/ \E c : /\ req' = [req EXCEPT ![Current(w)] = c]
                             /\ c.state \in {"executed", "interrupted"}
                             /\ \A o \in c.order : o.signal = Current(w).signal
                             /\ c.state = "interrupted" /\ overlaps = 0 => ord[Current(w)] = "none"
    <3>1. CASE ExecuteSkips(w)
      BY <3>1 DEF ExecuteSkips, disk
    <3>2. CASE ExecuteRefused(w)
      <4> DEFINE c == [state |-> "executed", order |-> {}]
      <4>1. req' = [req EXCEPT ![Current(w)] = c]
        BY <3>2 DEF ExecuteRefused
      <4>2. c.state = "executed" /\ c.order = {}
        OBVIOUS
      <4> QED
        BY <4>1, <4>2
    <3>3. CASE Report(w)
      <4> DEFINE c == [state |-> "executed", order |-> worker[w].found]
      <4>1. req' = [req EXCEPT ![Current(w)] = c]
        BY <3>3 DEF Report
      <4>2. c.state = "executed" /\ \A o \in c.order : o.signal = Current(w).signal
        BY DEF Settled, FoundIsOwn
      <4> QED
        BY <4>1, <4>2
    <3>4. CASE SettleFromLedger(w)
      <4> DEFINE c == [state |-> IF worker[w].found = {} THEN "interrupted" ELSE "executed",
                       order |-> worker[w].found]
      <4>1. req' = [req EXCEPT ![Current(w)] = c] /\ At(w, "settle")
        BY <3>4 DEF SettleFromLedger
      <4>2. /\ c.state \in {"executed", "interrupted"}
            /\ \A o \in c.order : o.signal = Current(w).signal
            /\ c.state = "interrupted" => worker[w].found = {}
        BY DEF Settled, FoundIsOwn
      <4>3. c.state = "interrupted" /\ overlaps = 0 => ord[Current(w)] = "none"
        BY <4>1, <4>2 DEF Settled, Unopened
      <4> QED
        BY <4>1, <4>2, <4>3
    <3> QED
      BY <1>6, <3>1, <3>2, <3>3, <3>4
  <2>3. \A r \in Requests :
          /\ r # Current(w) => req'[r] = req[r]
          /\ \/ req'[r] = req[r]
             \/ /\ req'[r].state \in {"executed", "interrupted"}
                /\ \A o \in req'[r].order : o.signal = r.signal
                /\ req'[r].state = "interrupted" /\ overlaps' = 0 => ord[r] = "none"
    BY <1>1, <1>2, <2>1, <2>2 DEF TypeOK
  <2>4. ASSUME overlaps' = 0
        PROVE  /\ overlaps = 0 /\ \A v \in Workers : v # w => At(v, "idle")
               /\ \A i \in worker[w].todo : req'[queue[i]].state = "queued"
    <3>1. overlaps = 0 /\ \A v \in Workers : v # w => At(v, "idle")
      BY <2>1, <2>4 DEF Settled, OneRunning
    <3>2. /\ worker[w].at \notin worker[w].todo
          /\ \A i \in worker[w].todo : req[queue[i]].state = "queued"
      BY <2>1, <3>1 DEF Settled, RunIsQueued, IsQueued
    <3>3. \A i \in worker[w].todo : queue[i] # Current(w) /\ queue[i] \in Requests
      BY <1>1, <1>2, <2>1, <3>2 DEF Settled, QueuedOnce
    <3> QED
      BY <2>3, <3>1, <3>2, <3>3
  <2> QED
    BY <1>2, <2>1, <2>3, <2>4, VisitSettled
<1>7. ASSUME NEW w \in Workers,
             \/ ExecuteStarts(w) \/ ClaimGranted(w) \/ ClaimDuplicate(w) \/ OpenCanonical(w)
             \/ RiskDecides(w) \/ SubmitCanonical(w) \/ Send(w) \/ VenueAnswers(w) \/ ReadLedger(w)
      PROVE  Settled'
  <2>0. /\ worker[w].pc # "idle" /\ ~At(w, "idle") /\ UNCHANGED <<queue, req, overlaps>>
    BY <1>7 DEF ExecuteStarts, ClaimGranted, ClaimDuplicate, OpenCanonical, RiskDecides,
                SubmitCanonical, Send, VenueAnswers, ReadLedger, At, disk
  <2>1. Current(w) \in Requests /\ \A o \in worker[w].found : o.signal = Current(w).signal
    BY <1>2, <2>0 DEF Settled, FoundIsOwn
  <2>2. \A r \in Requests : r # Current(w) => ord'[r] = ord[r]
    <3>1. ord' = ord \/ \E st : ord' = [ord EXCEPT ![Current(w)] = st]
      BY <1>7 DEF ExecuteStarts, ClaimGranted, ClaimDuplicate, OpenCanonical, RiskDecides,
                  SubmitCanonical, Send, VenueAnswers, ReadLedger, disk
    <3> QED
      BY <1>1, <3>1 DEF TypeOK
  <2> DEFINE Shows(pc, found) ==
               /\ worker' = [worker EXCEPT ![w] = [worker[w] EXCEPT !.pc = pc, !.found = found]]
               /\ \A o \in found : o.signal = Current(w).signal
               /\ pc = "settle" /\ found = {} => ord'[Current(w)] = "none"
  <2>3. \/ \E pc \in {"claim", "open", "risk", "submit", "venue", "answer"} :
            worker' = [worker EXCEPT ![w] = [worker[w] EXCEPT !.pc = pc]]
        \/ \E pc \in {"report", "ledger", "settle"}, found \in SUBSET Requests : Shows(pc, found)
    <3>1. CASE \/ ExecuteStarts(w) \/ ClaimGranted(w) \/ OpenCanonical(w) \/ SubmitCanonical(w)
               \/ Send(w)
      BY <3>1 DEF ExecuteStarts, ClaimGranted, OpenCanonical, SubmitCanonical, Send, Goto
    <3>2. CASE RiskDecides(w)
      <4>1. CASE SymbolOrdersToday < Limit
        BY <3>2, <4>1 DEF RiskDecides, Goto
      <4>2. CASE ~(SymbolOrdersToday < Limit)
        <5>1. worker' = [worker EXCEPT ![w] =
                           [worker[w] EXCEPT !.pc = "report", !.found = {Current(w)}]]
          BY <1>1, <3>2, <4>2 DEF RiskDecides
        <5>2. Shows("report", {Current(w)}) /\ {Current(w)} \in SUBSET Requests
          BY <2>1, <5>1
        <5> HIDE DEF Shows
        <5> QED
          BY <5>2
      <4> QED
        BY <4>1, <4>2
    <3>3. CASE VenueAnswers(w)
      <4>1. worker' = [worker EXCEPT ![w] =
                         [worker[w] EXCEPT !.pc = "report", !.found = {Current(w)}]]
        BY <1>1, <3>3 DEF VenueAnswers
      <4>2. Shows("report", {Current(w)}) /\ {Current(w)} \in SUBSET Requests
        BY <2>1, <4>1
      <4> HIDE DEF Shows
      <4> QED
        BY <4>2
    <3>4. CASE ClaimDuplicate(w)
      <4>1. PICK o \in owner[Intent(Current(w))] :
              worker' = [worker EXCEPT ![w].pc = IF o \in wire THEN "report" ELSE "ledger",
                                       ![w].found = IF o \in wire THEN {o} ELSE {}]
        BY <3>4 DEF ClaimDuplicate
      <4>2. Intent(o) = Intent(Current(w)) /\ o.signal = Current(w).signal
        BY <1>2, <2>0 DEF IInv, OneOwner, Intent
      <4>3. o \in wire => o \in Requests
        BY <1>1 DEF TypeOK
      <4>4. CASE o \in wire
        <5>1. worker' = [worker EXCEPT ![w] = [worker[w] EXCEPT !.pc = "report", !.found = {o}]]
          BY <1>1, <4>1, <4>4
        <5>2. {o} \in SUBSET Requests /\ \A x \in {o} : x.signal = Current(w).signal
          BY <4>2, <4>3, <4>4
        <5>3. Shows("report", {o})
          BY <5>1, <5>2
        <5> HIDE DEF Shows
        <5> QED
          BY <5>2, <5>3
      <4>5. CASE o \notin wire
        <5>1. worker' = [worker EXCEPT ![w] = [worker[w] EXCEPT !.pc = "ledger", !.found = {}]]
          BY <1>1, <4>1, <4>5
        <5>2. Shows("ledger", {})
          BY <5>1
        <5> HIDE DEF Shows
        <5> QED
          BY <5>2
      <4> QED
        BY <4>4, <4>5
    <3>5. CASE ReadLedger(w)
      <4>1. PICK found \in SUBSET Matches(Current(w)) :
              /\ Cardinality(found) = IF Matches(Current(w)) = {} THEN 0 ELSE 1
              /\ worker' = [worker EXCEPT ![w].pc = "settle", ![w].found = found]
              /\ ord' = ord
        BY <3>5 DEF ReadLedger, disk
      <4>2. /\ found \in SUBSET Requests
            /\ \A o \in found : o.signal = Current(w).signal
        BY DEF Matches
      <4>3. found = {} => ord'[Current(w)] = "none"
        <5>1. found = {} => Cardinality(found) = 0
          BY FS_EmptySet
        <5>2. found = {} => Matches(Current(w)) = {}
          BY <4>1, <5>1
        <5> QED
          BY <2>1, <4>1, <5>2 DEF Matches
      <4>4. worker' = [worker EXCEPT ![w] = [worker[w] EXCEPT !.pc = "settle", !.found = found]]
        BY <1>1, <4>1
      <4>5. Shows("settle", found)
        BY <4>2, <4>3, <4>4
      <4> HIDE DEF Shows
      <4> QED
        BY <4>2, <4>5
    <3> QED
      BY <1>7, <3>1, <3>2, <3>3, <3>4, <3>5
  <2>4. CASE \E pc \in {"claim", "open", "risk", "submit", "venue", "answer"} :
                 worker' = [worker EXCEPT ![w] = [worker[w] EXCEPT !.pc = pc]]
    <3>1. PICK pc \in {"claim", "open", "risk", "submit", "venue", "answer"} :
                 worker' = [worker EXCEPT ![w] = [worker[w] EXCEPT !.pc = pc]]
      BY <2>4
    <3> DEFINE next == [worker[w] EXCEPT !.pc = pc]
    <3>2. /\ next.pc = pc /\ pc # "idle" /\ pc # "settle" /\ next.found = worker[w].found
          /\ next.at = worker[w].at /\ next.todo = worker[w].todo
      BY <1>1 DEF Threads
    <3> QED
      BY <2>0, <2>1, <2>2, <3>1, <3>2, EntrySettled
  <2>5. CASE \E pc \in {"report", "ledger", "settle"}, found \in SUBSET Requests :
                 /\ worker' = [worker EXCEPT ![w] = [worker[w] EXCEPT !.pc = pc, !.found = found]]
                 /\ \A o \in found : o.signal = Current(w).signal
                 /\ pc = "settle" /\ found = {} => ord'[Current(w)] = "none"
    <3>1. PICK pc \in {"report", "ledger", "settle"}, found \in SUBSET Requests :
                 /\ worker' = [worker EXCEPT ![w] = [worker[w] EXCEPT !.pc = pc, !.found = found]]
                 /\ \A o \in found : o.signal = Current(w).signal
                 /\ pc = "settle" /\ found = {} => ord'[Current(w)] = "none"
      BY <2>5
    <3> DEFINE next == [worker[w] EXCEPT !.pc = pc, !.found = found]
    <3>2. /\ next.pc = pc /\ pc # "idle" /\ next.found = found
          /\ next.at = worker[w].at /\ next.todo = worker[w].todo
      BY <1>1 DEF Threads
    <3> QED
      BY <2>0, <2>2, <3>1, <3>2, EntrySettled
  <2> QED
    BY <2>3, <2>4, <2>5
<1>8. ASSUME NEW w \in Workers, ClaimConflict(w) \/ Raises(w) PROVE Settled'
  <2>1. /\ worker' = [worker EXCEPT ![w] = Idle] /\ UNCHANGED <<queue, req, ord, overlaps>>
    BY <1>8 DEF ClaimConflict, Raises, disk
  <2>2. /\ worker'[w] = Idle /\ \A v \in Workers : v # w => worker'[v] = worker[v]
        /\ Idle.pc = "idle" /\ Idle.found = {}
    BY <1>1, <2>1 DEF Idle
  <2> QED
    BY <2>1, <2>2 DEF Settled, OneRunning, QueuedOnce, RunIsQueued, FoundIsOwn, Unopened, At,
                      Current, IsQueued
<1>9. CASE Crash
  <2>1. /\ \A w \in Workers : worker'[w] = Idle
        /\ UNCHANGED <<queue, req, ord, overlaps>>
    BY <1>9 DEF Crash, disk
  <2>2. Idle.pc = "idle" /\ Idle.found = {}
    BY DEF Idle
  <2> QED
    BY <2>1, <2>2 DEF Settled, OneRunning, QueuedOnce, RunIsQueued, FoundIsOwn, Unopened, At
<1>10. CASE UNCHANGED vars
  BY <1>10 DEF vars, Settled, OneRunning, QueuedOnce, RunIsQueued, FoundIsOwn, Unopened, At,
               Current, IsQueued
<1>11. ASSUME NEW w \in Workers, VenueRaises(w) PROVE Settled'
  <2>1. PICK st \in {"submitted", "rejected", "filled", "working"} :
            ord' = [ord EXCEPT ![Current(w)] = st]
    BY <1>11 DEF VenueRaises
  <2>2. /\ worker[w].pc = "answer" /\ worker' = [worker EXCEPT ![w] = Idle]
        /\ UNCHANGED <<queue, req, overlaps>>
    BY <1>11 DEF VenueRaises, At
  <2>3. Current(w) \in Requests /\ ord[Current(w)] = "submitted"
    BY <1>2, <2>2 DEF IInv, OrderFollowsWorker
  <2>4. /\ worker'[w] = Idle /\ \A v \in Workers : v # w => worker'[v] = worker[v]
        /\ Idle.pc = "idle" /\ Idle.found = {}
    BY <1>1, <2>2 DEF Idle
  <2>5. \A r \in Requests : ord[r] = "none" => ord'[r] = "none"
    BY <1>1, <2>1, <2>3 DEF TypeOK
  <2>6. Unopened'
    <3>1. \A v \in Workers : At(v, "settle") => Current(v) \in Requests
      BY <1>2 DEF At
    <3> QED
      BY <2>2, <2>4, <2>5, <3>1 DEF Settled, Unopened, At, Current
  <2> QED
    BY <2>2, <2>4, <2>6 DEF Settled, OneRunning, QueuedOnce, RunIsQueued, FoundIsOwn, At, Current,
                            IsQueued
<1> QED
  BY <1>3, <1>4, <1>5, <1>6, <1>7, <1>8, <1>9, <1>10, <1>11 DEF Next, WorkerStep

LEMMA SettledInvariant == Spec => [](IInv /\ Settled)
<1>1. Init => Settled
  BY DEF Init, Settled, OneRunning, QueuedOnce, RunIsQueued, FoundIsOwn, Unopened, At, Idle
<1>2. IInv /\ Settled /\ [Next]_vars => (IInv /\ Settled)'
  BY StepInvariant, StepSettled
<1> QED
  BY InitInvariant, <1>1, <1>2, PTL DEF Spec

\* A request is told of an order of its own intent, and an interrupted one was never
\* sent, at whatever step an earlier call died (_resolve_from_ledger).
THEOREM RequestsAreToldTheTruth == Spec => []ReportsItsOrder
<1>1. IInv /\ Settled => ReportsItsOrder
  <2> SUFFICES ASSUME IInv, Settled, NEW r \in Requests
               PROVE  /\ OwnSignal(r) => \A o \in req[r].order : Intent(o) = Intent(r)
                      /\ req[r].state = "interrupted" /\ overlaps = 0 => sent[r] = 0
    BY DEF ReportsItsOrder
  <2>1. req[r].order \subseteq Requests
    BY DEF IInv, TypeOK
  <2>2. OwnSignal(r) => \A o \in req[r].order : Intent(o) = Intent(r)
    BY <2>1 DEF Settled, FoundIsOwn, OwnSignal
  <2>3. req[r].state = "interrupted" /\ overlaps = 0 => sent[r] = 0
    <3>1. sent[r] \in Nat /\ (sent[r] > 0 => ord[r] \in Reached)
      BY DEF IInv, TypeOK, SentOnce
    <3>2. "none" \notin Reached
      BY DEF Reached
    <3> QED
      BY <3>1, <3>2 DEF Settled, Unopened
  <2> QED
    BY <2>2, <2>3
<1> QED
  BY <1>1, SettledInvariant, PTL

\* Until calls overlap, a settled request is not settled again (_execute, recover).
THEOREM SettledRequestsStay == Spec => SettledStays
<1>1. ASSUME IInv, Settled, [Next]_vars, NEW r \in Requests,
             req[r].state \in {"executed", "interrupted"}, overlaps' = 0
      PROVE  req'[r] = req[r]
  <2>1. \A w \in Workers : worker[w].pc # "idle" /\ overlaps = 0
                             => Current(w) # r /\ Current(w) \in Requests
    BY <1>1, CurrentIsRequest DEF IInv, Settled, RunIsQueued, IsQueued, At
  <2>2. CASE \E s \in Requests : Submit(s)
    BY <1>1, <2>2 DEF Submit, IInv, TypeOK
  <2>3. CASE \E w \in Workers : ExecuteRefused(w) \/ Report(w) \/ SettleFromLedger(w)
    <3>1. PICK w \in Workers : ExecuteRefused(w) \/ Report(w) \/ SettleFromLedger(w)
      BY <2>3
    <3>2. /\ worker[w].pc # "idle" /\ overlaps' = overlaps
          /\ \E c : req' = [req EXCEPT ![Current(w)] = c]
      BY <3>1 DEF ExecuteRefused, Report, SettleFromLedger, At
    <3> QED
      BY <1>1, <2>1, <3>2 DEF IInv, TypeOK
  <2>4. CASE ~(\E s \in Requests : Submit(s))
             /\ ~(\E w \in Workers : ExecuteRefused(w) \/ Report(w) \/ SettleFromLedger(w))
    <3>1. UNCHANGED req
      BY <1>1, <2>4 DEF Next, WorkerStep, vars, disk, Cancel, Drain, Recover, ExecuteSkips,
         ExecuteStarts, ClaimGranted, ClaimConflict, ClaimDuplicate, OpenCanonical, RiskDecides,
         SubmitCanonical, Send, VenueAnswers, VenueRaises, Raises, ReadLedger, Crash
    <3> QED
      BY <3>1
  <2> QED
    BY <2>2, <2>3, <2>4
<1>2. IInv /\ Settled /\ [Next]_vars
        => [\A r \in Requests : req[r].state \in {"executed", "interrupted"} /\ overlaps' = 0
                                  => req'[r] = req[r]]_vars
  BY <1>1
<1> QED
  BY <1>2, SettledInvariant, PTL DEF Spec, SettledStays

-----------------------------------------------------------------------------
(* The daily limit *)

\* Workers whose order is approved and not yet submitted, or submitted and not yet
\* counted.
Approved == {w \in Workers : At(w, "submit")}
Uncounted == {w \in Workers : worker[w].pc \in {"venue", "answer"}}

\* What concurrent calls may overshoot the limit by.
Overshoot == IF overlaps > 0 THEN Cardinality(Workers) - 1 ELSE 0

\* The orders that reached the venue's side of the ledger, without those whose call
\* raised before it counted them.
Noticed == SubmittedOrders \ missed

\* Such an order was submitted, and its worker has left it.
MissedWereSubmitted ==
    /\ missed \subseteq SubmittedOrders
    /\ \A w \in Uncounted : Current(w) \notin missed

\* The counter misses no more than the orders of the workers at the venue, and what is
\* submitted or about to be stays within the limit.
Counted ==
    /\ \A w \in Approved \cup Uncounted : counts # Unseeded
    /\ counts # Unseeded => Cardinality(Noticed) <= counts + Cardinality(Uncounted)
    /\ Cardinality(Noticed) + Cardinality(Approved) <= Limit + Overshoot

LEMMA Sizes ==
    ASSUME TypeOK
    PROVE  /\ IsFiniteSet(Noticed) /\ Cardinality(Noticed) \in Nat
           /\ IsFiniteSet(SubmittedOrders)
           /\ Cardinality(Noticed) <= Cardinality(SubmittedOrders)
           /\ Cardinality(SubmittedOrders) \in Nat
           /\ IsFiniteSet(Approved) /\ Cardinality(Approved) \in Nat
           /\ IsFiniteSet(Uncounted) /\ Cardinality(Uncounted) \in Nat
           /\ Cardinality(Workers) \in Nat /\ (Workers # {} => Cardinality(Workers) >= 1)
           /\ overlaps \in Nat /\ Limit \in Nat
<1>1. IsFiniteSet(SubmittedOrders) /\ IsFiniteSet(Approved) /\ IsFiniteSet(Uncounted)
  BY RequestsAssumption, WorkersAssumption, FS_Subset DEF SubmittedOrders, Approved, Uncounted
<1>3. IsFiniteSet(Noticed) /\ Cardinality(Noticed) <= Cardinality(SubmittedOrders)
  BY <1>1, FS_Subset DEF Noticed
<1>2. Cardinality(Workers) \in Nat /\ (Workers # {} => Cardinality(Workers) # 0)
  BY WorkersAssumption, FS_CardinalityType, FS_EmptySet
<1> QED
  BY <1>1, <1>2, <1>3, FS_CardinalityType, LimitAssumption DEF TypeOK

\* The workers beside one that decides are no more than the overshoot.
LEMMA OthersOvershoot ==
    ASSUME TypeOK, OneRunning, NEW w \in Workers, ~At(w, "idle"), w \notin Approved \cup Uncounted
    PROVE  Cardinality(Approved) + Cardinality(Uncounted) <= Overshoot
<1>1. CASE overlaps = 0
  <2>1. Approved = {} /\ Uncounted = {}
    BY <1>1 DEF OneRunning, Approved, Uncounted, At
  <2> QED
    BY <1>1, <2>1, FS_EmptySet DEF Overshoot
<1>2. CASE overlaps # 0
  <2>1. /\ Approved \cup Uncounted \in SUBSET (Workers \ {w}) /\ Approved \cap Uncounted = {}
    BY DEF Approved, Uncounted, At
  <2>2. /\ IsFiniteSet(Workers \ {w})
        /\ Cardinality(Workers \ {w}) = Cardinality(Workers) - 1
    BY WorkersAssumption, FS_RemoveElement
  <2>3. Cardinality(Approved \cup Uncounted) = Cardinality(Approved) + Cardinality(Uncounted)
    <3>1. Cardinality(Approved \cap Uncounted) = 0
      BY <2>1, FS_EmptySet
    <3>2. Cardinality(Approved \cup Uncounted)
            = Cardinality(Approved) + Cardinality(Uncounted) - Cardinality(Approved \cap Uncounted)
      BY Sizes, FS_Union
    <3> QED
      BY <3>1, <3>2, Sizes
  <2>4. Cardinality(Approved \cup Uncounted) <= Cardinality(Workers) - 1
    BY <2>1, <2>2, FS_Subset
  <2> QED
    BY <1>2, <2>3, <2>4, Sizes DEF Overshoot
<1> QED
  BY <1>1, <1>2

\* A step that moves no order across the limit and no worker to or from the venue.
LEMMA CountsStay ==
    ASSUME IInv, Counted, Workers # {},
           UNCHANGED <<Noticed, Approved, Uncounted, counts>>,
           overlaps' \in Nat, overlaps' >= overlaps
    PROVE  Counted'
<1>1. Overshoot' >= Overshoot
  BY Sizes DEF Overshoot, IInv
<1>2. Overshoot' \in Int /\ Overshoot \in Int
  BY Sizes DEF Overshoot, IInv
<1> QED
  BY <1>1, <1>2, Sizes DEF Counted, IInv

\* A worker that moves between steps short of the risk decision or past the answer.
LEMMA CountsStayBeside ==
    ASSUME IInv, Counted, NEW w \in Workers,
           worker[w].pc \notin {"submit", "venue", "answer"},
           NEW next, worker' = [worker EXCEPT ![w] = next],
           next.pc \notin {"submit", "venue", "answer"},
           UNCHANGED <<Noticed, counts>>, overlaps' \in Nat, overlaps' >= overlaps
    PROVE  Counted'
<1>1. Approved' = Approved /\ Uncounted' = Uncounted
  BY DEF IInv, TypeOK, Approved, Uncounted, At
<1> QED
  BY <1>1, CountsStay

\* The queue only grows.
LEMMA QueueStays ==
    ASSUME IInv, [Next]_vars
    PROVE  \A i \in DOMAIN queue : queue'[i] = queue[i]
<1>1. CASE \E r \in Requests : Submit(r)
  <2>1. PICK r \in Requests : queue' = Append(queue, r)
    BY <1>1 DEF Submit
  <2>2. queue \in Seq(Requests)
    BY DEF IInv, TypeOK
  <2> QED
    BY <2>1, <2>2, AppendProperties, LenProperties
<1>2. CASE ~(\E r \in Requests : Submit(r))
  <2>1. UNCHANGED queue
    BY <1>2 DEF Next, WorkerStep, vars, disk, Crash, Cancel, Drain, Recover, Raises, VenueRaises,
         ExecuteSkips, ExecuteRefused, ExecuteStarts, ClaimGranted, ClaimConflict, ClaimDuplicate,
         OpenCanonical, RiskDecides, SubmitCanonical, Send, VenueAnswers, Report, ReadLedger,
         SettleFromLedger
  <2> QED
    BY <2>1
<1> QED
  BY <1>1, <1>2

\* A worker comes to the venue's steps by its own submission or sending.
LEMMA OnlyWorkerMoves ==
    ASSUME IInv, [Next]_vars, NEW w \in Workers, worker'[w] # worker[w],
           worker'[w].pc \in {"venue", "answer"}
    PROVE  SubmitCanonical(w) \/ Send(w)
<1>1. worker \in [Workers -> Threads]
  BY DEF IInv, TypeOK
<1>2. ASSUME NEW v \in Workers, NEW next, worker' = [worker EXCEPT ![v] = next],
             next.pc \notin {"venue", "answer"}
      PROVE  FALSE
  BY <1>1, <1>2
<1>3. ASSUME NEW v \in Workers, NEW pc, pc \notin {"venue", "answer"},
             worker' = [worker EXCEPT ![v] = [worker[v] EXCEPT !.pc = pc]]
      PROVE  FALSE
  BY <1>1, <1>3, <1>2 DEF Threads
<1>4. ASSUME NEW v \in Workers, NEW pc, NEW found, pc \notin {"venue", "answer"},
             worker' = [worker EXCEPT ![v].pc = pc, ![v].found = found]
      PROVE  FALSE
  BY <1>1, <1>4 DEF Threads
<1>5. ASSUME NEW v \in Workers, NEW entries, NEW recover \in BOOLEAN, Visit(v, entries, recover)
      PROVE  FALSE
  BY <1>2, <1>5, VisitGoesOn DEF IInv, Idle
<1>6. ASSUME NEW v \in Workers,
             \/ ClaimConflict(v) \/ Raises(v) \/ VenueRaises(v)
      PROVE  FALSE
  BY <1>2, <1>6 DEF ClaimConflict, Raises, VenueRaises, Idle
<1>7. ASSUME NEW v \in Workers, ExecuteStarts(v) \/ ClaimGranted(v) \/ OpenCanonical(v)
      PROVE  FALSE
  BY <1>3, <1>7 DEF ExecuteStarts, ClaimGranted, OpenCanonical, Goto
<1>8. ASSUME NEW v \in Workers, ClaimDuplicate(v) PROVE FALSE
  <2>1. PICK pc \in {"report", "ledger"} : \E found :
            worker' = [worker EXCEPT ![v].pc = pc, ![v].found = found]
    BY <1>8 DEF ClaimDuplicate
  <2> QED
    BY <1>4, <2>1
<1>9. ASSUME NEW v \in Workers, RiskDecides(v) \/ VenueAnswers(v) \/ ReadLedger(v) PROVE FALSE
  <2>1. \/ worker' = [worker EXCEPT ![v] = [worker[v] EXCEPT !.pc = "submit"]]
        \/ \E pc \in {"report", "settle"} : \E found :
             worker' = [worker EXCEPT ![v].pc = pc, ![v].found = found]
    BY <1>9 DEF RiskDecides, VenueAnswers, ReadLedger, Goto
  <2> QED
    BY <1>3, <1>4, <2>1
<1>10. ASSUME NEW v \in Workers,
              \/ Drain(v) \/ Recover(v) \/ ExecuteSkips(v) \/ ExecuteRefused(v) \/ Report(v)
              \/ SettleFromLedger(v)
       PROVE  FALSE
  <2>1. worker[v].recover \in BOOLEAN
    BY <1>1 DEF Threads
  <2> QED
    BY <1>5, <1>10, <2>1 DEF Drain, Recover, ExecuteSkips, ExecuteRefused, Report,
                             SettleFromLedger, NextEntry
<1>11. ASSUME NEW v \in Workers, SubmitCanonical(v) \/ Send(v)
       PROVE  SubmitCanonical(w) \/ Send(w)
  <2>1. \E next : worker' = [worker EXCEPT ![v] = next]
    BY <1>11 DEF SubmitCanonical, Send, Goto
  <2>2. v = w
    BY <1>1, <2>1
  <2> QED
    BY <1>11, <2>2
<1>12. CASE Crash \/ UNCHANGED vars \/ \E r \in Requests : Submit(r) \/ Cancel(r)
  BY <1>12 DEF Crash, Idle, vars, Submit, Cancel
<1> QED
  BY <1>6, <1>7, <1>8, <1>9, <1>10, <1>11, <1>12 DEF Next, WorkerStep

\* An order that was submitted stays submitted or goes further.
LEMMA ReachedStays ==
    ASSUME IInv, [Next]_vars
    PROVE  SubmittedOrders \subseteq SubmittedOrders'
<1>1. /\ worker \in [Workers -> Threads] /\ ord \in [Requests -> Statuses]
      /\ \A w \in Workers : worker[w].pc # "idle" => Current(w) \in Requests
  BY CurrentIsRequest DEF IInv, TypeOK
<1>2. CASE UNCHANGED ord
  BY <1>2 DEF SubmittedOrders
<1>3. ASSUME NEW r \in Requests, NEW st, ord' = [ord EXCEPT ![r] = st],
             ord[r] \notin Reached \/ st \in Reached
      PROVE  SubmittedOrders \subseteq SubmittedOrders'
  BY <1>1, <1>3 DEF SubmittedOrders
<1>4. CASE \E r \in Requests : Cancel(r)
  BY <1>3, <1>4 DEF Cancel, Reached
<1>5. ASSUME NEW w \in Workers,
             \/ OpenCanonical(w) \/ RiskDecides(w) \/ SubmitCanonical(w)
             \/ VenueAnswers(w) \/ VenueRaises(w)
      PROVE  SubmittedOrders \subseteq SubmittedOrders'
  <2>1. worker[w].pc # "idle" /\ Current(w) \in Requests
    BY <1>1, <1>5 DEF OpenCanonical, RiskDecides, SubmitCanonical, VenueAnswers, VenueRaises, At
  <2>2. CASE OpenCanonical(w) \/ RiskDecides(w)
    <3>1. ord[Current(w)] \notin Reached
      BY <2>2 DEF OpenCanonical, RiskDecides, At, IInv, OrderFollowsWorker, Reached
    <3>2. \E st : ord' = [ord EXCEPT ![Current(w)] = st]
      BY <2>2 DEF OpenCanonical, RiskDecides
    <3> QED
      BY <1>3, <2>1, <3>1, <3>2
  <2>3. CASE SubmitCanonical(w) \/ VenueAnswers(w) \/ VenueRaises(w)
    <3>1. \E st \in Reached : ord' = [ord EXCEPT ![Current(w)] = st]
      BY <2>3 DEF SubmitCanonical, VenueAnswers, VenueRaises, Reached
    <3> QED
      BY <1>3, <2>1, <3>1
  <2> QED
    BY <1>5, <2>2, <2>3
<1>6. CASE \/ UNCHANGED vars \/ Crash \/ \E r \in Requests : Submit(r)
           \/ \E w \in Workers :
                \/ Drain(w) \/ Recover(w) \/ Raises(w) \/ ExecuteSkips(w) \/ ExecuteRefused(w)
                \/ ExecuteStarts(w) \/ ClaimGranted(w) \/ ClaimConflict(w) \/ ClaimDuplicate(w)
                \/ Send(w) \/ Report(w) \/ ReadLedger(w) \/ SettleFromLedger(w)
  <2>1. UNCHANGED ord
    BY <1>6 DEF vars, disk, Crash, Submit, Drain, Recover, Raises, ExecuteSkips, ExecuteRefused,
                ExecuteStarts, ClaimGranted, ClaimConflict, ClaimDuplicate, Send, Report,
                ReadLedger, SettleFromLedger
  <2> QED
    BY <1>2, <2>1
<1> QED
  BY <1>4, <1>5, <1>6 DEF Next, WorkerStep

\* Only a call that raises after its order was submitted leaves the order uncounted.
LEMMA StepMissed == ASSUME IInv, MissedWereSubmitted, [Next]_vars PROVE MissedWereSubmitted'
<1>1. /\ worker \in [Workers -> Threads] /\ ord \in [Requests -> Statuses]
      /\ \A w \in Workers : worker[w].pc # "idle" => /\ Current(w) \in Requests
                                                     /\ worker[w].at \in DOMAIN queue
  BY CurrentIsRequest DEF IInv, TypeOK, AtEntries
<1>2. SubmittedOrders \subseteq SubmittedOrders'
  BY ReachedStays
<1>3. ASSUME NEW w \in Workers, Raises(w) \/ VenueRaises(w)
      PROVE  MissedWereSubmitted'
  <2>1. /\ worker' = [worker EXCEPT ![w] = Idle] /\ UNCHANGED queue
        /\ \/ missed' = missed
           \/ missed' = missed \cup {Current(w)} /\ w \in Uncounted
    BY <1>3 DEF Raises, VenueRaises, At, disk, Uncounted
  <2>2. w \in Uncounted => Current(w) \in SubmittedOrders
    BY <1>1 DEF Uncounted, IInv, OrderFollowsWorker, SubmittedOrders, Reached
  <2>3. ASSUME NEW v \in Workers, v \in Uncounted'
        PROVE  /\ v # w /\ v \in Uncounted /\ Current(v)' = Current(v)
               /\ w \in Uncounted => Current(v) # Current(w)
    BY <1>1, <2>1, <2>3 DEF Uncounted, Idle, Current, IInv, OneInFlight, InFlight
  <2>4. missed' \subseteq SubmittedOrders'
    BY <1>2, <2>1, <2>2 DEF MissedWereSubmitted
  <2>5. ASSUME NEW v \in Workers, v \in Uncounted' PROVE Current(v)' \notin missed'
    <3>1. /\ Current(v)' = Current(v) /\ Current(v) \notin missed
          /\ w \in Uncounted => Current(v) # Current(w)
      BY <2>3, <2>5 DEF MissedWereSubmitted
    <3> QED
      BY <2>1, <3>1
  <2> QED
    BY <2>4, <2>5 DEF MissedWereSubmitted, Uncounted
<1>4. CASE ~(\E w \in Workers : Raises(w) \/ VenueRaises(w))
  <2>1. missed' = missed
    BY <1>4 DEF Next, WorkerStep, vars, failed, Crash, Submit, Cancel, Drain, Recover,
         ExecuteSkips, ExecuteRefused, ExecuteStarts, ClaimGranted, ClaimConflict, ClaimDuplicate,
         OpenCanonical, RiskDecides, SubmitCanonical, Send, VenueAnswers, Report, ReadLedger,
         SettleFromLedger
  <2>2. ASSUME NEW w \in Workers, w \in Uncounted'
        PROVE  /\ Current(w)' = Current(w)
               /\ w \in Uncounted \/ ord[Current(w)] = "approved"
    <3>1. CASE worker'[w] = worker[w]
      <4>1. w \in Uncounted /\ worker[w].at \in DOMAIN queue
        BY <1>1, <2>2, <3>1 DEF Uncounted
      <4>2. \A i \in DOMAIN queue : queue'[i] = queue[i]
        BY QueueStays
      <4> QED
        BY <3>1, <4>1, <4>2 DEF Current
    <3>2. CASE worker'[w] # worker[w]
      <4>1. SubmitCanonical(w) \/ Send(w)
        BY <2>2, <3>2, OnlyWorkerMoves DEF Uncounted
      <4>2. /\ UNCHANGED queue /\ worker[w].pc \in {"submit", "venue"}
            /\ \E pc : worker' = [worker EXCEPT ![w] = [worker[w] EXCEPT !.pc = pc]]
        BY <4>1 DEF SubmitCanonical, Send, Goto, At, disk
      <4>3. Current(w)' = Current(w)
        BY <1>1, <4>2 DEF Current, Threads
      <4> QED
        BY <4>2, <4>3 DEF IInv, OrderFollowsWorker, Uncounted
    <3> QED
      BY <3>1, <3>2
  <2>3. \A r \in missed : ord[r] # "approved"
    BY DEF MissedWereSubmitted, SubmittedOrders, Reached
  <2>4. \A w \in Uncounted' : w \in Workers
    BY DEF Uncounted
  <2> QED
    BY <1>2, <2>1, <2>2, <2>3, <2>4 DEF MissedWereSubmitted
<1> QED
  BY <1>3, <1>4

\* Every step of every worker keeps the count, as does the death of the process.
LEMMA StepCounted ==
    ASSUME IInv, OneRunning, MissedWereSubmitted, Counted, [Next]_vars PROVE Counted'
<1>1. /\ worker \in [Workers -> Threads] /\ ord \in [Requests -> Statuses]
      /\ overlaps \in Nat /\ counts \in Nat \cup {Unseeded}
  BY DEF IInv, TypeOK
<1>2. ASSUME NEW w \in Workers, worker[w].pc # "idle" PROVE Current(w) \in Requests
  BY <1>2, CurrentIsRequest DEF IInv
<1>3. CASE (\E r \in Requests : Submit(r)) \/ UNCHANGED vars
  <2>1. UNCHANGED <<ord, worker, counts, overlaps, missed>>
    BY <1>3 DEF Submit, vars, failed
  <2> QED
    BY <2>1 DEF Counted, Noticed, SubmittedOrders, Approved, Uncounted, Overshoot, At
<1>4. ASSUME NEW r \in Requests, Cancel(r) PROVE Counted'
  <2>1. /\ ord[r] = "working" /\ ord' = [ord EXCEPT ![r] = "cancelled"]
        /\ UNCHANGED <<worker, counts, overlaps, missed>>
    BY <1>4 DEF Cancel, failed
  <2>2. SubmittedOrders' = SubmittedOrders
    BY <1>1, <2>1 DEF SubmittedOrders, Reached
  <2> QED
    BY <2>1, <2>2 DEF Counted, Noticed, Approved, Uncounted, Overshoot, At
<1>5. ASSUME NEW w \in Workers, NEW entries, NEW recover \in BOOLEAN,
             Visit(w, entries, recover), worker[w].pc \notin {"submit", "venue", "answer"},
             UNCHANGED <<ord, counts, missed>>, overlaps' \in Nat, overlaps' >= overlaps
      PROVE  Counted'
  <2>1. PICK next : /\ worker' = [worker EXCEPT ![w] = next]
                    /\ next = Idle \/ next.pc \in {"check", "ledger"}
    BY <1>5, VisitGoesOn DEF IInv
  <2>2. next.pc \notin {"submit", "venue", "answer"}
    BY <2>1 DEF Idle
  <2>3. UNCHANGED <<Noticed, counts>>
    BY <1>5 DEF Noticed, SubmittedOrders
  <2> QED
    BY <1>5, <2>1, <2>2, <2>3, CountsStayBeside
<1>6. ASSUME NEW w \in Workers, Drain(w) \/ Recover(w) PROVE Counted'
  <2>1. /\ \E recover \in BOOLEAN : Visit(w, Pending, recover)
        /\ worker[w].pc = "idle" /\ UNCHANGED <<ord, counts, missed>> /\ Starts(w)
    BY <1>6 DEF Drain, Recover, disk, At, failed
  <2>2. overlaps' \in Nat /\ overlaps' >= overlaps
    BY <1>1, <2>1 DEF Starts
  <2> QED
    BY <1>5, <2>1, <2>2
<1>7. ASSUME NEW w \in Workers,
             ExecuteSkips(w) \/ ExecuteRefused(w) \/ Report(w) \/ SettleFromLedger(w)
      PROVE  Counted'
  <2>1. /\ Visit(w, worker[w].todo, worker[w].recover) /\ worker[w].recover \in BOOLEAN
        /\ worker[w].pc \in {"check", "report", "settle"}
        /\ UNCHANGED <<ord, counts, overlaps, missed>>
    BY <1>1, <1>7 DEF ExecuteSkips, ExecuteRefused, Report, SettleFromLedger, NextEntry, At, disk,
                      Threads, failed
  <2> QED
    BY <1>1, <1>5, <2>1
<1>8. ASSUME NEW w \in Workers,
             \/ ExecuteStarts(w) \/ ClaimGranted(w) \/ ClaimConflict(w) \/ ClaimDuplicate(w)
             \/ OpenCanonical(w) \/ ReadLedger(w)
      PROVE  Counted'
  <2>1. worker[w].pc \in {"check", "claim", "open", "ledger"} /\ UNCHANGED <<counts, overlaps, missed>>
    BY <1>8 DEF ExecuteStarts, ClaimGranted, ClaimConflict, ClaimDuplicate, OpenCanonical,
                ReadLedger, At, disk, failed
  <2>2. SubmittedOrders' = SubmittedOrders
    <3>1. CASE OpenCanonical(w)
      <4>1. ord[Current(w)] = "none" /\ ord' = [ord EXCEPT ![Current(w)] = "created"]
        BY <3>1 DEF OpenCanonical, At, IInv, OrderFollowsWorker
      <4> QED
        BY <1>1, <4>1 DEF SubmittedOrders, Reached
    <3>2. CASE ~OpenCanonical(w)
      BY <1>8, <3>2 DEF ExecuteStarts, ClaimGranted, ClaimConflict, ClaimDuplicate,
                        ReadLedger, disk, SubmittedOrders
    <3> QED
      BY <3>1, <3>2
  <2>3. \E next : /\ worker' = [worker EXCEPT ![w] = next]
                  /\ next.pc \notin {"submit", "venue", "answer"}
    <3>1. CASE ClaimConflict(w)
      <4>1. worker' = [worker EXCEPT ![w] = Idle] /\ Idle.pc = "idle"
        BY <3>1 DEF ClaimConflict, Idle
      <4> QED
        BY <4>1
    <3>2. CASE ClaimDuplicate(w)
      <4>1. \E pc \in {"report", "ledger"} : \E found :
              worker' = [worker EXCEPT ![w] = [worker[w] EXCEPT !.pc = pc, !.found = found]]
        BY <1>1, <3>2 DEF ClaimDuplicate
      <4>2. PICK pc \in {"report", "ledger"} : \E found :
              worker' = [worker EXCEPT ![w] = [worker[w] EXCEPT !.pc = pc, !.found = found]]
        BY <4>1
      <4>3. PICK found :
              worker' = [worker EXCEPT ![w] = [worker[w] EXCEPT !.pc = pc, !.found = found]]
        BY <4>2
      <4>4. [worker[w] EXCEPT !.pc = pc, !.found = found].pc = pc
        BY <1>1 DEF Threads
      <4> QED
        BY <4>3, <4>4
    <3>3. CASE ReadLedger(w)
      <4>1. \E found : worker' = [worker EXCEPT ![w] =
                                    [worker[w] EXCEPT !.pc = "settle", !.found = found]]
        BY <1>1, <3>3 DEF ReadLedger
      <4>2. PICK found : worker' = [worker EXCEPT ![w] =
                                     [worker[w] EXCEPT !.pc = "settle", !.found = found]]
        BY <4>1
      <4>3. [worker[w] EXCEPT !.pc = "settle", !.found = found].pc = "settle"
        BY <1>1 DEF Threads
      <4> QED
        BY <4>2, <4>3
    <3>4. CASE ExecuteStarts(w) \/ ClaimGranted(w) \/ OpenCanonical(w)
      <4>1. \E pc \in {"claim", "open", "risk"} :
              worker' = [worker EXCEPT ![w] = [worker[w] EXCEPT !.pc = pc]]
        BY <3>4 DEF ExecuteStarts, ClaimGranted, OpenCanonical, Goto
      <4>2. \A pc \in {"claim", "open", "risk"} : [worker[w] EXCEPT !.pc = pc].pc = pc
        BY <1>1 DEF Threads
      <4> QED
        BY <4>1, <4>2
    <3> QED
      BY <1>8, <3>1, <3>2, <3>3, <3>4
  <2>4. PICK next : /\ worker' = [worker EXCEPT ![w] = next]
                    /\ next.pc \notin {"submit", "venue", "answer"}
    BY <2>3
  <2>5. worker[w].pc \notin {"submit", "venue", "answer"} /\ overlaps' \in Nat /\ overlaps' >= overlaps
    BY <1>1, <2>1
  <2> QED
    BY <2>1, <2>2, <2>4, <2>5, CountsStayBeside DEF Noticed
<1>9. ASSUME NEW w \in Workers, RiskDecides(w) PROVE Counted'
  <2>1. /\ worker[w].pc = "risk" /\ counts' = SymbolOrdersToday
        /\ UNCHANGED <<overlaps, missed>>
        /\ Current(w) \in Requests /\ ord[Current(w)] = "created"
    BY <1>2, <1>9 DEF RiskDecides, At, IInv, OrderFollowsWorker, failed
  <2>2. \E st \in {"approved", "risk_rejected"} : ord' = [ord EXCEPT ![Current(w)] = st]
    BY <1>9 DEF RiskDecides
  <2>3. Noticed' = Noticed
    BY <1>1, <2>1, <2>2 DEF Noticed, SubmittedOrders, Reached
  <2>4. SymbolOrdersToday \in Nat /\ SymbolOrdersToday # Unseeded
    BY CountIsNatural DEF IInv, Unseeded
  <2>5. Cardinality(Noticed) <= SymbolOrdersToday + Cardinality(Uncounted)
    BY Sizes DEF SymbolOrdersToday, Counted, IInv
  <2>6. CASE SymbolOrdersToday < Limit
    <3>1. worker' = [worker EXCEPT ![w] = [worker[w] EXCEPT !.pc = "submit"]]
      BY <1>9, <2>6 DEF RiskDecides, Goto
    <3>2. Approved' = Approved \cup {w} /\ Uncounted' = Uncounted /\ w \notin Approved \cup Uncounted
      BY <1>1, <2>1, <3>1 DEF Approved, Uncounted, At, Threads
    <3>3. Cardinality(Approved') = Cardinality(Approved) + 1
      BY <3>2, Sizes, FS_AddElement DEF IInv
    <3>4. Cardinality(Approved) + Cardinality(Uncounted) <= Overshoot /\ Overshoot \in Int
      BY <2>1, <3>2, OthersOvershoot, Sizes DEF IInv, At, Overshoot
    <3>5. Overshoot' = Overshoot
      BY <2>1 DEF Overshoot
    <3>6. Cardinality(Noticed) + Cardinality(Approved') <= Limit + Overshoot
      BY <2>4, <2>5, <2>6, <3>3, <3>4, Sizes DEF IInv
    <3> QED
      BY <2>1, <2>3, <2>4, <2>5, <3>2, <3>5, <3>6 DEF Counted
  <2>7. CASE ~(SymbolOrdersToday < Limit)
    <3>1. worker' = [worker EXCEPT ![w] =
                       [worker[w] EXCEPT !.pc = "report", !.found = {Current(w)}]]
      BY <1>1, <1>9, <2>7 DEF RiskDecides
    <3>2. Approved' = Approved /\ Uncounted' = Uncounted
      BY <1>1, <2>1, <3>1 DEF Approved, Uncounted, At, Threads
    <3>3. Overshoot' = Overshoot
      BY <2>1 DEF Overshoot
    <3> QED
      BY <2>1, <2>3, <2>4, <2>5, <3>2, <3>3 DEF Counted
  <2> QED
    BY <2>6, <2>7
<1>10. ASSUME NEW w \in Workers, SubmitCanonical(w) PROVE Counted'
  <2>1. /\ worker[w].pc = "submit" /\ UNCHANGED <<counts, overlaps, missed>>
        /\ worker' = [worker EXCEPT ![w] = [worker[w] EXCEPT !.pc = "venue"]]
        /\ ord' = [ord EXCEPT ![Current(w)] = "submitted"]
        /\ Current(w) \in Requests /\ ord[Current(w)] = "approved"
    BY <1>2, <1>10 DEF SubmitCanonical, At, Goto, IInv, OrderFollowsWorker, failed
  <2>2. Noticed' = Noticed \cup {Current(w)} /\ Current(w) \notin Noticed
    BY <1>1, <2>1 DEF Noticed, SubmittedOrders, Reached, MissedWereSubmitted
  <2>3. /\ w \in Approved /\ Approved' = Approved \ {w}
        /\ w \notin Uncounted /\ Uncounted' = Uncounted \cup {w}
    BY <1>1, <2>1 DEF Approved, Uncounted, At, Threads
  <2>4. /\ Cardinality(Noticed') = Cardinality(Noticed) + 1
        /\ Cardinality(Approved') = Cardinality(Approved) - 1
        /\ Cardinality(Uncounted') = Cardinality(Uncounted) + 1
    BY <2>2, <2>3, Sizes, FS_AddElement, FS_RemoveElement DEF IInv
  <2>5. Overshoot' = Overshoot /\ Overshoot \in Int /\ counts # Unseeded /\ counts \in Nat
    BY <1>1, <2>1, <2>3, Sizes DEF Overshoot, Counted, IInv
  <2> QED
    BY <2>1, <2>4, <2>5, Sizes DEF Counted, IInv
<1>11. ASSUME NEW w \in Workers, Send(w) PROVE Counted'
  <2>1. /\ worker[w].pc = "venue" /\ UNCHANGED <<ord, counts, overlaps, missed>>
        /\ worker' = [worker EXCEPT ![w] = [worker[w] EXCEPT !.pc = "answer"]]
    BY <1>11 DEF Send, At, Goto, disk, failed
  <2>2. Approved' = Approved /\ Uncounted' = Uncounted
    BY <1>1, <2>1 DEF Approved, Uncounted, At, Threads
  <2> QED
    BY <1>1, <2>1, <2>2, CountsStay DEF Noticed, SubmittedOrders
<1>12. ASSUME NEW w \in Workers, VenueAnswers(w) PROVE Counted'
  <2>1. /\ worker[w].pc = "answer" /\ counts' = counts + 1 /\ UNCHANGED <<overlaps, missed>>
        /\ worker' = [worker EXCEPT ![w] =
                        [worker[w] EXCEPT !.pc = "report", !.found = {Current(w)}]]
        /\ \E st \in {"rejected", "filled", "working"} : ord' = [ord EXCEPT ![Current(w)] = st]
        /\ Current(w) \in Requests /\ ord[Current(w)] = "submitted"
    BY <1>1, <1>2, <1>12 DEF VenueAnswers, At, IInv, OrderFollowsWorker, failed
  <2>2. Noticed' = Noticed
    BY <1>1, <2>1 DEF Noticed, SubmittedOrders, Reached
  <2>3. Approved' = Approved /\ w \in Uncounted /\ Uncounted' = Uncounted \ {w}
    BY <1>1, <2>1 DEF Approved, Uncounted, At, Threads
  <2>4. Cardinality(Uncounted') = Cardinality(Uncounted) - 1
    BY <2>3, Sizes, FS_RemoveElement DEF IInv
  <2>5. /\ Overshoot' = Overshoot /\ counts # Unseeded /\ counts \in Nat
    BY <1>1, <2>1, <2>3 DEF Overshoot, Counted
  <2> QED
    BY <2>1, <2>2, <2>3, <2>4, <2>5, Sizes DEF Counted, IInv, Unseeded
<1>13. CASE Crash
  <2>1. /\ \A w \in Workers : worker'[w] = Idle
        /\ counts' = Unseeded /\ UNCHANGED <<ord, overlaps, missed>>
    BY <1>13 DEF Crash, disk, failed
  <2>2. Approved' = {} /\ Uncounted' = {}
    BY <2>1 DEF Approved, Uncounted, At, Idle
  <2>3. Noticed' = Noticed /\ Overshoot' = Overshoot /\ Overshoot \in Int
    BY <2>1, Sizes DEF Noticed, SubmittedOrders, Overshoot, IInv
  <2>4. Cardinality(Approved') = 0
    BY <2>2, FS_EmptySet
  <2> QED
    BY <2>1, <2>2, <2>3, <2>4, Sizes DEF Counted, IInv
<1>14. ASSUME NEW w \in Workers, Raises(w) \/ VenueRaises(w) PROVE Counted'
  <2>1. /\ worker[w].pc # "idle" /\ worker' = [worker EXCEPT ![w] = Idle] /\ Idle.pc = "idle"
        /\ overlaps' = overlaps /\ Overshoot' = Overshoot /\ Overshoot \in Int
        /\ Current(w) \in Requests
    BY <1>2, <1>14, Sizes DEF Raises, VenueRaises, At, Idle, Overshoot, IInv
  <2>2. CASE worker[w].pc \in {"venue", "answer"}
    <3>1. missed' = missed \cup {Current(w)} /\ counts' = counts
      BY <1>14, <2>2 DEF Raises, VenueRaises, At
    <3>2. /\ SubmittedOrders' = SubmittedOrders
          /\ Current(w) \in SubmittedOrders
      <4>1. ord[Current(w)] = "submitted"
        BY <2>2 DEF IInv, OrderFollowsWorker
      <4>2. ord' = ord \/ \E st \in Reached : ord' = [ord EXCEPT ![Current(w)] = st]
        BY <1>14 DEF Raises, VenueRaises, Reached, disk
      <4> QED
        BY <1>1, <2>1, <4>1, <4>2 DEF SubmittedOrders, Reached
    <3>3. /\ Approved' = Approved /\ w \in Uncounted /\ Uncounted' = Uncounted \ {w}
      BY <1>1, <2>1, <2>2 DEF Approved, Uncounted, At
    <3>4. Noticed' = Noticed \ {Current(w)} /\ Current(w) \in Noticed
      BY <3>1, <3>2, <3>3 DEF Noticed, MissedWereSubmitted
    <3>5. /\ Cardinality(Uncounted') = Cardinality(Uncounted) - 1
          /\ Cardinality(Noticed') = Cardinality(Noticed) - 1
      BY <3>3, <3>4, Sizes, FS_RemoveElement DEF IInv
    <3>6. counts # Unseeded /\ counts \in Nat
      BY <1>1, <3>3 DEF Counted
    <3> QED
      BY <2>1, <3>1, <3>3, <3>5, <3>6, Sizes DEF Counted, IInv
  <2>3. CASE worker[w].pc \notin {"venue", "answer"}
    <3>1. /\ UNCHANGED <<missed, ord>>
          /\ \/ counts' = counts
             \/ worker[w].pc = "risk" /\ counts' = SymbolOrdersToday
      BY <1>14, <2>3 DEF Raises, VenueRaises, At, disk
    <3>2. Noticed' = Noticed
      BY <3>1 DEF Noticed, SubmittedOrders
    <3>3. CASE counts' = counts /\ worker[w].pc # "submit"
      <4>1. /\ worker[w].pc \notin {"submit", "venue", "answer"}
            /\ Idle.pc \notin {"submit", "venue", "answer"}
            /\ UNCHANGED <<Noticed, counts>> /\ overlaps' \in Nat /\ overlaps' >= overlaps
        BY <1>1, <2>1, <2>3, <3>2, <3>3
      <4> QED
        BY <2>1, <4>1, CountsStayBeside
    <3>4. CASE counts' = counts /\ worker[w].pc = "submit"
      <4>1. w \in Approved /\ Approved' = Approved \ {w} /\ Uncounted' = Uncounted
        BY <1>1, <2>1, <3>4 DEF Approved, Uncounted, At
      <4>2. Cardinality(Approved') = Cardinality(Approved) - 1
        BY <4>1, Sizes, FS_RemoveElement DEF IInv
      <4> QED
        BY <2>1, <3>2, <3>4, <4>1, <4>2, Sizes DEF Counted, IInv
    <3>5. CASE worker[w].pc = "risk" /\ counts' = SymbolOrdersToday
      <4>1. Approved' = Approved /\ Uncounted' = Uncounted
        BY <1>1, <2>1, <3>5 DEF Approved, Uncounted, At
      <4>2. SymbolOrdersToday \in Nat /\ SymbolOrdersToday # Unseeded
        BY CountIsNatural DEF IInv, Unseeded
      <4>3. Cardinality(Noticed) <= SymbolOrdersToday + Cardinality(Uncounted)
        BY Sizes DEF SymbolOrdersToday, Counted, IInv
      <4> QED
        BY <2>1, <3>2, <3>5, <4>1, <4>2, <4>3 DEF Counted
    <3> QED
      BY <3>1, <3>3, <3>4, <3>5
  <2> QED
    BY <2>2, <2>3
<1> QED
  BY <1>3, <1>4, <1>6, <1>7, <1>8, <1>9, <1>10, <1>11, <1>12, <1>13, <1>14 DEF Next, WorkerStep

\* The session's submissions stay within the limit through restarts, but for orders whose
\* call raised before it counted them, and concurrent calls overshoot it by one order each
\* at most (max_orders_per_symbol_per_day).
THEOREM LimitIsKept == Spec => []WithinDailyLimit
<1>1. Init => Counted /\ MissedWereSubmitted
  <2> SUFFICES ASSUME Init PROVE Counted /\ MissedWereSubmitted
    OBVIOUS
  <2>1. /\ Noticed = {} /\ Approved = {} /\ Uncounted = {} /\ counts = Unseeded
        /\ missed = {}
    BY DEF Init, Noticed, SubmittedOrders, Reached, Approved, Uncounted, At, Idle
  <2>2. Overshoot = 0
    BY DEF Init, Overshoot
  <2> QED
    BY <2>1, <2>2, FS_EmptySet, LimitAssumption DEF Counted, MissedWereSubmitted
<1>2. /\ Counted /\ MissedWereSubmitted /\ IInv /\ Settled /\ [Next]_vars
      => Counted' /\ MissedWereSubmitted'
  BY StepCounted, StepMissed DEF Settled
<1>3. IInv /\ Counted => WithinDailyLimit
  <2> SUFFICES ASSUME IInv, Counted PROVE WithinDailyLimit
    OBVIOUS
  <2>1. Overshoot \in Int
    BY Sizes DEF Overshoot, IInv
  <2>2. Cardinality(Noticed) <= Limit + Overshoot
    BY <2>1, Sizes DEF Counted, IInv
  <2> QED
    BY <2>2 DEF WithinDailyLimit, Overshoot, Noticed
<1> QED
  BY <1>1, <1>2, <1>3, SettledInvariant, PTL DEF Spec

=============================================================================
