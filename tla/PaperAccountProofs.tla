------------------------- MODULE PaperAccountProofs -------------------------
(***************************************************************************)
(* Proofs about PaperAccount for any number of processes, dates, targets   *)
(* and orders.                                                             *)
(***************************************************************************)
EXTENDS PaperAccount, TLAPS

DailyLocked == {"check", "drop", "admit", "stage", "summarise", "freeze", "unstage"}
Trading == {"trade", "venue"}

\* What each process knows at the step it has reached.
LocalInv == \A p \in Procs :
    /\ pc[p] \in Locked => lock = p
    /\ pc[p] \in DailyLocked \cup {"built"} => draft[p] \in Decisions
    /\ pc[p] = "stage" => draft[p] \in Signals
    /\ pc[p] \in Trading => work.job \in Signals
    /\ pc[p] \in Trading \cup {"scan", "recon"} => work.asof \in Dates

TypeInv == TypeOK /\ LocalInv

-----------------------------------------------------------------------------

LEMMA AppendFacts ==
  ASSUME NEW S, NEW s \in Seq(S), NEW r \in S
  PROVE  /\ Append(s, r) \in Seq(S)
         /\ Len(Append(s, r)) = Len(s) + 1
         /\ DOMAIN Append(s, r) = 1..(Len(s) + 1)
         /\ DOMAIN s = 1..Len(s)
         /\ Len(s) \in Nat
         /\ \A i \in DOMAIN s : i \in DOMAIN Append(s, r) /\ Append(s, r)[i] = s[i]
         /\ Append(s, r)[Len(s) + 1] = r
  OBVIOUS

\* A well-typed append extends the journal by one record it may take.
LEMMA JournalGrows ==
  ASSUME TypeOK, NEW status \in Statuses, NEW s \in Decisions, NEW e \in Dates,
         NEW b \in Nat, JournalAppend(status, s, e, b)
  PROVE  \E r \in JournalRecords :
             /\ journal' = Append(journal, r)
             /\ MayAppend(r)
             /\ r.status = status /\ r.signal = s /\ r.exec = e
             /\ journal' \in Seq(JournalRecords)
<1> DEFINE r == [status |-> status, signal |-> s, exec |-> e,
                 before |-> b, after |-> Len(canonical)]
<1>1. Len(canonical) \in Nat
  BY DEF TypeOK
<1>2. r \in JournalRecords
  BY <1>1 DEF JournalRecords
<1>3. journal' = Append(journal, r) /\ MayAppend(r)
  BY DEF JournalAppend
<1>4. journal' \in Seq(JournalRecords)
  BY <1>2, <1>3, AppendFacts DEF TypeOK
<1> QED
  BY <1>2, <1>3, <1>4

\* A well-typed append extends the canonical ledger by a record of the job.
LEMMA CanonicalGrows ==
  ASSUME TypeOK, work.job \in Signals, NEW o \in Nat,
         NEW k \in {"open", "partial", "fill", "reject", "cancel"},
         NEW d \in Dates \cup {NoDate}, CanonicalAppend(o, k, d)
  PROVE  \E c \in CanonicalRecords :
             /\ canonical' = Append(canonical, c)
             /\ c.signal = work.job
             /\ canonical' \in Seq(CanonicalRecords)
<1> DEFINE c == [signal |-> work.job, order |-> o, date |-> d, kind |-> k]
<1>1. c \in CanonicalRecords
  BY DEF CanonicalRecords
<1>2. canonical' = Append(canonical, c)
  BY DEF CanonicalAppend
<1>3. canonical' \in Seq(CanonicalRecords)
  BY <1>1, <1>2, AppendFacts DEF TypeOK
<1> QED
  BY <1>1, <1>2, <1>3

LEMMA SignalsAreDecisions == Signals \subseteq Decisions
  BY DEF Signals

-----------------------------------------------------------------------------
(* Type correctness *)

LEMMA TypeInit == Init => TypeInv
<1> SUFFICES ASSUME Init PROVE TypeInv
  OBVIOUS
<1> USE DEF Init
<1>1. TypeOK
  <2>1. work \in Works
    BY DEF Works, NoWork, NoDate
  <2>2. journal \in Seq(JournalRecords) /\ canonical \in Seq(CanonicalRecords)
    OBVIOUS
  <2> QED
    BY <2>1, <2>2 DEF TypeOK, Steps
<1>2. LocalInv
  BY DEF LocalInv, Locked, DailyLocked, Trading
<1> QED
  BY <1>1, <1>2 DEF TypeInv

\* Leaving the lock.
LEMMA LeaveTyped ==
  ASSUME TypeInv, NEW p \in Procs, Leave(p)
  PROVE  /\ lock' \in Procs \cup {None}
         /\ pc' \in [Procs -> Steps]
         /\ draft' \in [Procs -> Decisions \cup {None}]
         /\ work' \in Works
         /\ LocalInv'
<1>1. NoWork \in Works
  BY DEF Works, NoWork, NoDate
<1>2. lock' \in Procs \cup {None} /\ work' \in Works
  BY <1>1 DEF Leave, TypeInv, TypeOK
<1>3. pc' \in [Procs -> Steps] /\ draft' \in [Procs -> Decisions \cup {None}]
  BY DEF Leave, TypeInv, TypeOK, Steps
<1>4. pc'[p] = "idle"
  BY DEF Leave, TypeInv, TypeOK
<1>5. \A q \in Procs \ {p} : pc'[q] = pc[q] /\ draft'[q] = draft[q]
  BY DEF Leave, TypeInv, TypeOK
<1>6. \A q \in Procs \ {p} : pc[q] \in Locked => lock' = q /\ work' = work
  BY DEF Leave, TypeInv, LocalInv
<1>7. Trading \cup {"scan", "recon"} \subseteq Locked
  BY DEF Trading, Locked, Steps
<1>8. LocalInv'
  <2> SUFFICES ASSUME NEW q \in Procs
               PROVE  /\ pc'[q] \in Locked => lock' = q
                      /\ pc'[q] \in DailyLocked \cup {"built"} => draft'[q] \in Decisions
                      /\ pc'[q] = "stage" => draft'[q] \in Signals
                      /\ pc'[q] \in Trading => work'.job \in Signals
                      /\ pc'[q] \in Trading \cup {"scan", "recon"} => work'.asof \in Dates
    BY DEF LocalInv
  <2>1. CASE q = p
    BY <2>1, <1>4 DEF Locked, DailyLocked, Trading
  <2>2. CASE q # p
    BY <2>2, <1>5, <1>6, <1>7 DEF TypeInv, LocalInv
  <2> QED
    BY <2>1, <2>2
<1> QED
  BY <1>2, <1>3, <1>8

\* A step of one process that keeps the others' view of the world: either it
\* leaves lock and work alone, or nobody else is inside the lock.
LEMMA LocalByStep ==
  ASSUME TypeInv, NEW p \in Procs,
         \A q \in Procs \ {p} : pc'[q] = pc[q] /\ draft'[q] = draft[q],
         (lock' = lock /\ work' = work) \/ lock \in {p, None},
         pc'[p] \in Locked => lock' = p,
         pc'[p] \in DailyLocked \cup {"built"} => draft'[p] \in Decisions,
         pc'[p] = "stage" => draft'[p] \in Signals,
         pc'[p] \in Trading => work'.job \in Signals,
         pc'[p] \in Trading \cup {"scan", "recon"} => work'.asof \in Dates
  PROVE  LocalInv'
<1>1. \A q \in Procs \ {p} : pc[q] \in Locked => lock' = q /\ work' = work
  BY NoneAssumption DEF TypeInv, LocalInv
<1>2. Trading \cup {"scan", "recon"} \subseteq Locked
  BY DEF Trading, Locked, Steps
<1> SUFFICES ASSUME NEW q \in Procs
             PROVE  /\ pc'[q] \in Locked => lock' = q
                    /\ pc'[q] \in DailyLocked \cup {"built"} => draft'[q] \in Decisions
                    /\ pc'[q] = "stage" => draft'[q] \in Signals
                    /\ pc'[q] \in Trading => work'.job \in Signals
                    /\ pc'[q] \in Trading \cup {"scan", "recon"} => work'.asof \in Dates
  BY DEF LocalInv
<1>3. CASE q = p
  BY <1>3
<1>4. CASE q # p
  BY <1>4, <1>1, <1>2 DEF TypeInv, LocalInv
<1> QED
  BY <1>3, <1>4

LEMMA TypeNext == TypeInv /\ [Next]_vars => TypeInv'
<1> SUFFICES ASSUME TypeInv, [Next]_vars PROVE TypeInv'
  OBVIOUS
<1> USE DEF TypeInv
<1>a. NoWork \in Works
  BY DEF Works, NoWork, NoDate
<1>b. ASSUME NEW p \in Procs, pc[p] \in Locked PROVE lock = p
  BY <1>b DEF LocalInv
<1>1. ASSUME NEW p \in Procs, NEW d \in Dates, NEW t \in Targets \cup {NoTarget},
             DailyBuild(p, d, t)
      PROVE  TypeInv'
  <2> DEFINE dec == [date |-> d, target |-> t, base |-> Len(canonical)]
  <2>1. dec \in Decisions
    BY DEF Decisions, TypeOK
  <2>2. TypeOK'
    BY <1>1, <2>1 DEF DailyBuild, Goto, TypeOK, Steps
  <2>3. draft'[p] = dec /\ pc'[p] = "built"
    BY <1>1 DEF DailyBuild, Goto, TypeOK
  <2>4. \A q \in Procs \ {p} : pc'[q] = pc[q] /\ draft'[q] = draft[q]
    BY <1>1 DEF DailyBuild, Goto, TypeOK
  <2>5. LocalInv'
    BY <1>1, <2>1, <2>3, <2>4, LocalByStep DEF DailyBuild, Locked, Steps, Trading
  <2> QED
    BY <2>2, <2>5
<1>2. ASSUME NEW p \in Procs, DailyLock(p) PROVE TypeInv'
  <2>1. TypeOK'
    BY <1>2 DEF DailyLock, Goto, TypeOK, Steps
  <2>2. pc'[p] = "check" /\ \A q \in Procs \ {p} : pc'[q] = pc[q]
    BY <1>2 DEF DailyLock, Goto, TypeOK
  <2>3. draft[p] \in Decisions
    BY <1>2 DEF DailyLock, At, LocalInv, DailyLocked
  <2>4. LocalInv'
    BY <1>2, <2>2, <2>3, LocalByStep DEF DailyLock, Trading
  <2> QED
    BY <2>1, <2>4
<1>3. ASSUME NEW p \in Procs, DailyDropSummary(p) \/ DailyDropPending(p) \/ DailyAdmit(p)
                              \/ DailyStage(p) \/ DailySummarise(p) \/ DailyFreezeFails(p)
      PROVE  TypeInv'
  <2>0. /\ pc[p] \in DailyLocked /\ lock = p
        /\ UNCHANGED <<lock, draft, work, journal, canonical, torn>>
    BY <1>3, <1>b DEF DailyDropSummary, DailyDropPending, DailyAdmit, DailyStage,
       DailySummarise, DailyFreezeFails, At, DailyLocked, Locked, Steps
  <2>1. draft[p] \in Decisions /\ draft[p].date \in Dates
    BY <2>0 DEF LocalInv, Decisions
  <2>2. summary' \in [Dates -> Decisions \cup {None}]
    BY <1>3, <2>1 DEF DailyDropSummary, DailyDropPending, DailyAdmit, DailyStage,
       DailySummarise, DailyFreezeFails, TypeOK
  <2>3. pending' \in [Dates -> Signals \cup {None}]
    BY <1>3, <2>1 DEF DailyDropSummary, DailyDropPending, DailyAdmit, DailyStage,
       DailySummarise, DailyFreezeFails, TypeOK, LocalInv, At
  <2>4. \E st \in DailyLocked : Goto(p, st) /\ (st = "stage" => draft[p].target # NoTarget)
    BY <1>3 DEF DailyDropSummary, DailyDropPending, DailyAdmit, DailyStage,
       DailySummarise, DailyFreezeFails, DailyLocked
  <2>5. pc' \in [Procs -> Steps] /\ pc'[p] \in DailyLocked
        /\ \A q \in Procs \ {p} : pc'[q] = pc[q]
    BY <2>4 DEF Goto, TypeOK, DailyLocked, Steps
  <2>6. pc'[p] = "stage" => draft[p] \in Signals
    BY <2>1, <2>4 DEF Goto, TypeOK, Signals, Decisions
  <2>7. TypeOK'
    BY <2>0, <2>2, <2>3, <2>5 DEF TypeOK
  <2>8. LocalInv'
    BY <2>0, <2>1, <2>5, <2>6, LocalByStep DEF DailyLocked, Trading
  <2> QED
    BY <2>7, <2>8
<1>4. ASSUME NEW p \in Procs, DailyFreeze(p) PROVE TypeInv'
  <2>1. draft[p] \in Decisions /\ draft[p].date \in Dates /\ draft[p].base \in Nat
    BY <1>4 DEF DailyFreeze, At, LocalInv, DailyLocked, Decisions
  <2>2. journal' \in Seq(JournalRecords)
    BY <1>4, <2>1, JournalGrows DEF DailyFreeze, Statuses
  <2> QED
    BY <1>4, <2>2, LeaveTyped DEF DailyFreeze, TypeOK
<1>5. ASSUME NEW p \in Procs, DailyUnstage(p) PROVE TypeInv'
  <2>1. summary' \in [Dates -> Decisions \cup {None}]
    BY <1>5 DEF DailyUnstage, TypeOK
  <2> QED
    BY <1>5, <2>1, LeaveTyped DEF DailyUnstage, TypeOK
<1>6. ASSUME NEW p \in Procs, NEW d \in Dates, NEW S \in SUBSET Dates, ExecLock(p, d, S)
      PROVE  TypeInv'
  <2>1. work' \in Works /\ work'.asof = d
    BY <1>6 DEF ExecLock, Works, NoWork, NoDate
  <2>2. TypeOK'
    BY <1>6, <2>1 DEF ExecLock, Goto, TypeOK, Steps
  <2>3. pc'[p] = "scan" /\ \A q \in Procs \ {p} : pc'[q] = pc[q]
    BY <1>6 DEF ExecLock, Goto, TypeOK
  <2>4. LocalInv'
    BY <1>6, <2>1, <2>3, LocalByStep DEF ExecLock, Trading, DailyLocked
  <2> QED
    BY <2>2, <2>4
<1>7. ASSUME NEW p \in Procs, NEW d \in Dates, ReconLock(p, d) PROVE TypeInv'
  <2>1. work' \in Works /\ work'.asof = d
    BY <1>7 DEF ReconLock, Works, NoWork, NoDate
  <2>2. TypeOK'
    BY <1>7, <2>1 DEF ReconLock, Goto, TypeOK, Steps
  <2>3. pc'[p] = "recon" /\ \A q \in Procs \ {p} : pc'[q] = pc[q]
    BY <1>7 DEF ReconLock, Goto, TypeOK
  <2>4. LocalInv'
    BY <1>7, <2>1, <2>3, LocalByStep DEF ReconLock, Trading, DailyLocked
  <2> QED
    BY <2>2, <2>4
<1>8. ASSUME NEW p \in Procs, NEW d \in Dates, ExecMissed(p, d) PROVE TypeInv'
  <2>1. pending[d] \in Decisions
    BY <1>8, SignalsAreDecisions DEF ExecMissed, Turn, Waiting, TypeOK
  <2>2. Len(canonical) \in Nat
    BY DEF TypeOK
  <2>3. journal' \in Seq(JournalRecords)
    BY <1>8, <2>1, <2>2, JournalGrows DEF ExecMissed, Statuses, Terminals
  <2>4. TypeOK'
    BY <1>8, <2>3 DEF ExecMissed, TypeOK
  <2>5. LocalInv'
    BY <1>8 DEF ExecMissed, LocalInv
  <2> QED
    BY <2>4, <2>5
<1>9. ASSUME NEW p \in Procs, NEW d \in Dates, NEW n \in 0..MaxOrders, ExecStart(p, d, n)
      PROVE  TypeInv'
  <2>0. lock = p /\ work.asof \in Dates
    BY <1>9, <1>b DEF ExecStart, At, Locked, Steps, LocalInv
  <2>1. pending[d] \in Signals
    BY <1>9 DEF ExecStart, Turn, Waiting, TypeOK
  <2>2. Len(canonical) \in Nat /\ n \in Nat
    BY BoundsAssumption DEF TypeOK
  <2>3. journal' \in Seq(JournalRecords)
    BY <1>9, <2>0, <2>1, <2>2, JournalGrows, SignalsAreDecisions DEF ExecStart, Statuses
  <2>4. work' \in Works /\ work'.job \in Signals /\ work'.asof \in Dates
    BY <1>9, <2>0, <2>1, <2>2 DEF ExecStart, Works, TypeOK
  <2>5. TypeOK'
    BY <1>9, <2>3, <2>4 DEF ExecStart, Goto, TypeOK, Steps
  <2>6. pc'[p] = "trade" /\ \A q \in Procs \ {p} : pc'[q] = pc[q]
    BY <1>9 DEF ExecStart, Goto, TypeOK
  <2>7. LocalInv'
    BY <1>9, <2>0, <2>4, <2>6, LocalByStep DEF ExecStart, DailyLocked
  <2> QED
    BY <2>5, <2>7
<1>10. ASSUME NEW p \in Procs,
              ExecOpen(p) \/ ExecRest(p)
              \/ \E kind \in {"fill", "partial", "reject"} : ExecVenue(p, kind)
       PROVE  TypeInv'
  <2>0. /\ pc[p] \in Trading /\ lock = p /\ work.job \in Signals /\ work.asof \in Dates
        /\ work.sent \in Nat /\ work.rejected \in Nat
    BY <1>10, <1>b DEF ExecOpen, ExecRest, ExecVenue, At, Trading, Locked, Steps,
       LocalInv, TypeOK, Works
  <2>1. canonical' \in Seq(CanonicalRecords)
    <3>1. CASE ExecOpen(p)
      <4>1. CanonicalAppend(work.sent + 1, "open", work.asof)
        BY <3>1 DEF ExecOpen
      <4>2. work.sent + 1 \in Nat /\ work.asof \in Dates \cup {NoDate}
        BY <2>0
      <4>3. "open" \in {"open", "partial", "fill", "reject", "cancel"}
        OBVIOUS
      <4> QED
        BY <4>1, <4>2, <4>3, <2>0, CanonicalGrows
    <3>2. CASE ExecRest(p)
      BY <3>2 DEF ExecRest, TypeOK
    <3>3. ASSUME NEW kind \in {"fill", "partial", "reject"}, ExecVenue(p, kind)
          PROVE  canonical' \in Seq(CanonicalRecords)
      <4>1. CanonicalAppend(work.sent, kind, work.asof)
        BY <3>3 DEF ExecVenue
      <4>2. kind \in {"open", "partial", "fill", "reject", "cancel"}
        OBVIOUS
      <4> QED
        BY <4>1, <4>2, <2>0, CanonicalGrows
    <3> QED
      BY <1>10, <3>1, <3>2, <3>3
  <2>2. work' \in Works /\ work'.job = work.job /\ work'.asof = work.asof
    <3>1. CASE ExecOpen(p)
      <4>1. work' = [work EXCEPT !.sent = @ + 1] /\ work \in Works
        BY <3>1 DEF ExecOpen, TypeOK
      <4> QED
        BY <4>1 DEF Works
    <3>2. CASE ExecRest(p)
      BY <3>2 DEF ExecRest, TypeOK
    <3>3. ASSUME NEW kind \in {"fill", "partial", "reject"}, ExecVenue(p, kind)
          PROVE  work' \in Works /\ work'.job = work.job /\ work'.asof = work.asof
      <4>1. work' = [work EXCEPT !.rejected = work.rejected + (IF kind = "reject" THEN 1 ELSE 0)]
        BY <3>3 DEF ExecVenue
      <4>2. work.rejected + (IF kind = "reject" THEN 1 ELSE 0) \in Nat
        BY <2>0
      <4> QED
        BY <4>1, <4>2 DEF Works, TypeOK
    <3> QED
      BY <1>10, <3>1, <3>2, <3>3
  <2>3. \E st \in Trading : Goto(p, st)
    BY <1>10 DEF ExecOpen, ExecRest, ExecVenue, Trading
  <2>4. UNCHANGED <<lock, draft, pending, summary, journal, torn>>
    BY <1>10 DEF ExecOpen, ExecRest, ExecVenue
  <2>5. pc' \in [Procs -> Steps] /\ pc'[p] \in Trading
        /\ \A q \in Procs \ {p} : pc'[q] = pc[q]
    BY <2>3 DEF Goto, TypeOK, Steps, Trading
  <2>6. TypeOK'
    BY <2>1, <2>2, <2>4, <2>5 DEF TypeOK
  <2>7. LocalInv'
    BY <2>0, <2>2, <2>4, <2>5, LocalByStep DEF Trading, DailyLocked
  <2> QED
    BY <2>6, <2>7
<1>11. ASSUME NEW p \in Procs, NEW o \in 1..work.orders, ExecCancel(p, o) PROVE TypeInv'
  <2>1. work.job \in Signals
    BY <1>11 DEF ExecCancel, At, LocalInv, Trading
  <2>2. o \in Nat
    BY DEF TypeOK, Works
  <2>3. canonical' \in Seq(CanonicalRecords)
    BY <1>11, <2>1, <2>2, CanonicalGrows DEF ExecCancel
  <2>4. TypeOK'
    BY <1>11, <2>3 DEF ExecCancel, TypeOK
  <2>5. LocalInv'
    BY <1>11 DEF ExecCancel, LocalInv
  <2> QED
    BY <2>4, <2>5
<1>12. ASSUME NEW p \in Procs, ExecSeal(p) PROVE TypeInv'
  <2>0. lock = p /\ work.job \in Decisions /\ work.asof \in Dates /\ work.before \in Nat
    BY <1>12, <1>b, SignalsAreDecisions
    DEF ExecSeal, At, Locked, Steps, LocalInv, Trading, TypeOK, Works
  <2>1. journal' \in Seq(JournalRecords)
    BY <1>12, <2>0, JournalGrows DEF ExecSeal, Outcome, Statuses, Terminals
  <2>2. work' \in Works /\ work'.asof = work.asof
    BY <1>12, <1>a DEF ExecSeal, Works, NoWork, TypeOK
  <2>3. TypeOK'
    BY <1>12, <2>1, <2>2 DEF ExecSeal, Goto, TypeOK, Steps
  <2>4. pc'[p] = "scan" /\ \A q \in Procs \ {p} : pc'[q] = pc[q]
    BY <1>12 DEF ExecSeal, Goto, TypeOK
  <2>5. LocalInv'
    BY <1>12, <2>0, <2>2, <2>4, LocalByStep DEF ExecSeal, Trading, DailyLocked
  <2> QED
    BY <2>3, <2>5
<1>13. ASSUME NEW p \in Procs, NEW i \in DOMAIN journal, ReconSeal(p, i) \/ ReconClear(p, i)
       PROVE  TypeInv'
  <2>1. journal[i] \in JournalRecords
    BY DEF TypeOK
  <2>2. journal[i].signal \in Decisions /\ journal[i].exec \in Dates /\ journal[i].before \in Nat
    BY <2>1 DEF JournalRecords
  <2>3. Len(canonical) \in Nat
    BY DEF TypeOK
  <2>4. journal' \in Seq(JournalRecords)
    BY <1>13, <2>2, <2>3, JournalGrows DEF ReconSeal, ReconClear, Statuses, Terminals
  <2>5. TypeOK'
    BY <1>13, <2>4 DEF ReconSeal, ReconClear, TypeOK
  <2>6. LocalInv'
    BY <1>13 DEF ReconSeal, ReconClear, LocalInv
  <2> QED
    BY <2>5, <2>6
<1>14. ASSUME NEW p \in Procs, ExecDone(p) \/ ReconDone(p) \/ Refuse(p) \/ Stop(p)
       PROVE  TypeInv'
  BY <1>14, LeaveTyped DEF ExecDone, ReconDone, Refuse, Stop, TypeOK
<1>15. ASSUME NEW p \in Procs, NEW f \in {"journal", "canonical"}, Tear(p, f) PROVE TypeInv'
  BY <1>15, LeaveTyped DEF Tear, TypeOK
<1>16. CASE UNCHANGED vars
  BY <1>16 DEF vars, TypeOK, LocalInv
<1> QED
  BY <1>1, <1>2, <1>3, <1>4, <1>5, <1>6, <1>7, <1>8, <1>9, <1>10, <1>11, <1>12, <1>13,
     <1>14, <1>15, <1>16
  DEF Next, Call, Advance, Fail, DailyStep, ExecStep, ReconStep

\* Every store always holds what its readers expect to parse, and the steps of
\* a process inside the lock are the lock owner's.
THEOREM TypeCorrect == Spec => []TypeOK
<1>1. Spec => []TypeInv
  BY TypeInit, TypeNext, PTL DEF Spec
<1> QED
  BY <1>1, PTL DEF TypeInv

-----------------------------------------------------------------------------
(* Only committed targets trade, and committed evidence is kept *)

FrozenThenStarted(s) == Precedes(s, "daily_decision_frozen", "execution_started")

\* The target being traded was frozen and then started.
JobCommitted == \A p \in Procs : pc[p] \in Trading => FrozenThenStarted(work.job)

\* So was every target the canonical ledger has a record of.
LedgerCommitted == \A k \in DOMAIN canonical : FrozenThenStarted(canonical[k].signal)

\* The journal never holds two decisions for one date.
OneDecision == \A i, j \in DOMAIN journal :
    /\ journal[i].status = "daily_decision_frozen"
    /\ journal[j].status = "daily_decision_frozen"
    /\ journal[i].signal.date = journal[j].signal.date
    => journal[i].signal = journal[j].signal

\* Past its first check, and until it leaves, a daily run works on a date that
\* is not decided: the lock keeps every other run from deciding it.
Staging == DailyLocked \ {"check"}
StagesUndecided == \A p \in Procs : pc[p] \in Staging => ~Decided(draft[p].date)

CommitInv == TypeInv /\ JobCommitted /\ LedgerCommitted /\ OneDecision /\ StagesUndecided

\* All that the steps of process p do to what CommitInv speaks of.
StepShape(p) ==
    /\ \A q \in Procs \ {p} : pc'[q] = pc[q] /\ draft'[q] = draft[q]
    /\ \A q \in Procs \ {p} : pc[q] \in Locked => journal' = journal /\ work' = work
    /\ \/ journal' = journal
       \/ \E r \in JournalRecords : journal' = Append(journal, r) /\ MayAppend(r)
    /\ \/ canonical' = canonical
       \/ /\ pc[p] \in Trading
          /\ \E c \in CanonicalRecords : canonical' = Append(canonical, c) /\ c.signal = work.job
    /\ pc'[p] \in Trading =>
        \/ pc[p] \in Trading /\ work'.job = work.job
        \/ FrozenThenStarted(work.job)'
    /\ pc'[p] \in Staging =>
        journal' = journal /\ draft' = draft /\ ~Decided(draft[p].date)
    /\ \/ pending' = pending /\ summary' = summary
       \/ /\ pc[p] \in DailyLocked /\ ~Decided(draft[p].date)
          /\ \A d \in Dates \ {draft[p].date} : pending'[d] = pending[d] /\ summary'[d] = summary[d]

LEMMA CommitInit == Init => CommitInv
<1> SUFFICES ASSUME Init PROVE CommitInv
  OBVIOUS
<1>1. TypeInv
  BY TypeInit
<1>2. DOMAIN journal = {} /\ DOMAIN canonical = {}
  BY DEF Init
<1>3. \A p \in Procs : pc[p] = "idle"
  BY DEF Init
<1> QED
  BY <1>1, <1>2, <1>3
  DEF CommitInv, JobCommitted, LedgerCommitted, OneDecision, StagesUndecided, Trading,
      Staging, DailyLocked

\* Leaving touches nothing but the leaver and what the lock owner holds.
LEMMA LeaveShape ==
  ASSUME TypeInv, NEW p \in Procs, Leave(p)
  PROVE  /\ pc'[p] = "idle"
         /\ \A q \in Procs \ {p} : pc'[q] = pc[q] /\ draft'[q] = draft[q]
         /\ \A q \in Procs \ {p} : pc[q] \in Locked => lock = q /\ work' = work
<1>1. \A q \in Procs \ {p} : pc[q] \in Locked => lock = q
  BY DEF TypeInv, LocalInv
<1> QED
  BY <1>1 DEF Leave, TypeInv, TypeOK

\* Once frozen and started, a target stays so.
LEMMA PrecedenceKept ==
  ASSUME TypeOK, NEW s, FrozenThenStarted(s),
         \/ journal' = journal
         \/ \E r \in JournalRecords : journal' = Append(journal, r)
  PROVE  Precedes(s, "daily_decision_frozen", "execution_started")'
<1>1. PICK i \in DOMAIN journal, j \in DOMAIN journal :
          /\ i < j
          /\ journal[i].signal = s /\ journal[i].status = "daily_decision_frozen"
          /\ journal[j].signal = s /\ journal[j].status = "execution_started"
  BY DEF FrozenThenStarted, Precedes
<1>2. /\ i \in DOMAIN journal' /\ j \in DOMAIN journal'
      /\ journal'[i] = journal[i] /\ journal'[j] = journal[j]
  BY AppendFacts DEF TypeOK
<1> QED
  BY <1>1, <1>2 DEF Precedes

\* Every step has the shape.
LEMMA StepsHaveShape ==
  ASSUME CommitInv, NEW p \in Procs, Call(p) \/ Advance(p) \/ Fail(p)
  PROVE  StepShape(p)
<1> USE DEF TypeInv, CommitInv
<1>a. ASSUME pc[p] \in Locked \/ lock = None
      PROVE  \A q \in Procs \ {p} : pc[q] \notin Locked
  BY <1>a, NoneAssumption DEF LocalInv
<1>b. Trading \subseteq Locked /\ DailyLocked \subseteq Locked /\ Staging \subseteq DailyLocked
      /\ Trading \cap DailyLocked = {}
  BY DEF Trading, Locked, Steps, DailyLocked, Staging
<1>1. ASSUME NEW d \in Dates, NEW t \in Targets \cup {NoTarget}, DailyBuild(p, d, t)
      PROVE  StepShape(p)
  <2>1. pc'[p] = "built" /\ \A q \in Procs \ {p} : pc'[q] = pc[q] /\ draft'[q] = draft[q]
    BY <1>1 DEF DailyBuild, Goto, TypeOK
  <2> QED
    BY <1>1, <2>1 DEF DailyBuild, StepShape, Trading, Staging, DailyLocked
<1>2. CASE DailyLock(p)
  <2>1. pc'[p] = "check" /\ \A q \in Procs \ {p} : pc'[q] = pc[q]
    BY <1>2 DEF DailyLock, Goto, TypeOK
  <2> QED
    BY <1>2, <2>1 DEF DailyLock, StepShape, Trading, Staging, DailyLocked
<1>3. CASE \/ DailyDropSummary(p) \/ DailyDropPending(p) \/ DailyAdmit(p) \/ DailyStage(p)
           \/ DailySummarise(p) \/ DailyFreezeFails(p)
  <2>1. /\ pc[p] \in DailyLocked
        /\ UNCHANGED <<lock, draft, work, journal, canonical, torn>>
    BY <1>3 DEF DailyDropSummary, DailyDropPending, DailyAdmit, DailyStage,
       DailySummarise, DailyFreezeFails, At, DailyLocked
  <2>2. ~Decided(draft[p].date)
    <3>1. CASE pc[p] = "check"
      BY <1>3, <3>1 DEF DailyDropSummary, DailyDropPending, DailyAdmit, DailyStage,
         DailySummarise, DailyFreezeFails, At
    <3>2. CASE pc[p] # "check"
      BY <2>1, <3>2 DEF StagesUndecided, Staging
    <3> QED
      BY <3>1, <3>2
  <2>3. \E st \in DailyLocked : Goto(p, st)
    BY <1>3 DEF DailyDropSummary, DailyDropPending, DailyAdmit, DailyStage,
       DailySummarise, DailyFreezeFails, DailyLocked
  <2>4. pc'[p] \in DailyLocked /\ \A q \in Procs \ {p} : pc'[q] = pc[q]
    BY <2>3 DEF Goto, TypeOK
  <2>5. \A d \in Dates \ {draft[p].date} : pending'[d] = pending[d] /\ summary'[d] = summary[d]
    BY <1>3 DEF DailyDropSummary, DailyDropPending, DailyAdmit, DailyStage,
       DailySummarise, DailyFreezeFails, TypeOK
  <2> QED
    BY <2>1, <2>2, <2>4, <2>5, <1>b DEF StepShape
<1>4. CASE DailyFreeze(p)
  <2>1. pc[p] \in Locked
    BY <1>4 DEF DailyFreeze, At, Locked, Steps
  <2>2. draft[p] \in Decisions /\ draft[p].date \in Dates /\ draft[p].base \in Nat
    BY <1>4 DEF DailyFreeze, At, LocalInv, DailyLocked, Decisions
  <2>3. \E r \in JournalRecords : journal' = Append(journal, r) /\ MayAppend(r)
    BY <1>4, <2>2, JournalGrows DEF DailyFreeze, Statuses
  <2> QED
    BY <1>4, <1>a, <2>1, <2>3, LeaveShape DEF DailyFreeze, StepShape, Trading, Staging, DailyLocked
<1>5. CASE DailyUnstage(p)
  <2>1. pc[p] \in Staging /\ ~Decided(draft[p].date)
    BY <1>5 DEF DailyUnstage, At, StagesUndecided, Staging, DailyLocked
  <2>2. \A d \in Dates \ {draft[p].date} : pending'[d] = pending[d] /\ summary'[d] = summary[d]
    BY <1>5 DEF DailyUnstage, TypeOK
  <2> QED
    BY <1>5, <1>b, <2>1, <2>2, LeaveShape DEF DailyUnstage, StepShape, Trading, Staging, DailyLocked
<1>6. ASSUME NEW d \in Dates, NEW S \in SUBSET Dates, ExecLock(p, d, S)
      PROVE  StepShape(p)
  <2>1. pc'[p] = "scan" /\ \A q \in Procs \ {p} : pc'[q] = pc[q]
    BY <1>6 DEF ExecLock, Goto, TypeOK
  <2> QED
    BY <1>6, <1>a, <2>1 DEF ExecLock, StepShape, Trading, Staging, DailyLocked
<1>7. ASSUME NEW d \in Dates, ReconLock(p, d) PROVE StepShape(p)
  <2>1. pc'[p] = "recon" /\ \A q \in Procs \ {p} : pc'[q] = pc[q]
    BY <1>7 DEF ReconLock, Goto, TypeOK
  <2> QED
    BY <1>7, <1>a, <2>1 DEF ReconLock, StepShape, Trading, Staging, DailyLocked
<1>8. ASSUME NEW d \in Dates, ExecMissed(p, d) PROVE StepShape(p)
  <2>1. pending[d] \in Decisions /\ Len(canonical) \in Nat
    BY <1>8, SignalsAreDecisions DEF ExecMissed, Turn, Waiting, TypeOK
  <2>2. \E r \in JournalRecords : journal' = Append(journal, r) /\ MayAppend(r)
    BY <1>8, <2>1, JournalGrows DEF ExecMissed, Statuses, Terminals
  <2>3. pc[p] \in Locked /\ pc[p] \notin Trading /\ pc[p] \notin Staging
    BY <1>8 DEF ExecMissed, At, Locked, Steps, Trading, Staging, DailyLocked
  <2> QED
    BY <1>8, <1>a, <2>2, <2>3 DEF ExecMissed, StepShape
<1>9. ASSUME NEW d \in Dates, NEW n \in 0..MaxOrders, ExecStart(p, d, n)
      PROVE  StepShape(p)
  <2>1. pc[p] = "scan" /\ pc[p] \in Locked /\ work.asof \in Dates
    BY <1>9 DEF ExecStart, At, Locked, Steps, LocalInv
  <2>2. pending[d] \in Decisions /\ Len(canonical) \in Nat
    BY <1>9, SignalsAreDecisions DEF ExecStart, Turn, Waiting, TypeOK
  <2>3. PICK r \in JournalRecords :
            /\ journal' = Append(journal, r) /\ MayAppend(r)
            /\ r.status = "execution_started" /\ r.signal = pending[d]
    <3>1. JournalAppend("execution_started", pending[d], work.asof, Len(canonical))
      BY <1>9 DEF ExecStart
    <3>2. "execution_started" \in Statuses
      BY DEF Statuses
    <3> QED
      BY <3>1, <3>2, <2>1, <2>2, JournalGrows
  <2>4. pc'[p] = "trade" /\ \A q \in Procs \ {p} : pc'[q] = pc[q]
    BY <1>9 DEF ExecStart, Goto, TypeOK
  <2>5. PICK i \in DOMAIN journal :
            journal[i].signal = pending[d] /\ journal[i].status = "daily_decision_frozen"
    BY <1>9 DEF ExecStart, Committed, Has
  <2>6. work'.job = pending[d]
    BY <1>9 DEF ExecStart, TypeOK, Works
  <2>7. FrozenThenStarted(work.job)'
    <3>1. /\ i \in DOMAIN journal' /\ Len(journal) + 1 \in DOMAIN journal'
          /\ i < Len(journal) + 1
          /\ journal'[i] = journal[i] /\ journal'[Len(journal) + 1] = r
      BY <2>3, AppendFacts DEF TypeOK
    <3> QED
      BY <3>1, <2>3, <2>5, <2>6 DEF FrozenThenStarted, Precedes
  <2> QED
    BY <1>9, <1>a, <2>1, <2>3, <2>4, <2>7 DEF ExecStart, StepShape, Staging, DailyLocked
<1>10. CASE \/ ExecOpen(p) \/ ExecRest(p)
            \/ \E kind \in {"fill", "partial", "reject"} : ExecVenue(p, kind)
            \/ \E o \in 1..work.orders : ExecCancel(p, o)
  <2>1. /\ pc[p] \in Trading /\ work.job \in Signals /\ work.asof \in Dates
        /\ work.sent \in Nat /\ work.orders \in Nat
    BY <1>10 DEF ExecOpen, ExecRest, ExecVenue, ExecCancel, At, Trading, LocalInv, TypeOK, Works
  <2>2. \/ canonical' = canonical
        \/ \E o \in Nat, k \in {"open", "partial", "fill", "reject", "cancel"},
              e \in Dates \cup {NoDate} : CanonicalAppend(o, k, e)
    <3>1. CASE ExecOpen(p)
      <4>1. work.sent + 1 \in Nat
        BY <2>1
      <4> QED
        BY <3>1, <4>1, <2>1 DEF ExecOpen
    <3>2. CASE ExecRest(p)
      BY <3>2 DEF ExecRest
    <3>3. CASE \E kind \in {"fill", "partial", "reject"} : ExecVenue(p, kind)
      BY <3>3, <2>1 DEF ExecVenue
    <3>4. CASE \E o \in 1..work.orders : ExecCancel(p, o)
      <4>1. 1..work.orders \subseteq Nat
        BY <2>1
      <4> QED
        BY <3>4, <4>1 DEF ExecCancel
    <3> QED
      BY <1>10, <3>1, <3>2, <3>3, <3>4
  <2>3. \/ canonical' = canonical
        \/ \E c \in CanonicalRecords : canonical' = Append(canonical, c) /\ c.signal = work.job
    BY <2>1, <2>2, CanonicalGrows
  <2>4. work'.job = work.job
    BY <1>10 DEF ExecOpen, ExecRest, ExecVenue, ExecCancel, TypeOK, Works
  <2>5. UNCHANGED <<lock, draft, pending, summary, journal, torn>>
    BY <1>10 DEF ExecOpen, ExecRest, ExecVenue, ExecCancel
  <2>6. pc'[p] \in Trading /\ \A q \in Procs \ {p} : pc'[q] = pc[q]
    BY <1>10 DEF ExecOpen, ExecRest, ExecVenue, ExecCancel, Goto, TypeOK, Trading, At
  <2> QED
    BY <1>a, <1>b, <2>1, <2>3, <2>4, <2>5, <2>6 DEF StepShape
<1>11. CASE ExecSeal(p)
  <2>1. /\ pc[p] \in Locked /\ work.job \in Decisions /\ work.asof \in Dates
        /\ work.before \in Nat
    BY <1>11, SignalsAreDecisions
    DEF ExecSeal, At, Locked, Steps, LocalInv, Trading, TypeOK, Works
  <2>2. \E r \in JournalRecords : journal' = Append(journal, r) /\ MayAppend(r)
    BY <1>11, <2>1, JournalGrows DEF ExecSeal, Outcome, Statuses, Terminals
  <2>3. pc'[p] = "scan" /\ \A q \in Procs \ {p} : pc'[q] = pc[q]
    BY <1>11 DEF ExecSeal, Goto, TypeOK
  <2> QED
    BY <1>11, <1>a, <2>1, <2>2, <2>3 DEF ExecSeal, StepShape, Trading, Staging, DailyLocked
<1>12. ASSUME NEW i \in DOMAIN journal, ReconSeal(p, i) \/ ReconClear(p, i)
       PROVE  StepShape(p)
  <2>1. journal[i] \in JournalRecords /\ Len(canonical) \in Nat
    BY DEF TypeOK
  <2>2. journal[i].signal \in Decisions /\ journal[i].exec \in Dates /\ journal[i].before \in Nat
    BY <2>1 DEF JournalRecords
  <2>3. \E r \in JournalRecords : journal' = Append(journal, r) /\ MayAppend(r)
    BY <1>12, <2>1, <2>2, JournalGrows DEF ReconSeal, ReconClear, Statuses, Terminals
  <2>4. pc[p] \in Locked /\ pc[p] \notin Trading /\ pc[p] \notin Staging
    BY <1>12 DEF ReconSeal, ReconClear, At, Locked, Steps, Trading, Staging, DailyLocked
  <2> QED
    BY <1>12, <1>a, <2>3, <2>4 DEF ReconSeal, ReconClear, StepShape
<1>13. CASE \/ ExecDone(p) \/ ReconDone(p) \/ Refuse(p) \/ Stop(p)
            \/ \E file \in {"journal", "canonical"} : Tear(p, file)
  <2>1. Leave(p) /\ UNCHANGED <<pending, summary, journal, canonical>>
    BY <1>13 DEF ExecDone, ReconDone, Refuse, Stop, Tear
  <2> QED
    BY <2>1, LeaveShape DEF StepShape, Trading, Staging, DailyLocked
<1> QED
  BY <1>1, <1>2, <1>3, <1>4, <1>5, <1>6, <1>7, <1>8, <1>9, <1>10, <1>11, <1>12, <1>13
  DEF Call, Advance, Fail, DailyStep, ExecStep, ReconStep

\* An append of a record the journal takes keeps one decision per date.
LEMMA OneDecisionKept ==
  ASSUME TypeOK, OneDecision, NEW r \in JournalRecords, MayAppend(r),
         journal' = Append(journal, r)
  PROVE  OneDecision'
<1>1. /\ DOMAIN journal' = 1..(Len(journal) + 1) /\ DOMAIN journal = 1..Len(journal)
      /\ Len(journal) \in Nat
      /\ \A i \in DOMAIN journal : journal'[i] = journal[i]
      /\ journal'[Len(journal) + 1] = r
  BY AppendFacts DEF TypeOK
<1>2. \A i \in DOMAIN journal' : i \in DOMAIN journal \/ i = Len(journal) + 1
  BY <1>1
<1>3. ASSUME r.status = "daily_decision_frozen", NEW i \in DOMAIN journal,
             journal[i].status = "daily_decision_frozen"
      PROVE  journal[i].signal.date # r.signal.date
  BY <1>3 DEF MayAppend, Decided
<1> SUFFICES ASSUME NEW i \in DOMAIN journal', NEW j \in DOMAIN journal',
                    journal'[i].status = "daily_decision_frozen",
                    journal'[j].status = "daily_decision_frozen",
                    journal'[i].signal.date = journal'[j].signal.date
             PROVE  journal'[i].signal = journal'[j].signal
  BY DEF OneDecision
<1>4. CASE i \in DOMAIN journal /\ j \in DOMAIN journal
  BY <1>4, <1>1 DEF OneDecision
<1>5. CASE i = Len(journal) + 1 \/ j = Len(journal) + 1
  BY <1>5, <1>1, <1>2, <1>3
<1> QED
  BY <1>2, <1>4, <1>5

LEMMA CommitNext == CommitInv /\ [Next]_vars => CommitInv'
<1> SUFFICES ASSUME CommitInv, [Next]_vars PROVE CommitInv'
  OBVIOUS
<1>1. TypeInv'
  BY TypeNext DEF CommitInv
<1>2. TypeOK
  BY DEF CommitInv, TypeInv
<1>3. CASE UNCHANGED vars
  BY <1>1, <1>3 DEF vars, CommitInv, JobCommitted, LedgerCommitted, OneDecision,
     StagesUndecided, FrozenThenStarted, Precedes, Decided
<1>4. ASSUME NEW p \in Procs, Call(p) \/ Advance(p) \/ Fail(p) PROVE CommitInv'
  <2>1. StepShape(p)
    BY <1>4, StepsHaveShape
  <2>2. ASSUME NEW s, FrozenThenStarted(s) PROVE FrozenThenStarted(s)'
    <3>1. \/ journal' = journal
          \/ \E r \in JournalRecords : journal' = Append(journal, r)
      BY <2>1 DEF StepShape
    <3>2. Precedes(s, "daily_decision_frozen", "execution_started")'
      BY <1>2, <2>2, <3>1, PrecedenceKept
    <3> QED
      BY <3>2 DEF FrozenThenStarted
  <2>3. JobCommitted'
    <3> SUFFICES ASSUME NEW q \in Procs, pc'[q] \in Trading
                 PROVE  FrozenThenStarted(work.job)'
      BY DEF JobCommitted
    <3>1. CASE q # p
      <4>1. pc[q] \in Trading /\ work' = work
        BY <3>1, <2>1 DEF StepShape, Trading, Locked, Steps
      <4>2. FrozenThenStarted(work.job)
        BY <4>1 DEF CommitInv, JobCommitted
      <4> QED
        BY <4>1, <4>2, <2>2 DEF FrozenThenStarted, Precedes
    <3>2. CASE q = p
      BY <3>2, <2>1, <2>2 DEF StepShape, CommitInv, JobCommitted, FrozenThenStarted, Precedes
    <3> QED
      BY <3>1, <3>2
  <2>4. LedgerCommitted'
    <3>1. CASE canonical' = canonical
      BY <3>1, <2>2 DEF CommitInv, LedgerCommitted, FrozenThenStarted, Precedes
    <3>2. ASSUME pc[p] \in Trading, NEW c \in CanonicalRecords,
                 canonical' = Append(canonical, c), c.signal = work.job
          PROVE  LedgerCommitted'
      <4>1. /\ DOMAIN canonical' = 1..(Len(canonical) + 1) /\ DOMAIN canonical = 1..Len(canonical)
            /\ Len(canonical) \in Nat
            /\ \A k \in DOMAIN canonical : canonical'[k] = canonical[k]
            /\ canonical'[Len(canonical) + 1] = c
        BY <1>2, <3>2, AppendFacts DEF TypeOK
      <4>2. FrozenThenStarted(c.signal)
        BY <3>2 DEF CommitInv, JobCommitted
      <4>3. ASSUME NEW k \in DOMAIN canonical' PROVE FrozenThenStarted(canonical'[k].signal)
        <5>1. CASE k \in DOMAIN canonical
          BY <5>1, <4>1 DEF CommitInv, LedgerCommitted
        <5>2. CASE k = Len(canonical) + 1
          BY <5>2, <4>1, <4>2
        <5> QED
          BY <4>1, <5>1, <5>2
      <4> QED
        BY <4>3, <2>2 DEF LedgerCommitted, FrozenThenStarted, Precedes
    <3> QED
      BY <2>1, <3>1, <3>2 DEF StepShape
  <2>5. OneDecision'
    <3>1. CASE journal' = journal
      BY <3>1 DEF CommitInv, OneDecision
    <3> QED
      BY <1>2, <2>1, <3>1, OneDecisionKept DEF StepShape, CommitInv
  <2>6. StagesUndecided'
    <3> SUFFICES ASSUME NEW q \in Procs, pc'[q] \in Staging
                 PROVE  ~Decided(draft[q].date)'
      BY DEF StagesUndecided
    <3>1. /\ journal' = journal /\ draft'[q] = draft[q] /\ ~Decided(draft[q].date)
      BY <2>1 DEF StepShape, CommitInv, StagesUndecided, Staging, DailyLocked, Locked, Steps
    <3> QED
      BY <3>1 DEF Decided
  <2> QED
    BY <1>1, <2>3, <2>4, <2>5, <2>6 DEF CommitInv
<1> QED
  BY <1>3, <1>4 DEF Next

\* The ledger only records targets that were frozen and then started, and no
\* date ever trades two of them.
LEMMA CommitInvSuffices == CommitInv => TradesCommittedTarget
<1> SUFFICES ASSUME CommitInv PROVE TradesCommittedTarget
  OBVIOUS
<1>1. \A k \in DOMAIN canonical :
         Precedes(canonical[k].signal, "daily_decision_frozen", "execution_started")
  BY DEF CommitInv, LedgerCommitted, FrozenThenStarted
<1>2. ASSUME NEW k \in DOMAIN canonical, NEW l \in DOMAIN canonical,
             canonical[k].signal.date = canonical[l].signal.date
      PROVE  canonical[k].signal = canonical[l].signal
  <2>1. PICK i \in DOMAIN journal :
            journal[i].signal = canonical[k].signal /\ journal[i].status = "daily_decision_frozen"
    BY <1>1 DEF Precedes
  <2>2. PICK j \in DOMAIN journal :
            journal[j].signal = canonical[l].signal /\ journal[j].status = "daily_decision_frozen"
    BY <1>1 DEF Precedes
  <2> QED
    BY <1>2, <2>1, <2>2 DEF CommitInv, OneDecision
<1> QED
  BY <1>1, <1>2 DEF TradesCommittedTarget

\* Whatever crashes and is run again, a record reaches the canonical ledger only
\* for a target that _freeze_daily_decision committed and execute_pending_for_session
\* journalled as started, and one signal date never trades two targets.
THEOREM OnlyCommittedTargetsTrade == Spec => []TradesCommittedTarget
<1>1. Spec => []CommitInv
  BY CommitInit, CommitNext, PTL DEF Spec
<1> QED
  BY <1>1, CommitInvSuffices, PTL

\* No step of any process overwrites or deletes the pending signal or the
\* summary of a date once its decision is frozen in the journal.
THEOREM FrozenEvidenceImmutable == Spec => CommittedEvidenceIsKept
<1>1. Spec => []CommitInv
  BY CommitInit, CommitNext, PTL DEF Spec
<1>2. CommitInv /\ [Next]_vars =>
        [\A d \in Dates : Decided(d) =>
            pending'[d] = pending[d] /\ summary'[d] = summary[d]]_vars
  <2> SUFFICES ASSUME CommitInv, Next, NEW d \in Dates, Decided(d)
               PROVE  pending'[d] = pending[d] /\ summary'[d] = summary[d]
    OBVIOUS
  <2>1. PICK p \in Procs : Call(p) \/ Advance(p) \/ Fail(p)
    BY DEF Next
  <2>2. StepShape(p)
    BY <2>1, StepsHaveShape
  <2> QED
    BY <2>2 DEF StepShape
<1> QED
  BY <1>1, <1>2, PTL DEF Spec, CommittedEvidenceIsKept

-----------------------------------------------------------------------------
(***************************************************************************)
(* What the evidence says once it is written: the order of time, the       *)
(* freeze of an uncertain account, receipts, the account a target was      *)
(* sized on, and the re-run of a date that a crash left staged.            *)
(*                                                                         *)
(* The invariant speaks of a journal j and a ledger c as values, so that   *)
(* a step is an Append to one of them.                                     *)
(***************************************************************************)

\* The readings of PaperAccount, of any journal ...
HasIn(j, s, S) == \E i \in DOMAIN j : j[i].signal = s /\ j[i].status \in S
EndIn(j, s) == HasIn(j, s, Terminals)
StartIn(j, s) == HasIn(j, s, {"execution_started"})
DanglingIn(j, s) == StartIn(j, s) /\ ~EndIn(j, s)
UncertainIn(j, s) ==
    DanglingIn(j, s) \/ (HasIn(j, s, {"execution_indeterminate"})
                          /\ ~HasIn(j, s, {"execution_reconciled"}))
CertainIn(j) == \A i \in DOMAIN j : ~UncertainIn(j, j[i].signal)
DecidedIn(j, d) == \E i \in DOMAIN j :
    j[i].status = "daily_decision_frozen" /\ j[i].signal.date = d
AwaitsIn(j, s) == HasIn(j, s, {"daily_decision_frozen"}) /\ ~StartIn(j, s) /\ ~EndIn(j, s)
UnusedIn(j, d) == \A i \in DOMAIN j :
    j[i].signal.date = d => j[i].status \notin Terminals \cup {"execution_started"}

\* ... and of any ledger.
OpenIn(c, s, o) ==
    /\ \E k \in DOMAIN c : c[k].signal = s /\ c[k].order = o
    /\ \A k \in DOMAIN c : c[k].signal = s /\ c[k].order = o => c[k].kind \notin Closed
ClosedIn(c) == \A k \in DOMAIN c : ~OpenIn(c, c[k].signal, c[k].order)
LedgerUpTo(c, d) == \A k \in DOMAIN c : c[k].date <= d

\* Everything durable is at or before the date and settled, nothing of the date itself
\* was executed, and every older signal has come to its end.
Clean(j, c, d) ==
    /\ UnusedIn(j, d)
    /\ \A i \in DOMAIN j : j[i].signal.date <= d /\ j[i].exec <= d
    /\ LedgerUpTo(c, d)
    /\ CertainIn(j)
    /\ ClosedIn(c)
    /\ \A e \in Dates : pending[e] # None => e <= d /\ (e < d => EndIn(j, pending[e]))

-----------------------------------------------------------------------------
(* What the stores say *)

\* The artifact of a date is a signal of that date.
PendingKeyed == \A d \in Dates : pending[d] # None => pending[d].date = d

\* A date that a crash left staged is clean: nothing can be executed meanwhile.
StagedIsClean ==
    \A d \in Dates : pending[d] # None /\ ~DecidedIn(journal, d) => Clean(journal, canonical, d)

\* A decision is frozen when every older signal has come to its end.
DecidedInOrder ==
    \A d, e \in Dates :
        d < e /\ DecidedIn(journal, e) /\ pending[d] # None => EndIn(journal, pending[d])

\* A frozen signal that waits for its session is bound to the whole ledger.
AwaitingIsBound ==
    \A d \in Dates : pending[d] # None /\ AwaitsIn(journal, pending[d]) =>
        ClosedIn(canonical) /\ summary[d] = pending[d] /\ Len(canonical) = pending[d].base

\* The records of an execution are behind the prefix it started from, and nothing else
\* is while it is not sealed.
StartedFromPrefix ==
    \A i \in DOMAIN journal : journal[i].status = "execution_started" =>
        /\ journal[i].before <= Len(canonical)
        /\ \A k \in DOMAIN canonical :
             canonical[k].signal = journal[i].signal => journal[i].before < k
        /\ DanglingIn(journal, journal[i].signal) =>
             \A k \in DOMAIN canonical :
                 journal[i].before < k => canonical[k].signal = journal[i].signal

ReceiptIn(c, r) ==
    /\ r.before <= r.after /\ r.after <= Len(c)
    /\ \A k \in DOMAIN c : c[k].signal = r.signal <=> r.before < k /\ k <= r.after
    /\ \A k \in DOMAIN c : c[k].signal = r.signal => ~OpenIn(c, r.signal, c[k].order)
Receipts ==
    \A i \in DOMAIN journal : journal[i].status \in Terminals => ReceiptIn(canonical, journal[i])

\* The records of a target form one block behind the base of its decision.
Blocks ==
    \A k \in DOMAIN canonical :
        /\ canonical[k].signal.base < k
        /\ \A m \in canonical[k].signal.base + 1 .. k : canonical[m].signal = canonical[k].signal

StoresInv ==
    /\ PendingKeyed /\ StagedIsClean /\ DecidedInOrder /\ AwaitingIsBound
    /\ StartedFromPrefix /\ Receipts /\ Blocks /\ Chronological

-----------------------------------------------------------------------------
(* What the process inside the lock relies on *)

\* From its admission to its freeze a daily run works on a clean date, bound to the
\* whole ledger, and it freezes what it has summarised.
Admitted == {"stage", "summarise", "freeze"}
AdmittedIsClean(p) ==
    /\ pc[p] \in Admitted => /\ Clean(journal, canonical, draft[p].date)
                             /\ Len(canonical) = draft[p].base
    /\ pc[p] = "freeze" => summary[draft[p].date] = draft[p]

\* The executor scans a settled account, and trades the one job that is not: nothing is
\* staged, no other signal waits, and the job's records are those behind its base.
ScanIsCertain(p) == pc[p] = "scan" => CertainIn(journal)
JobIsAlone ==
    /\ DanglingIn(journal, work.job)
    /\ \A i \in DOMAIN journal :
         UncertainIn(journal, journal[i].signal) => journal[i].signal = work.job
    /\ work.job.date < work.asof
    /\ \A e \in Dates : pending[e] # None =>
         DecidedIn(journal, e) /\ ~AwaitsIn(journal, pending[e])
JobIsBehindItsBase ==
    /\ LedgerUpTo(canonical, work.asof)
    /\ work.before = work.job.base /\ work.before <= Len(canonical)
    /\ \A k \in DOMAIN canonical : canonical[k].signal = work.job <=> work.before < k
    /\ \A k \in DOMAIN canonical : work.before < k => canonical[k].order \in 1..work.sent
    /\ work.sent <= work.orders
TradingIsExclusive(p) ==
    /\ pc[p] \in Trading => JobIsAlone /\ JobIsBehindItsBase
    /\ pc[p] = "venue" => work.sent >= 1

\* The operator works on a ledger without open orders.
ReconIsClosed(p) == pc[p] = "recon" => ClosedIn(canonical)

HolderInv(p) ==
    AdmittedIsClean(p) /\ ScanIsCertain(p) /\ TradingIsExclusive(p) /\ ReconIsClosed(p)

HistoryInv == CommitInv /\ StoresInv /\ \A p \in Procs : HolderInv(p)

-----------------------------------------------------------------------------
(* Appending *)

LEMMA HasAppend ==
  ASSUME NEW j \in Seq(JournalRecords), NEW r \in JournalRecords, NEW s, NEW S
  PROVE  HasIn(Append(j, r), s, S) <=> HasIn(j, s, S) \/ (r.signal = s /\ r.status \in S)
<1>1. /\ DOMAIN Append(j, r) = 1..(Len(j) + 1) /\ DOMAIN j = 1..Len(j) /\ Len(j) \in Nat
      /\ \A i \in DOMAIN j : i \in DOMAIN Append(j, r) /\ Append(j, r)[i] = j[i]
      /\ Append(j, r)[Len(j) + 1] = r
  BY AppendFacts
<1>2. Len(j) + 1 \in DOMAIN Append(j, r)
  BY <1>1
<1>3. \A i \in DOMAIN Append(j, r) : i \in DOMAIN j \/ i = Len(j) + 1
  BY <1>1
<1> HIDE <1>1
<1>4. \A i \in DOMAIN j : i \in DOMAIN Append(j, r) /\ Append(j, r)[i] = j[i]
  BY <1>1
<1>5. Append(j, r)[Len(j) + 1] = r
  BY <1>1
<1> QED
  BY <1>2, <1>3, <1>4, <1>5 DEF HasIn

\* A journal is certain when no signal at all is uncertain in it.
LEMMA CertainOfAll ==
  ASSUME NEW j, CertainIn(j), NEW s
  PROVE  ~UncertainIn(j, s)
BY DEF CertainIn, UncertainIn, DanglingIn, StartIn, HasIn

\* An order is as open as it was when something else is appended.
LEMMA OpenAppend ==
  ASSUME NEW c \in Seq(CanonicalRecords), NEW x \in CanonicalRecords, NEW s, NEW o, x.signal # s
  PROVE  OpenIn(Append(c, x), s, o) <=> OpenIn(c, s, o)
<1>1. /\ DOMAIN Append(c, x) = 1..(Len(c) + 1) /\ DOMAIN c = 1..Len(c) /\ Len(c) \in Nat
      /\ \A k \in DOMAIN c : k \in DOMAIN Append(c, x) /\ Append(c, x)[k] = c[k]
      /\ Append(c, x)[Len(c) + 1] = x
  BY AppendFacts
<1>2. \A k \in DOMAIN Append(c, x) : k \in DOMAIN c \/ k = Len(c) + 1
  BY <1>1
<1> QED
  BY <1>1, <1>2 DEF OpenIn

\* The readings of PaperAccount are those of its journal and its ledger.
LEMMA Readings ==
  /\ \A s : Terminal(s) <=> EndIn(journal, s)
  /\ \A s : Started(s) <=> StartIn(journal, s)
  /\ \A s : Dangling(s) <=> DanglingIn(journal, s)
  /\ \A s : Uncertain(s) <=> UncertainIn(journal, s)
  /\ \A d : Decided(d) <=> DecidedIn(journal, d)
  /\ \A s, o : IsOpen(s, o) <=> OpenIn(canonical, s, o)
  /\ NoOpenOrders <=> ClosedIn(canonical)
  /\ JournalResolved => CertainIn(journal)
<1>1. /\ \A s : Terminal(s) <=> EndIn(journal, s)
      /\ \A s : Started(s) <=> StartIn(journal, s)
      /\ \A s : Indeterminate(s) <=> HasIn(journal, s, {"execution_indeterminate"})
      /\ \A s : Reconciled(s) <=> HasIn(journal, s, {"execution_reconciled"})
  BY DEF Terminal, Started, Indeterminate, Reconciled, Has, EndIn, StartIn, HasIn
<1>2. \A s : Dangling(s) <=> DanglingIn(journal, s)
  BY <1>1 DEF Dangling, DanglingIn
<1>3. \A s : Uncertain(s) <=> UncertainIn(journal, s)
  BY <1>1, <1>2 DEF Uncertain, UncertainIn
<1>4. \A d : Decided(d) <=> DecidedIn(journal, d)
  BY DEF Decided, DecidedIn
<1>5. \A s, o : IsOpen(s, o) <=> OpenIn(canonical, s, o)
  BY DEF IsOpen, OpenIn
<1>6. NoOpenOrders <=> ClosedIn(canonical)
  BY <1>5 DEF NoOpenOrders, ClosedIn
<1>7. JournalResolved => CertainIn(journal)
  BY <1>3 DEF JournalResolved, CertainIn
<1> QED
  BY <1>1, <1>2, <1>3, <1>4, <1>5, <1>6, <1>7

LEMMA RecordTyped ==
  ASSUME NEW r \in JournalRecords
  PROVE  /\ r.status \in Statuses /\ r.signal \in Decisions /\ r.exec \in Dates
         /\ r.signal.date \in Dates /\ r.signal.date \in Int /\ r.signal.base \in Nat
         /\ r.before \in Nat /\ r.after \in Nat
BY DEF JournalRecords, Decisions, Dates

LEMMA EventTyped ==
  ASSUME NEW x \in CanonicalRecords
  PROVE  /\ x.signal \in Decisions /\ x.signal.date \in Int /\ x.signal.base \in Nat
         /\ x.order \in Nat /\ x.date \in Int
BY DEF CanonicalRecords, Signals, Decisions, Dates, NoDate

\* What a reader finds after one more record.
LEMMA JournalAppended ==
  ASSUME TypeOK, NEW r \in JournalRecords, journal' = Append(journal, r)
  PROVE  /\ \A s, S : HasIn(journal', s, S) <=>
                          HasIn(journal, s, S) \/ (r.signal = s /\ r.status \in S)
         /\ \A d : DecidedIn(journal', d) <=>
                       \/ DecidedIn(journal, d)
                       \/ r.status = "daily_decision_frozen" /\ r.signal.date = d
         /\ \A i \in DOMAIN journal' : \/ i \in DOMAIN journal /\ journal'[i] = journal[i]
                                       \/ i \notin DOMAIN journal /\ journal'[i] = r
         /\ \A i \in DOMAIN journal : i \in DOMAIN journal' /\ journal'[i] = journal[i]
         /\ \A i, l \in DOMAIN journal' : i < l => i \in DOMAIN journal
<1>1. /\ DOMAIN journal' = 1..(Len(journal) + 1) /\ DOMAIN journal = 1..Len(journal)
      /\ Len(journal) \in Nat
      /\ \A i \in DOMAIN journal : i \in DOMAIN journal' /\ journal'[i] = journal[i]
      /\ journal'[Len(journal) + 1] = r
  BY AppendFacts DEF TypeOK
<1>2. \A i \in DOMAIN journal' : i \in DOMAIN journal \/ i = Len(journal) + 1
  BY <1>1
<1>3. Len(journal) + 1 \in DOMAIN journal' /\ Len(journal) + 1 \notin DOMAIN journal
  BY <1>1
<1>4. \A i, l \in DOMAIN journal' : i < l => i \in DOMAIN journal
  BY <1>1
<1>5. \A s, S : HasIn(journal', s, S) <=>
                    HasIn(journal, s, S) \/ (r.signal = s /\ r.status \in S)
  BY HasAppend DEF TypeOK
<1>6. /\ \A i \in DOMAIN journal : i \in DOMAIN journal' /\ journal'[i] = journal[i]
      /\ journal'[Len(journal) + 1] = r
  BY <1>1
<1>7. \A d : DecidedIn(journal', d) <=>
                 \/ DecidedIn(journal, d)
                 \/ r.status = "daily_decision_frozen" /\ r.signal.date = d
  BY <1>2, <1>3, <1>6 DEF DecidedIn
<1> QED
  BY <1>2, <1>3, <1>4, <1>5, <1>6, <1>7

LEMMA LedgerAppended ==
  ASSUME TypeOK, NEW x \in CanonicalRecords, canonical' = Append(canonical, x)
  PROVE  /\ Len(canonical) \in Nat /\ Len(canonical') = Len(canonical) + 1
         /\ DOMAIN canonical = 1..Len(canonical)
         /\ DOMAIN canonical' = 1..(Len(canonical) + 1)
         /\ \A k \in DOMAIN canonical : k \in DOMAIN canonical' /\ canonical'[k] = canonical[k]
         /\ canonical'[Len(canonical) + 1] = x
BY AppendFacts DEF TypeOK

-----------------------------------------------------------------------------
(* What each kind of write does to the stores *)

\* A record that freezes nothing, appended while nothing undecided is staged.
LEMMA StoresAfterRecord ==
  ASSUME TypeOK, StoresInv, NEW r \in JournalRecords, journal' = Append(journal, r),
         UNCHANGED <<canonical, pending, summary>>,
         r.status # "daily_decision_frozen",
         \A d \in Dates : pending[d] # None => DecidedIn(journal, d),
         r.status = "execution_started" =>
             /\ r.before = Len(canonical)
             /\ \A k \in DOMAIN canonical : canonical[k].signal # r.signal,
         r.status \in Terminals => ReceiptIn(canonical, r)
  PROVE  StoresInv'
<1>1. /\ \A s, S : HasIn(journal', s, S) <=>
                       HasIn(journal, s, S) \/ (r.signal = s /\ r.status \in S)
      /\ \A d : DecidedIn(journal', d) <=> DecidedIn(journal, d)
      /\ \A i \in DOMAIN journal' : \/ i \in DOMAIN journal /\ journal'[i] = journal[i]
                                    \/ i \notin DOMAIN journal /\ journal'[i] = r
      /\ \A i, l \in DOMAIN journal' : i < l => i \in DOMAIN journal
  BY JournalAppended
<1>2. /\ \A s : EndIn(journal, s) => EndIn(journal', s)
      /\ \A s : StartIn(journal, s) => StartIn(journal', s)
      /\ \A s : AwaitsIn(journal', s) => AwaitsIn(journal, s)
  BY <1>1 DEF EndIn, StartIn, AwaitsIn
<1>3. PendingKeyed'
  BY DEF StoresInv, PendingKeyed
<1>4. StagedIsClean'
  BY <1>1 DEF StagedIsClean
<1>5. DecidedInOrder'
  BY <1>1, <1>2 DEF StoresInv, DecidedInOrder
<1>6. AwaitingIsBound'
  BY <1>2 DEF StoresInv, AwaitingIsBound
<1>7. StartedFromPrefix'
  <2> SUFFICES ASSUME NEW i \in DOMAIN journal', journal'[i].status = "execution_started"
               PROVE  /\ journal'[i].before <= Len(canonical)
                      /\ \A k \in DOMAIN canonical :
                           canonical[k].signal = journal'[i].signal => journal'[i].before < k
                      /\ DanglingIn(journal', journal'[i].signal) =>
                           \A k \in DOMAIN canonical :
                             journal'[i].before < k => canonical[k].signal = journal'[i].signal
    BY DEF StartedFromPrefix
  <2>1. CASE i \in DOMAIN journal /\ journal'[i] = journal[i]
    <3>1. StartIn(journal, journal[i].signal)
      BY <2>1 DEF StartIn, HasIn
    <3>2. DanglingIn(journal', journal[i].signal) => DanglingIn(journal, journal[i].signal)
      BY <3>1, <1>2 DEF DanglingIn
    <3> QED
      BY <2>1, <3>2 DEF StoresInv, StartedFromPrefix
  <2>2. CASE journal'[i] = r
    <3>1. Len(canonical) \in Nat /\ DOMAIN canonical = 1..Len(canonical)
      BY DEF TypeOK
    <3> QED
      BY <2>2, <3>1
  <2> QED
    BY <1>1, <2>1, <2>2
<1>8. Receipts'
  BY <1>1 DEF StoresInv, Receipts
<1>9. Blocks'
  BY DEF StoresInv, Blocks
<1>10. Chronological'
  BY <1>1 DEF StoresInv, Chronological
<1> QED
  BY <1>3, <1>4, <1>5, <1>6, <1>7, <1>8, <1>9, <1>10 DEF StoresInv

\* Nothing else is staged beside a clean date.
LEMMA OnlyOneStaged ==
  ASSUME PendingKeyed, StagedIsClean, NEW d \in Dates, Clean(journal, canonical, d),
         NEW e \in Dates, e # d, pending[e] # None
  PROVE  DecidedIn(journal, e)
<1>1. EndIn(journal, pending[e]) /\ pending[e].date = e
  BY DEF Clean, PendingKeyed, Dates
<1>2. ~UnusedIn(journal, e)
  BY <1>1 DEF UnusedIn, EndIn, HasIn
<1> QED
  BY <1>2 DEF StagedIsClean, Clean

\* The commit point of a clean date.
LEMMA StoresAfterFreeze ==
  ASSUME TypeOK, StoresInv, NEW r \in JournalRecords, journal' = Append(journal, r),
         UNCHANGED <<canonical, pending, summary>>,
         r.status = "daily_decision_frozen", r.signal.date \in Dates,
         ~DecidedIn(journal, r.signal.date),
         Clean(journal, canonical, r.signal.date),
         summary[r.signal.date] = r.signal, Len(canonical) = r.signal.base
  PROVE  StoresInv'
<1> DEFINE D == r.signal.date
<1>0. r.status \notin Terminals /\ r.status # "execution_started"
  BY DEF Terminals
<1>1. /\ \A s, S : HasIn(journal', s, S) <=>
                       HasIn(journal, s, S) \/ (r.signal = s /\ r.status \in S)
      /\ \A d : DecidedIn(journal', d) <=> DecidedIn(journal, d) \/ D = d
      /\ \A i \in DOMAIN journal' : \/ i \in DOMAIN journal /\ journal'[i] = journal[i]
                                    \/ i \notin DOMAIN journal /\ journal'[i] = r
      /\ \A i, l \in DOMAIN journal' : i < l => i \in DOMAIN journal
  BY JournalAppended
<1>2. /\ \A s : EndIn(journal', s) <=> EndIn(journal, s)
      /\ \A s : StartIn(journal', s) <=> StartIn(journal, s)
  BY <1>0, <1>1 DEF EndIn, StartIn
<1>3. PendingKeyed'
  BY DEF StoresInv, PendingKeyed
<1>4. StagedIsClean'
  <2> SUFFICES ASSUME NEW e \in Dates, pending[e] # None PROVE DecidedIn(journal', e)
    BY DEF StagedIsClean
  <2>1. CASE e = D
    BY <2>1, <1>1
  <2>2. CASE e # D
    BY <2>2, <1>1, OnlyOneStaged DEF StoresInv
  <2> QED
    BY <2>1, <2>2
<1>5. DecidedInOrder'
  <2> SUFFICES ASSUME NEW d \in Dates, NEW e \in Dates, d < e, DecidedIn(journal', e),
                      pending[d] # None
               PROVE  EndIn(journal', pending[d])
    BY DEF DecidedInOrder
  <2>1. CASE e = D
    BY <2>1, <1>2 DEF Clean
  <2>2. CASE e # D
    BY <2>2, <1>1, <1>2 DEF StoresInv, DecidedInOrder
  <2> QED
    BY <2>1, <2>2
<1>6. AwaitingIsBound'
  <2> SUFFICES ASSUME NEW d \in Dates, pending[d] # None, AwaitsIn(journal', pending[d])
               PROVE  ClosedIn(canonical) /\ summary[d] = pending[d]
                      /\ Len(canonical) = pending[d].base
    BY DEF AwaitingIsBound
  <2>1. CASE pending[d] = r.signal
    BY <2>1 DEF StoresInv, PendingKeyed, Clean
  <2>2. CASE pending[d] # r.signal
    <3>1. AwaitsIn(journal, pending[d])
      BY <2>2, <1>1, <1>2 DEF AwaitsIn
    <3> QED
      BY <3>1 DEF StoresInv, AwaitingIsBound
  <2> QED
    BY <2>1, <2>2
<1>7. StartedFromPrefix'
  BY <1>0, <1>1, <1>2 DEF StoresInv, StartedFromPrefix, DanglingIn
<1>8. Receipts'
  BY <1>0, <1>1 DEF StoresInv, Receipts
<1>9. Blocks'
  BY DEF StoresInv, Blocks
<1>10. Chronological'
  <2>1. \A i \in DOMAIN journal :
          journal[i].status = "daily_decision_frozen" => journal[i].signal.date < D
    <3> SUFFICES ASSUME NEW i \in DOMAIN journal, journal[i].status = "daily_decision_frozen"
                 PROVE  journal[i].signal.date < D
      OBVIOUS
    <3>1. journal[i].signal.date <= D
      BY DEF Clean
    <3>2. journal[i].signal.date # D
      BY DEF DecidedIn
    <3>3. journal[i] \in JournalRecords
      BY DEF TypeOK
    <3>4. journal[i].signal.date \in Int /\ D \in Int
      BY <3>3, RecordTyped
    <3> QED
      BY <3>1, <3>2, <3>4
  <2>2. ASSUME NEW i \in DOMAIN journal', NEW l \in DOMAIN journal', i < l,
               journal'[i].status = "daily_decision_frozen",
               journal'[l].status = "daily_decision_frozen"
        PROVE  journal'[i].signal.date < journal'[l].signal.date
    BY <2>1, <2>2, <1>1 DEF StoresInv, Chronological
  <2> QED
    BY <2>2 DEF StoresInv, Chronological
<1> QED
  BY <1>3, <1>4, <1>5, <1>6, <1>7, <1>8, <1>9, <1>10 DEF StoresInv

\* One more event of the job that is traded alone.
LEMMA StoresAfterTrade ==
  ASSUME TypeOK, StoresInv, JobIsAlone, JobIsBehindItsBase, work.asof \in Dates,
         NEW x \in CanonicalRecords, canonical' = Append(canonical, x),
         x.signal = work.job, x.date \in {work.asof, NoDate},
         UNCHANGED <<journal, pending, summary>>
  PROVE  StoresInv'
<1>1. /\ Len(canonical) \in Nat /\ Len(canonical') = Len(canonical) + 1
      /\ DOMAIN canonical = 1..Len(canonical)
      /\ DOMAIN canonical' = 1..(Len(canonical) + 1)
      /\ \A k \in DOMAIN canonical : k \in DOMAIN canonical' /\ canonical'[k] = canonical[k]
      /\ canonical'[Len(canonical) + 1] = x
  BY LedgerAppended
<1>2. \A k \in DOMAIN canonical' : k \in DOMAIN canonical \/ k = Len(canonical) + 1
  BY <1>1
<1>3. PendingKeyed' /\ DecidedInOrder'
  BY DEF StoresInv, PendingKeyed, DecidedInOrder
<1>4. StagedIsClean'
  BY DEF JobIsAlone, StagedIsClean
<1>5. AwaitingIsBound'
  BY DEF JobIsAlone, AwaitingIsBound
<1>6. StartedFromPrefix'
  <2> SUFFICES ASSUME NEW i \in DOMAIN journal, journal[i].status = "execution_started"
               PROVE  /\ journal[i].before <= Len(canonical')
                      /\ \A k \in DOMAIN canonical' :
                           canonical'[k].signal = journal[i].signal => journal[i].before < k
                      /\ DanglingIn(journal, journal[i].signal) =>
                           \A k \in DOMAIN canonical' :
                             journal[i].before < k => canonical'[k].signal = journal[i].signal
    BY DEF StartedFromPrefix
  <2>0. journal[i] \in JournalRecords
    BY DEF TypeOK
  <2>1. /\ journal[i].before <= Len(canonical) /\ journal[i].before \in Nat
        /\ \A k \in DOMAIN canonical :
             canonical[k].signal = journal[i].signal => journal[i].before < k
        /\ DanglingIn(journal, journal[i].signal) =>
             \A k \in DOMAIN canonical :
               journal[i].before < k => canonical[k].signal = journal[i].signal
    BY <2>0, RecordTyped DEF StoresInv, StartedFromPrefix
  <2>2. DanglingIn(journal, journal[i].signal) => journal[i].signal = work.job
    BY DEF JobIsAlone, UncertainIn
  <2>3. journal[i].before <= Len(canonical') /\ journal[i].before < Len(canonical) + 1
    BY <2>1, <1>1
  <2> HIDE DEF TypeOK
  <2> QED
    BY <1>1, <1>2, <2>1, <2>2, <2>3
<1>7. Receipts'
  <2> SUFFICES ASSUME NEW i \in DOMAIN journal, journal[i].status \in Terminals
               PROVE  ReceiptIn(canonical', journal[i])
    BY DEF Receipts
  <2>1. ReceiptIn(canonical, journal[i])
    BY DEF StoresInv, Receipts
  <2>2. x.signal # journal[i].signal
    <3>1. EndIn(journal, journal[i].signal)
      BY DEF EndIn, HasIn
    <3> QED
      BY <3>1 DEF JobIsAlone, DanglingIn
  <2>3. journal[i].after \in Nat
    <3>1. journal[i] \in JournalRecords
      BY DEF TypeOK
    <3> QED
      BY <3>1, RecordTyped
  <2>4. \A o : OpenIn(canonical', journal[i].signal, o) <=> OpenIn(canonical, journal[i].signal, o)
    BY <2>2, OpenAppend DEF TypeOK
  <2>5. /\ journal[i].before <= journal[i].after /\ journal[i].after <= Len(canonical)
        /\ \A k \in DOMAIN canonical : canonical[k].signal = journal[i].signal <=>
                                         journal[i].before < k /\ k <= journal[i].after
        /\ \A k \in DOMAIN canonical : canonical[k].signal = journal[i].signal =>
                                         ~OpenIn(canonical, journal[i].signal, canonical[k].order)
    BY <2>1 DEF ReceiptIn
  <2>6. journal[i].after <= Len(canonical') /\ ~(Len(canonical) + 1 <= journal[i].after)
    BY <2>3, <2>5, <1>1
  <2>7. \A k \in DOMAIN canonical' : canonical'[k].signal = journal[i].signal <=>
                                       journal[i].before < k /\ k <= journal[i].after
    BY <1>1, <1>2, <2>2, <2>5, <2>6
  <2>8. \A k \in DOMAIN canonical' : canonical'[k].signal = journal[i].signal =>
                                       ~OpenIn(canonical', journal[i].signal, canonical'[k].order)
    BY <1>1, <1>2, <2>2, <2>4, <2>5
  <2> QED
    BY <2>5, <2>6, <2>7, <2>8 DEF ReceiptIn
<1>8. Blocks'
  <2> SUFFICES ASSUME NEW k \in DOMAIN canonical'
               PROVE  /\ canonical'[k].signal.base < k
                      /\ \A m \in canonical'[k].signal.base + 1 .. k :
                           canonical'[m].signal = canonical'[k].signal
    BY DEF Blocks
  <2>1. CASE k \in DOMAIN canonical
    <3>1. canonical[k].signal.base \in Nat
      <4>1. canonical[k] \in CanonicalRecords
        BY <2>1 DEF TypeOK
      <4> QED
        BY <4>1, EventTyped
    <3>2. \A m \in canonical[k].signal.base + 1 .. k : m \in DOMAIN canonical
      BY <2>1, <3>1, <1>1
    <3> QED
      BY <2>1, <3>2, <1>1 DEF StoresInv, Blocks
  <2>2. CASE k = Len(canonical) + 1
    <3>1. work.job.base \in Nat
      BY EventTyped
    <3>2. work.job.base < k
      BY <2>2, <3>1, <1>1 DEF JobIsBehindItsBase
    <3>3. \A m \in work.job.base + 1 .. k : canonical'[m].signal = work.job
      <4> SUFFICES ASSUME NEW m \in work.job.base + 1 .. k PROVE canonical'[m].signal = work.job
        OBVIOUS
      <4>1. CASE m = Len(canonical) + 1
        BY <4>1, <1>1
      <4>2. CASE m # Len(canonical) + 1
        <5>1. m \in DOMAIN canonical /\ work.job.base < m
          BY <4>2, <2>2, <3>1, <1>1
        <5> QED
          BY <5>1, <1>1 DEF JobIsBehindItsBase
      <4> QED
        BY <4>1, <4>2
    <3> QED
      BY <2>2, <3>2, <3>3, <1>1
  <2> QED
    BY <1>2, <2>1, <2>2
<1>9. Chronological'
  <2>1. work.job.date < work.asof /\ \A k \in DOMAIN canonical : canonical[k].date <= work.asof
    BY DEF JobIsAlone, JobIsBehindItsBase, LedgerUpTo
  <2>2. ASSUME NEW k \in DOMAIN canonical', NEW l \in DOMAIN canonical', k < l,
               canonical'[l].date # NoDate
        PROVE  canonical'[k].date <= canonical'[l].date
    <3>1. CASE l \in DOMAIN canonical
      <4>1. k \in DOMAIN canonical
        BY <3>1, <2>2, <1>1
      <4> QED
        BY <3>1, <4>1, <2>2, <1>1 DEF StoresInv, Chronological
    <3>2. CASE l = Len(canonical) + 1
      <4>1. k \in DOMAIN canonical
        BY <3>2, <2>2, <1>1
      <4> QED
        BY <3>2, <4>1, <2>1, <2>2, <1>1
    <3> QED
      BY <1>2, <3>1, <3>2
  <2>3. \A k \in DOMAIN canonical' :
          canonical'[k].date # NoDate => canonical'[k].signal.date < canonical'[k].date
    BY <1>1, <1>2, <2>1 DEF StoresInv, Chronological
  <2> QED
    BY <2>2, <2>3 DEF StoresInv, Chronological
<1> QED
  BY <1>3, <1>4, <1>5, <1>6, <1>7, <1>8, <1>9 DEF StoresInv

\* A date stays clean while artifacts disappear, or are staged for the date itself.
LEMMA CleanKept ==
  ASSUME UNCHANGED <<journal, canonical>>, NEW d \in Dates, Clean(journal, canonical, d),
         \A e \in Dates : e = d \/ pending'[e] \in {pending[e], None}
  PROVE  Clean(journal, canonical, d)'
<1>1. /\ UnusedIn(journal', d) /\ LedgerUpTo(canonical', d)
      /\ CertainIn(journal') /\ ClosedIn(canonical')
      /\ \A i \in DOMAIN journal' : journal'[i].signal.date <= d /\ journal'[i].exec <= d
  BY DEF Clean
<1>2. \A e \in Dates : pending'[e] # None => e <= d /\ (e < d => EndIn(journal', pending'[e]))
  BY DEF Clean, Dates
<1> QED
  BY <1>1, <1>2 DEF Clean

\* What is discarded, and every summary that is written, is of an undecided date.
LEMMA StoresAfterDiscard ==
  ASSUME StoresInv, UNCHANGED <<journal, canonical>>,
         \A d \in Dates : pending'[d] \in {pending[d], None},
         \A d \in Dates : DecidedIn(journal, d) => summary'[d] = summary[d]
  PROVE  StoresInv'
<1>1. PendingKeyed'
  BY DEF StoresInv, PendingKeyed
<1>2. StagedIsClean'
  <2> SUFFICES ASSUME NEW d \in Dates, pending'[d] # None, ~DecidedIn(journal, d)
               PROVE  Clean(journal, canonical, d)'
    BY DEF StagedIsClean
  <2>1. Clean(journal, canonical, d)
    BY DEF StoresInv, StagedIsClean
  <2> QED
    BY <2>1, CleanKept
<1>3. DecidedInOrder'
  BY DEF StoresInv, DecidedInOrder
<1>4. AwaitingIsBound'
  <2> SUFFICES ASSUME NEW d \in Dates, pending'[d] # None, AwaitsIn(journal, pending'[d])
               PROVE  ClosedIn(canonical) /\ summary'[d] = pending'[d]
                      /\ Len(canonical) = pending'[d].base
    BY DEF AwaitingIsBound
  <2>1. pending'[d] = pending[d] /\ pending[d].date = d
    BY DEF StoresInv, PendingKeyed
  <2>2. DecidedIn(journal, d)
    BY <2>1 DEF AwaitsIn, HasIn, DecidedIn
  <2> QED
    BY <2>1, <2>2 DEF StoresInv, AwaitingIsBound
<1>5. StartedFromPrefix' /\ Receipts' /\ Blocks' /\ Chronological'
  BY DEF StoresInv, StartedFromPrefix, Receipts, Blocks, Chronological
<1> QED
  BY <1>1, <1>2, <1>3, <1>4, <1>5 DEF StoresInv

\* The one artifact a clean date may hold is staged.
LEMMA StoresAfterStage ==
  ASSUME TypeOK, StoresInv, UNCHANGED <<journal, canonical, summary>>, NEW s,
         s.date \in Dates,
         Clean(journal, canonical, s.date), ~DecidedIn(journal, s.date),
         pending'[s.date] = s, \A e \in Dates \ {s.date} : pending'[e] = pending[e]
  PROVE  StoresInv' /\ Clean(journal, canonical, s.date)'
<1> DEFINE D == s.date
<1>1. PendingKeyed'
  BY DEF StoresInv, PendingKeyed
<1>2. Clean(journal, canonical, D)'
  BY CleanKept
<1>3. StagedIsClean'
  <2> SUFFICES ASSUME NEW e \in Dates, pending'[e] # None, ~DecidedIn(journal, e)
               PROVE  Clean(journal, canonical, e)'
    BY DEF StagedIsClean
  <2>1. e = D
    BY OnlyOneStaged DEF StoresInv
  <2> QED
    BY <2>1, <1>2
<1>4. DecidedInOrder'
  <2> SUFFICES ASSUME NEW d \in Dates, NEW e \in Dates, d < e, DecidedIn(journal, e),
                      pending'[d] # None
               PROVE  EndIn(journal, pending'[d])
    BY DEF DecidedInOrder
  <2>1. CASE d = D
    BY <2>1 DEF DecidedIn, Clean, Dates
  <2>2. CASE d # D
    BY <2>2 DEF StoresInv, DecidedInOrder
  <2> QED
    BY <2>1, <2>2
<1>5. AwaitingIsBound'
  <2> SUFFICES ASSUME NEW d \in Dates, pending'[d] # None, AwaitsIn(journal, pending'[d])
               PROVE  ClosedIn(canonical) /\ summary[d] = pending'[d]
                      /\ Len(canonical) = pending'[d].base
    BY DEF AwaitingIsBound
  <2>1. d # D
    BY DEF AwaitsIn, HasIn, DecidedIn
  <2> QED
    BY <2>1 DEF StoresInv, AwaitingIsBound
<1>6. StartedFromPrefix' /\ Receipts' /\ Blocks' /\ Chronological'
  BY DEF StoresInv, StartedFromPrefix, Receipts, Blocks, Chronological
<1> QED
  BY <1>1, <1>2, <1>3, <1>4, <1>5, <1>6 DEF StoresInv

-----------------------------------------------------------------------------
(* What the steps write *)

LEMMA RecordAppended ==
  ASSUME TypeOK, NEW status \in Statuses, NEW s \in Decisions, NEW e \in Dates,
         NEW b \in Nat, JournalAppend(status, s, e, b)
  PROVE  \E r \in JournalRecords :
             /\ journal' = Append(journal, r) /\ MayAppend(r)
             /\ r.status = status /\ r.signal = s /\ r.exec = e
             /\ r.before = b /\ r.after = Len(canonical)
<1> DEFINE r == [status |-> status, signal |-> s, exec |-> e,
                 before |-> b, after |-> Len(canonical)]
<1>1. Len(canonical) \in Nat
  BY DEF TypeOK
<1>2. r \in JournalRecords
  BY <1>1 DEF JournalRecords
<1>3. journal' = Append(journal, r) /\ MayAppend(r)
  BY DEF JournalAppend
<1> QED
  BY <1>2, <1>3

\* A process that is out of the protocol's critical steps relies on nothing.
LEMMA NothingHeld ==
  ASSUME NEW p \in Procs, pc'[p] \notin Admitted \cup Trading \cup {"scan", "recon"}
  PROVE  HolderInv(p)'
BY DEF HolderInv, AdmittedIsClean, ScanIsCertain, TradingIsExclusive, ReconIsClosed,
       Admitted, Trading

\* The steps that only discard artifacts, or leave.
LEMMA DiscardsKeep ==
  ASSUME HistoryInv, NEW p \in Procs,
         \/ \E d \in Dates, t \in Targets \cup {NoTarget} : DailyBuild(p, d, t)
         \/ DailyLock(p) \/ DailyDropSummary(p) \/ DailyDropPending(p)
         \/ DailyFreezeFails(p) \/ DailyUnstage(p)
         \/ ExecDone(p) \/ ReconDone(p) \/ Refuse(p) \/ Fail(p)
  PROVE  StoresInv' /\ HolderInv(p)'
<1>0. TypeOK /\ LocalInv /\ StagesUndecided /\ StoresInv
  BY DEF HistoryInv, CommitInv, TypeInv
<1>1. UNCHANGED <<journal, canonical>>
  BY DEF DailyBuild, DailyLock, DailyDropSummary, DailyDropPending, DailyFreezeFails,
     DailyUnstage, ExecDone, ReconDone, Refuse, Fail, Stop, Tear
<1>2. /\ \A d \in Dates : pending'[d] \in {pending[d], None}
      /\ \A d \in Dates : DecidedIn(journal, d) => summary'[d] = summary[d]
  <2>1. CASE DailyDropSummary(p)
    BY <2>1, <1>0, Readings DEF DailyDropSummary, TypeOK
  <2>2. CASE DailyDropPending(p) \/ DailyFreezeFails(p)
    BY <2>2, <1>0 DEF DailyDropPending, DailyFreezeFails, TypeOK
  <2>3. CASE DailyUnstage(p)
    <3>1. ~DecidedIn(journal, draft[p].date)
      BY <2>3, <1>0, Readings DEF DailyUnstage, At, StagesUndecided, Staging, DailyLocked
    <3> QED
      BY <2>3, <3>1, <1>0 DEF DailyUnstage, TypeOK
  <2> QED
    BY <2>1, <2>2, <2>3
    DEF DailyBuild, DailyLock, ExecDone, ReconDone, Refuse, Fail, Stop, Tear
<1>3. pc'[p] \in {"built", "check", "drop", "admit", "unstage", "idle"}
  BY <1>0 DEF DailyBuild, DailyLock, DailyDropSummary, DailyDropPending, DailyFreezeFails,
     DailyUnstage, ExecDone, ReconDone, Refuse, Fail, Stop, Tear, Leave, Goto, TypeOK
<1>4. HolderInv(p)'
  BY <1>3, NothingHeld DEF Admitted, Trading
<1>5. StoresInv'
  BY <1>0, <1>1, <1>2, StoresAfterDiscard
<1> QED
  BY <1>4, <1>5

\* The admission and the staging of a clean date.
LEMMA DailyKeeps ==
  ASSUME HistoryInv, NEW p \in Procs,
         DailyAdmit(p) \/ DailyStage(p) \/ DailySummarise(p) \/ DailyFreeze(p)
  PROVE  StoresInv' /\ HolderInv(p)'
<1>0. TypeOK /\ LocalInv /\ StagesUndecided /\ StoresInv /\ HolderInv(p)
  BY DEF HistoryInv, CommitInv, TypeInv
<1>1. /\ pc[p] \in Staging /\ draft[p] \in Decisions
      /\ draft[p].date \in Dates /\ draft[p].base \in Nat
      /\ ~DecidedIn(journal, draft[p].date)
  <2>1. pc[p] \in Staging /\ pc[p] \in DailyLocked
    BY DEF DailyAdmit, DailyStage, DailySummarise, DailyFreeze, At, Staging, DailyLocked
  <2>2. draft[p] \in Decisions
    BY <2>1, <1>0 DEF LocalInv
  <2> QED
    BY <2>1, <2>2, <1>0, Readings DEF StagesUndecided, Decisions
<1>2. CASE DailyAdmit(p)
  <2>1. UNCHANGED <<draft, pending, summary, journal, canonical>>
    BY <1>2 DEF DailyAdmit
  <2>2. pc'[p] \in {"stage", "summarise"}
    BY <1>2, <1>0 DEF DailyAdmit, Goto, TypeOK
  <2>3. Admissible(draft[p])
    BY <1>2 DEF DailyAdmit
  <2>4. Clean(journal, canonical, draft[p].date) /\ Len(canonical) = draft[p].base
    BY <2>3, Readings
    DEF Admissible, SameDateFree, PriorResolved, Recoverable, Clean, UnusedIn, LedgerUpTo
  <2>5. StoresInv'
    BY <2>1, <1>0, StoresAfterDiscard
  <2>6. Clean(journal, canonical, draft[p].date)'
    BY <2>1, <2>4, <1>1, CleanKept
  <2>7. HolderInv(p)'
    BY <2>1, <2>2, <2>4, <2>6
    DEF HolderInv, AdmittedIsClean, ScanIsCertain, TradingIsExclusive, ReconIsClosed, Trading
  <2> QED
    BY <2>5, <2>7
<1>3. CASE DailyStage(p) \/ DailySummarise(p) \/ DailyFreeze(p)
  <2>1. Clean(journal, canonical, draft[p].date) /\ Len(canonical) = draft[p].base
    BY <1>3, <1>0 DEF DailyStage, DailySummarise, DailyFreeze, At, HolderInv,
       AdmittedIsClean, Admitted
  <2>2. CASE DailyStage(p)
    <3>1. UNCHANGED <<draft, summary, journal, canonical>> /\ pc'[p] = "summarise"
      BY <2>2, <1>0 DEF DailyStage, Goto, TypeOK
    <3>2. /\ pending'[draft[p].date] = draft[p]
          /\ \A e \in Dates \ {draft[p].date} : pending'[e] = pending[e]
      BY <2>2, <1>0, <1>1 DEF DailyStage, TypeOK
    <3>3. StoresInv' /\ Clean(journal, canonical, draft[p].date)'
      BY <3>1, <3>2, <2>1, <1>0, <1>1, StoresAfterStage
    <3>4. HolderInv(p)'
      BY <3>1, <3>3, <2>1
      DEF HolderInv, AdmittedIsClean, ScanIsCertain, TradingIsExclusive, ReconIsClosed, Trading
    <3> QED
      BY <3>3, <3>4
  <2>3. CASE DailySummarise(p)
    <3>1. UNCHANGED <<draft, pending, journal, canonical>> /\ pc'[p] = "freeze"
      BY <2>3, <1>0 DEF DailySummarise, Goto, TypeOK
    <3>2. /\ summary'[draft[p].date] = draft[p]
          /\ \A e \in Dates \ {draft[p].date} : summary'[e] = summary[e]
      BY <2>3, <1>0, <1>1 DEF DailySummarise, TypeOK
    <3>3. StoresInv'
      BY <3>1, <3>2, <1>0, <1>1, StoresAfterDiscard
    <3>4. Clean(journal, canonical, draft[p].date)'
      BY <3>1, <2>1, <1>1, CleanKept
    <3>5. HolderInv(p)'
      BY <3>1, <3>2, <3>4, <2>1
      DEF HolderInv, AdmittedIsClean, ScanIsCertain, TradingIsExclusive, ReconIsClosed, Trading
    <3> QED
      BY <3>3, <3>5
  <2>4. CASE DailyFreeze(p)
    <3>1. UNCHANGED <<pending, summary, canonical>> /\ pc'[p] = "idle"
      BY <2>4, <1>0 DEF DailyFreeze, Leave, TypeOK
    <3>2. summary[draft[p].date] = draft[p]
      BY <2>4, <1>0 DEF DailyFreeze, At, HolderInv, AdmittedIsClean
    <3>3. PICK r \in JournalRecords :
              /\ journal' = Append(journal, r)
              /\ r.status = "daily_decision_frozen" /\ r.signal = draft[p]
      <4>1. JournalAppend("daily_decision_frozen", draft[p], draft[p].date, draft[p].base)
        BY <2>4 DEF DailyFreeze
      <4>2. "daily_decision_frozen" \in Statuses
        BY DEF Statuses
      <4> QED
        BY <4>1, <4>2, <1>0, <1>1, RecordAppended
    <3>4. StoresInv'
      BY <3>1, <3>2, <3>3, <2>1, <1>0, <1>1, StoresAfterFreeze
    <3>5. HolderInv(p)'
      BY <3>1, NothingHeld DEF Admitted, Trading
    <3> QED
      BY <3>4, <3>5
  <2> QED
    BY <1>3, <2>2, <2>3, <2>4
<1> QED
  BY <1>2, <1>3

\* A target that was never started has no record on the ledger.
LEMMA UnstartedHasNoRecord ==
  ASSUME CommitInv, NEW s, ~StartIn(journal, s)
  PROVE  \A k \in DOMAIN canonical : canonical[k].signal # s
BY DEF CommitInv, LedgerCommitted, FrozenThenStarted, Precedes, StartIn, HasIn

\* While a frozen signal has not come to its end nothing is staged and no other waits.
LEMMA OneSignalWaits ==
  ASSUME StoresInv, NEW d \in Dates, pending[d] # None, ~EndIn(journal, pending[d]),
         HasIn(journal, pending[d], {"daily_decision_frozen"})
  PROVE  \A e \in Dates : pending[e] # None =>
             DecidedIn(journal, e) /\ (e # d => ~AwaitsIn(journal, pending[e]))
<1> SUFFICES ASSUME NEW e \in Dates, pending[e] # None
             PROVE  DecidedIn(journal, e) /\ (e # d => ~AwaitsIn(journal, pending[e]))
  OBVIOUS
<1>1. DecidedIn(journal, d)
  BY DEF StoresInv, PendingKeyed, HasIn, DecidedIn
<1>2. DecidedIn(journal, e)
  BY <1>1 DEF StoresInv, StagedIsClean, Clean, Dates
<1>3. e < d => EndIn(journal, pending[e])
  BY <1>1 DEF StoresInv, DecidedInOrder
<1>4. ~(d < e)
  BY <1>2 DEF StoresInv, DecidedInOrder
<1> QED
  BY <1>2, <1>3, <1>4 DEF AwaitsIn, Dates

\* A certain journal stays so when a missed session or the end of a settled job is added.
LEMMA CertainAppended ==
  ASSUME TypeOK, NEW r \in JournalRecords, journal' = Append(journal, r),
         r.status \in Terminals, r.status # "execution_indeterminate",
         ~EndIn(journal, r.signal),
         \A i \in DOMAIN journal :
             UncertainIn(journal, journal[i].signal) => journal[i].signal = r.signal
  PROVE  CertainIn(journal')
<1>1. /\ \A s, S : HasIn(journal', s, S) <=>
                       HasIn(journal, s, S) \/ (r.signal = s /\ r.status \in S)
      /\ \A i \in DOMAIN journal' : \/ i \in DOMAIN journal /\ journal'[i] = journal[i]
                                    \/ i \notin DOMAIN journal /\ journal'[i] = r
  BY JournalAppended
<1>2. ~UncertainIn(journal', r.signal)
  <2>1. EndIn(journal', r.signal)
    BY <1>1 DEF EndIn
  <2>2. ~HasIn(journal, r.signal, {"execution_indeterminate"})
    BY DEF EndIn, HasIn, Terminals
  <2>3. ~HasIn(journal', r.signal, {"execution_indeterminate"})
    BY <2>2, <1>1
  <2> QED
    BY <2>1, <2>3 DEF UncertainIn, DanglingIn
<1>3. ASSUME NEW s, s # r.signal, UncertainIn(journal', s) PROVE UncertainIn(journal, s)
  BY <1>1, <1>3 DEF UncertainIn, DanglingIn, StartIn, EndIn
<1>4. ASSUME NEW i \in DOMAIN journal' PROVE ~UncertainIn(journal', journal'[i].signal)
  <2>1. CASE journal'[i].signal = r.signal
    BY <2>1, <1>2
  <2>2. CASE journal'[i].signal # r.signal
    <3>1. i \in DOMAIN journal /\ journal'[i] = journal[i]
      BY <2>2, <1>1
    <3>2. ~UncertainIn(journal, journal[i].signal)
      BY <3>1, <2>2
    <3> QED
      BY <3>1, <3>2, <2>2, <1>3
  <2> QED
    BY <2>1, <2>2
<1> QED
  BY <1>4 DEF CertainIn

\* The executor's scan: sessions it missed, and the one it starts.
LEMMA ScanKeeps ==
  ASSUME HistoryInv, NEW p \in Procs, NEW d \in Dates,
         ExecMissed(p, d) \/ \E n \in 0..MaxOrders : ExecStart(p, d, n)
  PROVE  StoresInv' /\ HolderInv(p)'
<1>0. TypeOK /\ LocalInv /\ CommitInv /\ StoresInv /\ HolderInv(p)
  BY DEF HistoryInv, CommitInv, TypeInv
<1>1. /\ pc[p] = "scan" /\ pending[d] # None
      /\ Committed(pending[d]) /\ ~Dangling(pending[d]) /\ ~Terminal(pending[d])
  BY DEF ExecMissed, ExecStart, At, Turn, Waiting
<1>2. /\ ~EndIn(journal, pending[d]) /\ ~StartIn(journal, pending[d])
      /\ HasIn(journal, pending[d], {"daily_decision_frozen"})
      /\ Len(canonical) = pending[d].base
  BY <1>1, Readings DEF Dangling, Committed, Has, HasIn
<1>3. CertainIn(journal) /\ work.asof \in Dates
  BY <1>0, <1>1 DEF HolderInv, ScanIsCertain, LocalInv
<1>4. \A k \in DOMAIN canonical : canonical[k].signal # pending[d]
  BY <1>0, <1>2, UnstartedHasNoRecord
<1>5. \A e \in Dates : pending[e] # None =>
          DecidedIn(journal, e) /\ (e # d => ~AwaitsIn(journal, pending[e]))
  BY <1>0, <1>1, <1>2, OneSignalWaits
<1>6. /\ pending[d] \in Signals /\ pending[d] \in Decisions /\ pending[d].date = d
      /\ Len(canonical) \in Nat /\ DOMAIN canonical = 1..Len(canonical)
  BY <1>0, <1>1, SignalsAreDecisions DEF TypeOK, StoresInv, PendingKeyed
<1>7. CASE ExecMissed(p, d)
  <2>1. UNCHANGED <<pc, canonical, pending, summary>>
    BY <1>7 DEF ExecMissed
  <2>2. PICK r \in JournalRecords :
            /\ journal' = Append(journal, r)
            /\ r.status = "missed_execution_session" /\ r.signal = pending[d]
            /\ r.before = Len(canonical) /\ r.after = Len(canonical)
    <3>1. PICK n \in Dates :
              JournalAppend("missed_execution_session", pending[d], n, Len(canonical))
      BY <1>7 DEF ExecMissed
    <3>2. "missed_execution_session" \in Statuses
      BY DEF Statuses, Terminals
    <3> QED
      BY <3>1, <3>2, <1>0, <1>6, RecordAppended
  <2>3. r.status \in Terminals
    BY <2>2 DEF Terminals
  <2>4. ReceiptIn(canonical, r)
    BY <2>2, <1>4, <1>6 DEF ReceiptIn
  <2>5. StoresInv'
    BY <2>1, <2>2, <2>4, <1>0, <1>5, StoresAfterRecord
  <2>6. CertainIn(journal')
    <3>1. \A i \in DOMAIN journal : ~UncertainIn(journal, journal[i].signal)
      BY <1>3 DEF CertainIn
    <3>2. r.status # "execution_indeterminate" /\ ~EndIn(journal, r.signal)
      BY <2>2, <1>2
    <3> QED
      BY <3>1, <3>2, <2>2, <2>3, <1>0, CertainAppended
  <2>7. HolderInv(p)'
    BY <2>1, <2>6, <1>1 DEF HolderInv, AdmittedIsClean, Admitted, ScanIsCertain,
       TradingIsExclusive, Trading, ReconIsClosed
  <2> QED
    BY <2>5, <2>7
<1>8. ASSUME NEW n \in 0..MaxOrders, ExecStart(p, d, n) PROVE StoresInv' /\ HolderInv(p)'
  <2>1. UNCHANGED <<canonical, pending, summary>> /\ pc'[p] = "trade"
    BY <1>8, <1>0 DEF ExecStart, Goto, TypeOK
  <2>2. PICK r \in JournalRecords :
            /\ journal' = Append(journal, r)
            /\ r.status = "execution_started" /\ r.signal = pending[d]
            /\ r.before = Len(canonical)
    <3>1. JournalAppend("execution_started", pending[d], work.asof, Len(canonical))
      BY <1>8 DEF ExecStart
    <3>2. "execution_started" \in Statuses
      BY DEF Statuses
    <3> QED
      BY <3>1, <3>2, <1>0, <1>3, <1>6, RecordAppended
  <2>3. r.status # "daily_decision_frozen" /\ r.status \notin Terminals
    BY <2>2 DEF Terminals
  <2>4. StoresInv'
    BY <2>1, <2>2, <2>3, <1>0, <1>4, <1>5, StoresAfterRecord
  <2>5. /\ work'.job = pending[d] /\ work'.before = Len(canonical) /\ work'.asof = work.asof
        /\ work'.orders = n /\ work'.sent = 0
    BY <1>8, <1>0 DEF ExecStart, TypeOK, Works
  <2>6. d < work.asof /\ LedgerUpTo(canonical, work.asof)
    BY <1>8 DEF ExecStart, IsNextSession, Recoverable, LedgerUpTo
  <2>7. /\ \A s, S : HasIn(journal', s, S) <=>
                         HasIn(journal, s, S) \/ (r.signal = s /\ r.status \in S)
        /\ \A e : DecidedIn(journal', e) <=> DecidedIn(journal, e)
        /\ \A i \in DOMAIN journal' : \/ i \in DOMAIN journal /\ journal'[i] = journal[i]
                                      \/ i \notin DOMAIN journal /\ journal'[i] = r
    BY <2>2, <2>3, <1>0, JournalAppended
  <2>8. JobIsAlone'
    <3>1. StartIn(journal', pending[d]) /\ ~EndIn(journal', pending[d])
      BY <2>2, <2>3, <2>7, <1>2 DEF StartIn, EndIn
    <3>2. ASSUME NEW i \in DOMAIN journal', UncertainIn(journal', journal'[i].signal)
          PROVE  journal'[i].signal = pending[d]
      <4> SUFFICES ASSUME journal'[i].signal # pending[d] PROVE FALSE
        OBVIOUS
      <4>1. UncertainIn(journal, journal'[i].signal)
        BY <3>2, <2>2, <2>7 DEF UncertainIn, DanglingIn, StartIn, EndIn
      <4> QED
        BY <4>1, <1>3, CertainOfAll
    <3>3. ASSUME NEW e \in Dates, pending[e] # None
          PROVE  DecidedIn(journal', e) /\ ~AwaitsIn(journal', pending[e])
      <4>1. CASE e = d
        BY <4>1, <3>1, <3>3, <2>7, <1>5 DEF AwaitsIn
      <4>2. CASE e # d
        <5>1. AwaitsIn(journal', pending[e]) => AwaitsIn(journal, pending[e])
          BY <2>3, <2>7 DEF AwaitsIn, StartIn, EndIn
        <5> QED
          BY <5>1, <4>2, <3>3, <2>7, <1>5
      <4> QED
        BY <4>1, <4>2
    <3> QED
      BY <3>1, <3>2, <3>3, <2>1, <2>5, <2>6, <1>6 DEF JobIsAlone, DanglingIn
  <2>9. JobIsBehindItsBase'
    <3>1. LedgerUpTo(canonical', work'.asof)
      BY <2>1, <2>5, <2>6
    <3>2. \A k \in DOMAIN canonical : ~(Len(canonical) < k)
      BY <1>6
    <3>3. work'.sent <= work'.orders
      BY <2>5, BoundsAssumption
    <3> QED
      BY <3>1, <3>2, <3>3, <2>1, <2>5, <1>2, <1>4, <1>6 DEF JobIsBehindItsBase
  <2>10. HolderInv(p)'
    BY <2>1, <2>8, <2>9 DEF HolderInv, AdmittedIsClean, Admitted, ScanIsCertain,
       TradingIsExclusive, ReconIsClosed
  <2> QED
    BY <2>4, <2>10
<1> QED
  BY <1>7, <1>8

\* One more event of the job keeps what the executor relies on.
LEMMA JobAfterTrade ==
  ASSUME TypeOK, JobIsAlone, JobIsBehindItsBase, work.asof \in Dates, work.sent \in Nat,
         NEW x \in CanonicalRecords, canonical' = Append(canonical, x),
         x.signal = work.job, x.date \in {work.asof, NoDate}, x.order \in 1..work'.sent,
         UNCHANGED <<journal, pending>>, work'.sent \in {work.sent, work.sent + 1},
         work'.sent <= work'.orders,
         work'.job = work.job, work'.asof = work.asof, work'.before = work.before
  PROVE  JobIsAlone' /\ JobIsBehindItsBase'
<1>1. /\ Len(canonical) \in Nat /\ Len(canonical') = Len(canonical) + 1
      /\ \A k \in DOMAIN canonical : canonical'[k] = canonical[k]
      /\ canonical'[Len(canonical) + 1] = x
  BY LedgerAppended
<1>2. \A k \in DOMAIN canonical' : k \in DOMAIN canonical \/ k = Len(canonical) + 1
  BY LedgerAppended
<1>3. JobIsAlone'
  BY DEF JobIsAlone
<1>4. work.before \in Nat
  BY DEF TypeOK, Works
<1>5. x.date <= work.asof
  BY DEF Dates, NoDate
<1>6. LedgerUpTo(canonical', work'.asof)
  BY <1>1, <1>2, <1>5 DEF JobIsBehindItsBase, LedgerUpTo
<1>7. work.before <= Len(canonical') /\ work.before < Len(canonical) + 1
  BY <1>1, <1>4 DEF JobIsBehindItsBase
<1>8. \A k \in DOMAIN canonical' : canonical'[k].signal = work.job <=> work.before < k
  BY <1>1, <1>2, <1>7 DEF JobIsBehindItsBase
<1>9. \A k \in DOMAIN canonical' : work.before < k => canonical'[k].order \in 1..work'.sent
  <2>1. 1..work.sent \subseteq 1..work'.sent
    OBVIOUS
  <2> QED
    BY <2>1, <1>1, <1>2 DEF JobIsBehindItsBase
<1> QED
  BY <1>3, <1>6, <1>7, <1>8, <1>9 DEF JobIsBehindItsBase

LEMMA EventAppended ==
  ASSUME work.job \in Signals, NEW o \in Nat,
         NEW k \in {"open", "partial", "fill", "reject", "cancel"},
         NEW d \in Dates \cup {NoDate}, CanonicalAppend(o, k, d)
  PROVE  \E x \in CanonicalRecords :
             /\ canonical' = Append(canonical, x)
             /\ x.signal = work.job /\ x.order = o /\ x.date = d
<1> DEFINE x == [signal |-> work.job, order |-> o, date |-> d, kind |-> k]
<1>1. x \in CanonicalRecords
  BY DEF CanonicalRecords
<1>2. canonical' = Append(canonical, x)
  BY DEF CanonicalAppend
<1> QED
  BY <1>1, <1>2

LEMMA TradesKeep ==
  ASSUME HistoryInv, NEW p \in Procs,
         \/ ExecOpen(p) \/ ExecRest(p)
         \/ \E kind \in {"fill", "partial", "reject"} : ExecVenue(p, kind)
         \/ \E o \in 1..work.orders : ExecCancel(p, o)
  PROVE  StoresInv' /\ HolderInv(p)'
<1>0. TypeOK /\ LocalInv /\ StoresInv /\ HolderInv(p)
  BY DEF HistoryInv, CommitInv, TypeInv
<1>1. /\ pc[p] \in Trading /\ work.job \in Signals /\ work.asof \in Dates
      /\ work.sent \in Nat /\ work.orders \in Nat
  BY <1>0 DEF ExecOpen, ExecRest, ExecVenue, ExecCancel, At, Trading, LocalInv, TypeOK, Works
<1>2. JobIsAlone /\ JobIsBehindItsBase /\ (pc[p] = "venue" => work.sent >= 1)
  BY <1>0, <1>1 DEF HolderInv, TradingIsExclusive
<1>3. UNCHANGED <<journal, pending, summary>> /\ pc'[p] \in Trading
  BY <1>0 DEF ExecOpen, ExecRest, ExecVenue, ExecCancel, At, Goto, TypeOK, Trading
<1>4. SUFFICES StoresInv' /\ JobIsAlone' /\ JobIsBehindItsBase'
               /\ (pc'[p] = "venue" => work'.sent >= 1)
  BY <1>3 DEF HolderInv, AdmittedIsClean, Admitted, ScanIsCertain, TradingIsExclusive,
     ReconIsClosed, Trading
<1>5. CASE ExecRest(p)
  <2>1. UNCHANGED <<canonical, work>> /\ pc'[p] = "trade"
    BY <1>5, <1>0 DEF ExecRest, Goto, TypeOK
  <2>2. StoresInv'
    BY <2>1, <1>0, <1>3, StoresAfterDiscard
  <2>3. JobIsAlone' /\ JobIsBehindItsBase'
    BY <2>1, <1>2, <1>3 DEF JobIsAlone, JobIsBehindItsBase
  <2> QED
    BY <2>1, <2>2, <2>3
<1>6. ASSUME NEW o \in Nat, NEW k \in {"open", "partial", "fill", "reject", "cancel"},
             NEW d \in {work.asof, NoDate}, CanonicalAppend(o, k, d),
             o \in 1..work'.sent, work'.sent \in {work.sent, work.sent + 1},
             work'.sent <= work'.orders, work'.job = work.job, work'.asof = work.asof,
             work'.before = work.before
      PROVE  StoresInv' /\ JobIsAlone' /\ JobIsBehindItsBase'
  <2>1. d \in Dates \cup {NoDate}
    BY <1>1
  <2>2. PICK x \in CanonicalRecords :
            /\ canonical' = Append(canonical, x)
            /\ x.signal = work.job /\ x.order = o /\ x.date = d
    BY <2>1, <1>1, <1>6, EventAppended
  <2>3. StoresInv'
    BY <2>2, <1>0, <1>1, <1>2, <1>3, StoresAfterTrade
  <2>4. JobIsAlone' /\ JobIsBehindItsBase'
    BY <2>2, <1>0, <1>1, <1>2, <1>3, <1>6, JobAfterTrade
  <2> QED
    BY <2>3, <2>4
<1>7. CASE ExecOpen(p)
  <2>1. /\ work'.sent = work.sent + 1 /\ work'.orders = work.orders
        /\ work'.job = work.job /\ work'.asof = work.asof /\ work'.before = work.before
    BY <1>7, <1>0 DEF ExecOpen, TypeOK, Works
  <2>2. CanonicalAppend(work.sent + 1, "open", work.asof) /\ work.sent < work.orders
    BY <1>7 DEF ExecOpen
  <2>3. work.sent + 1 \in 1..work'.sent /\ work'.sent <= work'.orders /\ work'.sent >= 1
    BY <2>1, <2>2, <1>1
  <2>4. work.sent + 1 \in Nat
    BY <1>1
  <2> QED
    BY <2>1, <2>2, <2>3, <2>4, <1>6
<1>8. ASSUME NEW kind \in {"fill", "partial", "reject"}, ExecVenue(p, kind)
      PROVE  StoresInv' /\ JobIsAlone' /\ JobIsBehindItsBase'
             /\ (pc'[p] = "venue" => work'.sent >= 1)
  <2>1. /\ work'.sent = work.sent /\ work'.orders = work.orders
        /\ work'.job = work.job /\ work'.asof = work.asof /\ work'.before = work.before
    BY <1>8, <1>0 DEF ExecVenue, TypeOK, Works
  <2>2. CanonicalAppend(work.sent, kind, work.asof) /\ pc[p] = "venue"
    BY <1>8 DEF ExecVenue, At
  <2>3. work.sent \in 1..work'.sent /\ work'.sent <= work'.orders /\ work'.sent >= 1
    BY <2>1, <2>2, <1>1, <1>2 DEF JobIsBehindItsBase
  <2> QED
    BY <2>1, <2>2, <2>3, <1>1, <1>6
<1>9. ASSUME NEW o \in 1..work.orders, ExecCancel(p, o)
      PROVE  StoresInv' /\ JobIsAlone' /\ JobIsBehindItsBase'
             /\ (pc'[p] = "venue" => work'.sent >= 1)
  <2>1. work' = work /\ pc'[p] = "trade"
    BY <1>9 DEF ExecCancel, At
  <2>2. CanonicalAppend(o, "cancel", NoDate) /\ work.sent = work.orders
    BY <1>9 DEF ExecCancel
  <2>3. o \in Nat /\ o \in 1..work'.sent /\ work'.sent <= work'.orders
    BY <2>1, <2>2, <1>1
  <2> QED
    BY <2>1, <2>2, <2>3, <1>6
<1> QED
  BY <1>5, <1>7, <1>8, <1>9

\* The end of the job.
LEMMA SealKeeps ==
  ASSUME HistoryInv, NEW p \in Procs, ExecSeal(p)
  PROVE  StoresInv' /\ HolderInv(p)'
<1>0. TypeOK /\ LocalInv /\ StoresInv /\ HolderInv(p)
  BY DEF HistoryInv, CommitInv, TypeInv
<1>1. /\ pc[p] \in Trading /\ work.job \in Decisions /\ work.asof \in Dates
      /\ work.before \in Nat /\ work.sent = work.orders
      /\ Len(canonical) \in Nat /\ DOMAIN canonical = 1..Len(canonical)
  BY <1>0, SignalsAreDecisions DEF ExecSeal, At, Trading, LocalInv, TypeOK, Works
<1>2. JobIsAlone /\ JobIsBehindItsBase
  BY <1>0, <1>1 DEF HolderInv, TradingIsExclusive
<1>3. UNCHANGED <<canonical, pending, summary>> /\ pc'[p] = "scan"
  BY <1>0 DEF ExecSeal, Goto, TypeOK
<1>4. PICK r \in JournalRecords :
          /\ journal' = Append(journal, r)
          /\ r.status \in {"execution_observed", "execution_blocked"}
          /\ r.signal = work.job /\ r.before = work.before /\ r.after = Len(canonical)
  <2>1. JournalAppend(Outcome, work.job, work.asof, work.before)
    BY DEF ExecSeal
  <2>2. Outcome \in {"execution_observed", "execution_blocked"}
    BY DEF Outcome
  <2>3. Outcome \in Statuses
    BY <2>2 DEF Statuses, Terminals
  <2> QED
    BY <2>1, <2>2, <2>3, <1>0, <1>1, RecordAppended
<1>5. /\ r.status \in Terminals /\ r.status # "execution_indeterminate"
      /\ r.status # "daily_decision_frozen" /\ r.status # "execution_started"
  BY <1>4 DEF Terminals
<1>6. ReceiptIn(canonical, r)
  <2>1. \A o \in 1..work.orders : ~OpenIn(canonical, work.job, o)
    BY Readings DEF ExecSeal
  <2>2. \A k \in DOMAIN canonical : canonical[k].signal = work.job =>
            work.before < k /\ canonical[k].order \in 1..work.orders
    BY <1>1, <1>2 DEF JobIsBehindItsBase
  <2>3. \A k \in DOMAIN canonical : canonical[k].signal = work.job <=>
            work.before < k /\ k <= Len(canonical)
    BY <1>1, <1>2 DEF JobIsBehindItsBase
  <2>4. work.before <= Len(canonical)
    BY <1>2 DEF JobIsBehindItsBase
  <2> QED
    BY <2>1, <2>2, <2>3, <2>4, <1>1, <1>4 DEF ReceiptIn
<1>7. \A d \in Dates : pending[d] # None => DecidedIn(journal, d)
  BY <1>2 DEF JobIsAlone
<1>8. StoresInv'
  BY <1>0, <1>3, <1>4, <1>5, <1>6, <1>7, StoresAfterRecord
<1>9. CertainIn(journal')
  <2>1. ~EndIn(journal, r.signal)
    BY <1>2, <1>4 DEF JobIsAlone, DanglingIn
  <2>2. \A i \in DOMAIN journal :
            UncertainIn(journal, journal[i].signal) => journal[i].signal = r.signal
    BY <1>2, <1>4 DEF JobIsAlone
  <2> QED
    BY <2>1, <2>2, <1>0, <1>4, <1>5, CertainAppended
<1>10. HolderInv(p)'
  BY <1>3, <1>9 DEF HolderInv, AdmittedIsClean, Admitted, ScanIsCertain,
     TradingIsExclusive, Trading, ReconIsClosed
<1> QED
  BY <1>8, <1>10

\* The executor and the operator enter.
LEMMA LocksKeep ==
  ASSUME HistoryInv, NEW p \in Procs, NEW d \in Dates,
         (\E S \in SUBSET Dates : ExecLock(p, d, S)) \/ ReconLock(p, d)
  PROVE  StoresInv' /\ HolderInv(p)'
<1>0. TypeOK /\ StoresInv
  BY DEF HistoryInv, CommitInv, TypeInv
<1>1. UNCHANGED <<pending, summary, journal, canonical>>
  BY DEF ExecLock, ReconLock
<1>2. StoresInv'
  BY <1>0, <1>1, StoresAfterDiscard
<1>3. ASSUME NEW S \in SUBSET Dates, ExecLock(p, d, S) PROVE HolderInv(p)'
  <2>1. pc'[p] = "scan" /\ CertainIn(journal)
    BY <1>0, <1>3, Readings DEF ExecLock, Goto, TypeOK
  <2> QED
    BY <2>1, <1>1 DEF HolderInv, AdmittedIsClean, Admitted, ScanIsCertain,
       TradingIsExclusive, Trading, ReconIsClosed
<1>4. CASE ReconLock(p, d)
  <2>1. pc'[p] = "recon"
    BY <1>0, <1>4 DEF ReconLock, Goto, TypeOK
  <2>2. NoOpenOrders
    BY <1>4 DEF ReconLock, Recoverable
  <2>3. ClosedIn(canonical)
    BY <2>2, Readings
  <2> QED
    BY <2>1, <2>3, <1>1, <1>2 DEF HolderInv, AdmittedIsClean, Admitted, ScanIsCertain,
       TradingIsExclusive, Trading, ReconIsClosed
<1> QED
  BY <1>2, <1>3, <1>4

\* The operator seals what dangles and clears what is indeterminate.
LEMMA ReconKeeps ==
  ASSUME HistoryInv, NEW p \in Procs, NEW i \in DOMAIN journal,
         ReconSeal(p, i) \/ ReconClear(p, i)
  PROVE  StoresInv' /\ HolderInv(p)'
<1> DEFINE s == journal[i].signal
<1>0. TypeOK /\ StoresInv /\ HolderInv(p)
  BY DEF HistoryInv, CommitInv, TypeInv
<1>1. /\ UNCHANGED <<pc, canonical, pending, summary>> /\ pc[p] = "recon"
      /\ ClosedIn(canonical)
  BY <1>0 DEF ReconSeal, ReconClear, At, HolderInv, ReconIsClosed
<1>2. /\ s \in Decisions /\ journal[i].exec \in Dates /\ journal[i].before \in Nat
      /\ Len(canonical) \in Nat /\ DOMAIN canonical = 1..Len(canonical)
  <2>1. journal[i] \in JournalRecords
    BY <1>0 DEF TypeOK
  <2> QED
    BY <2>1, <1>0, RecordTyped DEF TypeOK
<1>3. UncertainIn(journal, s)
  <2>1. CASE ReconSeal(p, i)
    <3>1. StartIn(journal, s) /\ ~EndIn(journal, s)
      BY <2>1, Readings DEF ReconSeal, StartIn, HasIn
    <3> QED
      BY <3>1 DEF UncertainIn, DanglingIn
  <2>2. CASE ReconClear(p, i)
    BY <2>2 DEF ReconClear, Reconciled, Has, UncertainIn, HasIn
  <2> QED
    BY <2>1, <2>2
<1>4. \A d \in Dates : pending[d] # None => DecidedIn(journal, d)
  <2> SUFFICES ASSUME NEW d \in Dates, pending[d] # None, ~DecidedIn(journal, d)
               PROVE  FALSE
    OBVIOUS
  <2>1. CertainIn(journal)
    BY <1>0 DEF StoresInv, StagedIsClean, Clean
  <2> QED
    BY <2>1, <1>3 DEF CertainIn
<1>5. HolderInv(p)'
  BY <1>1 DEF HolderInv, AdmittedIsClean, Admitted, ScanIsCertain,
     TradingIsExclusive, Trading, ReconIsClosed
<1>6. CASE ReconSeal(p, i)
  <2>1. PICK r \in JournalRecords :
            /\ journal' = Append(journal, r)
            /\ r.status = "execution_indeterminate" /\ r.signal = s
            /\ r.before = journal[i].before /\ r.after = Len(canonical)
    <3>1. JournalAppend("execution_indeterminate", s, journal[i].exec, journal[i].before)
      BY <1>6 DEF ReconSeal
    <3>2. "execution_indeterminate" \in Statuses
      BY DEF Statuses, Terminals
    <3> QED
      BY <3>1, <3>2, <1>0, <1>2, RecordAppended
  <2>2. ReceiptIn(canonical, r)
    <3>1. journal[i].status = "execution_started" /\ DanglingIn(journal, s)
      BY <1>6, Readings DEF ReconSeal, DanglingIn, StartIn, HasIn
    <3>2. /\ journal[i].before <= Len(canonical)
          /\ \A k \in DOMAIN canonical : canonical[k].signal = s <=> journal[i].before < k
      BY <3>1, <1>0 DEF StoresInv, StartedFromPrefix
    <3>3. \A k \in DOMAIN canonical : canonical[k].signal = s =>
              ~OpenIn(canonical, s, canonical[k].order)
      BY <1>1 DEF ClosedIn
    <3> QED
      BY <3>2, <3>3, <2>1, <1>2 DEF ReceiptIn
  <2>3. StoresInv'
    BY <2>1, <2>2, <1>0, <1>1, <1>4, StoresAfterRecord
  <2> QED
    BY <2>3, <1>5
<1>7. CASE ReconClear(p, i)
  <2>1. PICK r \in JournalRecords :
            journal' = Append(journal, r) /\ r.status = "execution_reconciled"
    <3>1. JournalAppend("execution_reconciled", s, journal[i].exec, Len(canonical))
      BY <1>7 DEF ReconClear
    <3>2. "execution_reconciled" \in Statuses
      BY DEF Statuses
    <3> QED
      BY <3>1, <3>2, <1>0, <1>2, RecordAppended
  <2>2. r.status \notin Terminals
    BY <2>1 DEF Terminals
  <2>3. StoresInv'
    BY <2>1, <2>2, <1>0, <1>1, <1>4, StoresAfterRecord
  <2> QED
    BY <2>3, <1>5
<1> QED
  BY <1>6, <1>7

-----------------------------------------------------------------------------
(* The invariant *)

LEMMA HistoryInit == Init => HistoryInv
<1> SUFFICES ASSUME Init PROVE HistoryInv
  OBVIOUS
<1>1. CommitInv
  BY CommitInit
<1>2. DOMAIN journal = {} /\ DOMAIN canonical = {} /\ \A d \in Dates : pending[d] = None
  BY DEF Init
<1>3. StoresInv
  BY <1>2 DEF StoresInv, PendingKeyed, StagedIsClean, DecidedInOrder, AwaitingIsBound,
     StartedFromPrefix, Receipts, Blocks, Chronological
<1>4. \A p \in Procs : pc[p] = "idle"
  BY DEF Init
<1>5. \A p \in Procs : HolderInv(p)
  BY <1>4 DEF HolderInv, AdmittedIsClean, Admitted, ScanIsCertain, TradingIsExclusive,
     Trading, ReconIsClosed
<1> QED
  BY <1>1, <1>3, <1>5 DEF HistoryInv

\* What the holder relies on is untouched by the steps of everyone else.
LEMMA OthersWait ==
  ASSUME HistoryInv, NEW p \in Procs, Call(p) \/ Advance(p) \/ Fail(p), NEW q \in Procs \ {p}
  PROVE  HolderInv(q)'
<1>0. CommitInv /\ LocalInv /\ HolderInv(q)
  BY DEF HistoryInv, CommitInv, TypeInv
<1>1. StepShape(p)
  BY <1>0, StepsHaveShape
<1>2. pc'[q] = pc[q] /\ draft'[q] = draft[q]
  BY <1>1 DEF StepShape
<1>3. CASE pc[q] \in Locked
  <2>1. pc[p] \notin Locked
    BY <1>0, <1>3 DEF LocalInv
  <2>2. Trading \subseteq Locked /\ DailyLocked \subseteq Locked
    BY DEF Trading, DailyLocked, Locked, Steps
  <2>3. UNCHANGED <<journal, canonical, work, pending, summary>>
    BY <1>1, <1>3, <2>1, <2>2 DEF StepShape
  <2>4. Clean(journal, canonical, draft[q].date) => Clean(journal, canonical, draft[q].date)'
    BY <1>2, <2>3 DEF Clean
  <2>5. AdmittedIsClean(q)'
    BY <1>0, <1>2, <2>3, <2>4 DEF HolderInv, AdmittedIsClean
  <2>6. (JobIsAlone => JobIsAlone') /\ (JobIsBehindItsBase => JobIsBehindItsBase')
    BY <2>3 DEF JobIsAlone, JobIsBehindItsBase
  <2>7. TradingIsExclusive(q)' /\ ScanIsCertain(q)' /\ ReconIsClosed(q)'
    BY <1>0, <1>2, <2>3, <2>6 DEF HolderInv, TradingIsExclusive, ScanIsCertain, ReconIsClosed
  <2> QED
    BY <2>5, <2>7 DEF HolderInv
<1>4. CASE pc[q] \notin Locked
  <2>1. Admitted \cup Trading \cup {"scan", "recon"} \subseteq Locked
    BY DEF Admitted, Trading, Locked, Steps
  <2> QED
    BY <1>2, <1>4, <2>1, NothingHeld
<1> QED
  BY <1>3, <1>4

LEMMA HistoryNext == HistoryInv /\ [Next]_vars => HistoryInv'
<1> SUFFICES ASSUME HistoryInv, [Next]_vars PROVE HistoryInv'
  OBVIOUS
<1>1. CommitInv'
  BY CommitNext DEF HistoryInv
<1>2. CASE UNCHANGED vars
  <2>1. UNCHANGED <<pc, draft, work, pending, summary, journal, canonical>>
    BY <1>2 DEF vars
  <2>2. StoresInv'
    BY <2>1, StoresAfterDiscard DEF HistoryInv
  <2>3. \A d : Clean(journal, canonical, d) => Clean(journal, canonical, d)'
    BY <2>1 DEF Clean
  <2>4. \A p \in Procs : HolderInv(p)'
    BY <2>1, <2>3 DEF HistoryInv, HolderInv, AdmittedIsClean, ScanIsCertain,
       TradingIsExclusive, ReconIsClosed, JobIsAlone, JobIsBehindItsBase
  <2> QED
    BY <1>1, <2>2, <2>4 DEF HistoryInv
<1>3. ASSUME NEW p \in Procs, Call(p) \/ Advance(p) \/ Fail(p) PROVE HistoryInv'
  <2>1. StoresInv' /\ HolderInv(p)'
    BY <1>3, DiscardsKeep, DailyKeeps, ScanKeeps, TradesKeep, SealKeeps, LocksKeep, ReconKeeps
    DEF Call, Advance, DailyStep, ExecStep, ReconStep
  <2>2. \A q \in Procs \ {p} : HolderInv(q)'
    BY <1>3, OthersWait
  <2> QED
    BY <1>1, <2>1, <2>2 DEF HistoryInv
<1> QED
  BY <1>2, <1>3 DEF Next

LEMMA HistoryAlways == Spec => []HistoryInv
  BY HistoryInit, HistoryNext, PTL DEF Spec

-----------------------------------------------------------------------------
(* What it says *)

\* Decisions are frozen in date order, sessions reach the canonical ledger in date order,
\* and a target trades on a session after its signal date, whoever runs and dies in between
\* (_assert_prior_pending_signals_resolved, recover_from_canonical, _next_session).
THEOREM TimeRunsForward == Spec => []Chronological
<1>1. HistoryInv => Chronological
  BY DEF HistoryInv, StoresInv
<1> QED
  BY HistoryAlways, <1>1, PTL

\* Every terminal's receipt covers exactly the ledger records of its signal and leaves none
\* of its orders working (build_canonical_prefix_receipt, cancel_all_open), an execution
\* that an operator sealed after a crash included.
THEOREM TerminalsAreClosed == Spec => []ReceiptCoversExecution
<1>1. HistoryInv => ReceiptCoversExecution
  <2> SUFFICES ASSUME HistoryInv, NEW i \in DOMAIN journal, journal[i].status \in Terminals
               PROVE  /\ journal[i].before <= journal[i].after
                      /\ journal[i].after <= Len(canonical)
                      /\ \A k \in DOMAIN canonical : canonical[k].signal = journal[i].signal
                            <=> journal[i].before < k /\ k <= journal[i].after
                      /\ \A k \in DOMAIN canonical : canonical[k].signal = journal[i].signal
                            => ~IsOpen(journal[i].signal, canonical[k].order)
    BY DEF ReceiptCoversExecution
  <2>1. ReceiptIn(canonical, journal[i])
    BY DEF HistoryInv, StoresInv, Receipts
  <2> QED
    BY <2>1, Readings DEF ReceiptIn
<1> QED
  BY HistoryAlways, <1>1, PTL

\* A target trades the account it was computed from, as one block behind its base, and one
\* that waits is still bound to the whole ledger (_assert_account_snapshot_unchanged,
\* _verify_pending_daily_commit).
THEOREM SizedOnWhatItTrades == Spec => []TradesTheAccountItWasSizedOn
<1>1. HistoryInv => TradesTheAccountItWasSizedOn
  <2> SUFFICES ASSUME HistoryInv PROVE TradesTheAccountItWasSizedOn
    OBVIOUS
  <2>1. Blocks /\ AwaitingIsBound /\ PendingKeyed
    BY DEF HistoryInv, StoresInv
  <2>2. ASSUME NEW d \in Dates, pending[d] # None,
               Has(pending[d], {"daily_decision_frozen"}), ~Started(pending[d]),
               ~Terminal(pending[d])
        PROVE  ("canonical" \notin torn => Committed(pending[d])) /\ NoOpenOrders
    <3>1. AwaitsIn(journal, pending[d])
      BY <2>2, Readings DEF AwaitsIn, Has, HasIn
    <3>2. /\ ClosedIn(canonical) /\ summary[d] = pending[d]
          /\ Len(canonical) = pending[d].base /\ pending[d].date = d
      BY <2>1, <2>2, <3>1 DEF AwaitingIsBound, PendingKeyed
    <3> QED
      BY <2>2, <3>2, Readings DEF Committed
  <2> QED
    BY <2>1, <2>2 DEF TradesTheAccountItWasSizedOn, Blocks
<1> QED
  BY HistoryAlways, <1>1, PTL

\* A date that a crash left half staged passes every admission check of a new run: the
\* clean-up of _assert_current_signal_not_frozen cannot wedge the account.
THEOREM StagedNeverWedges == Spec => []StagedDateCanBeRerun
<1>1. HistoryInv => StagedDateCanBeRerun
  <2> SUFFICES ASSUME HistoryInv, torn = {}, NEW d \in Dates, pending[d] # None, ~Decided(d)
               PROVE  Admissible([date |-> d, target |-> NoTarget, base |-> Len(canonical)])
    BY DEF StagedDateCanBeRerun
  <2>1. Clean(journal, canonical, d)
    BY Readings DEF HistoryInv, StoresInv, StagedIsClean
  <2>2. JournalResolved /\ NoOpenOrders
    BY <2>1, Readings DEF Clean, CertainIn, JournalResolved, ReceiptsVerify
  <2>3. SameDateFree(d) /\ PriorResolved(d) /\ Recoverable(d)
    BY <2>1, <2>2, Readings
    DEF Clean, UnusedIn, LedgerUpTo, SameDateFree, PriorResolved, Recoverable
  <2> QED
    BY <2>3 DEF Admissible
<1> QED
  BY HistoryAlways, <1>1, PTL

\* The last record of a grown sequence is the appended one.
LEMMA LastAppended ==
  ASSUME NEW S, NEW s \in Seq(S), NEW r \in S
  PROVE  Append(s, r)[Len(Append(s, r))] = r
BY AppendFacts

\* The journal takes a record in an uncertain account only to end the uncertainty.
LEMMA JournalEndsUncertainty ==
  ASSUME HistoryInv, NEW p \in Procs, Call(p) \/ Advance(p) \/ Fail(p),
         journal' # journal, ~CertainIn(journal)
  PROVE  \E r \in JournalRecords :
             /\ journal' = Append(journal, r)
             /\ UncertainIn(journal, r.signal)
             /\ r.status \in {"execution_observed", "execution_blocked",
                              "execution_indeterminate", "execution_reconciled"}
<1>0. TypeOK /\ LocalInv /\ HolderInv(p)
  BY DEF HistoryInv, CommitInv, TypeInv
<1>1. pc[p] \notin Admitted /\ pc[p] # "scan"
  BY <1>0 DEF HolderInv, AdmittedIsClean, ScanIsCertain, Clean
<1>2. /\ ~DailyFreeze(p)
      /\ \A d \in Dates : ~ExecMissed(p, d) /\ \A n \in 0..MaxOrders : ~ExecStart(p, d, n)
  BY <1>1 DEF DailyFreeze, ExecMissed, ExecStart, At, Admitted
<1>3. ExecSeal(p) \/ \E i \in DOMAIN journal : ReconSeal(p, i) \/ ReconClear(p, i)
  BY <1>2 DEF Call, Advance, Fail, DailyStep, ExecStep, ReconStep,
     DailyBuild, DailyLock, DailyDropSummary, DailyDropPending, DailyAdmit, DailyStage,
     DailySummarise, DailyFreezeFails, DailyUnstage, ExecLock, ReconLock, ExecOpen,
     ExecRest, ExecVenue, ExecCancel, ExecDone, ReconDone, Refuse, Stop, Tear
<1>4. CASE ExecSeal(p)
  <2>1. /\ pc[p] \in Trading /\ work.job \in Decisions /\ work.asof \in Dates
        /\ work.before \in Nat
    BY <1>0, <1>4, SignalsAreDecisions DEF ExecSeal, At, Trading, LocalInv, TypeOK, Works
  <2>2. JournalAppend(Outcome, work.job, work.asof, work.before)
    BY <1>4 DEF ExecSeal
  <2>3. Outcome \in {"execution_observed", "execution_blocked"} /\ Outcome \in Statuses
    BY DEF Outcome, Statuses, Terminals
  <2>4. UncertainIn(journal, work.job)
    BY <1>0, <2>1 DEF HolderInv, TradingIsExclusive, JobIsAlone, UncertainIn
  <2>5. PICK r \in JournalRecords :
            journal' = Append(journal, r) /\ r.status = Outcome /\ r.signal = work.job
    BY <1>0, <2>1, <2>2, <2>3, RecordAppended
  <2> QED
    BY <2>3, <2>4, <2>5
<1>5. ASSUME NEW i \in DOMAIN journal, ReconSeal(p, i) \/ ReconClear(p, i)
      PROVE  \E r \in JournalRecords :
                 /\ journal' = Append(journal, r)
                 /\ UncertainIn(journal, r.signal)
                 /\ r.status \in {"execution_observed", "execution_blocked",
                                  "execution_indeterminate", "execution_reconciled"}
  <2>1. /\ journal[i].signal \in Decisions /\ journal[i].exec \in Dates
        /\ journal[i].before \in Nat /\ Len(canonical) \in Nat
    <3>1. journal[i] \in JournalRecords
      BY <1>0 DEF TypeOK
    <3> QED
      BY <3>1, <1>0, RecordTyped DEF TypeOK
  <2>2. UncertainIn(journal, journal[i].signal)
    <3>1. CASE ReconSeal(p, i)
      <4>1. StartIn(journal, journal[i].signal) /\ ~EndIn(journal, journal[i].signal)
        BY <3>1, Readings DEF ReconSeal, StartIn, HasIn
      <4> QED
        BY <4>1 DEF UncertainIn, DanglingIn
    <3>2. CASE ReconClear(p, i)
      BY <3>2 DEF ReconClear, Reconciled, Has, UncertainIn, HasIn
    <3> QED
      BY <1>5, <3>1, <3>2
  <2>3. \E b \in Nat, st \in {"execution_indeterminate", "execution_reconciled"} :
            JournalAppend(st, journal[i].signal, journal[i].exec, b)
    BY <1>5, <2>1 DEF ReconSeal, ReconClear
  <2>4. {"execution_indeterminate", "execution_reconciled"} \subseteq Statuses
    BY DEF Statuses, Terminals
  <2>5. PICK r \in JournalRecords :
            /\ journal' = Append(journal, r) /\ r.signal = journal[i].signal
            /\ r.status \in {"execution_indeterminate", "execution_reconciled"}
    BY <1>0, <2>1, <2>3, <2>4, RecordAppended
  <2> QED
    BY <2>2, <2>5
<1> QED
  BY <1>3, <1>4, <1>5

\* While the economics of an attempt are unknown the journal only takes the record that
\* ends the uncertainty, and the ledger only records of a started, unsealed attempt
\* (_assert_account_execution_state_resolved), whatever the processes try meanwhile.
THEOREM UncertaintyFreezes == Spec => UncertainAccountIsFrozen
<1>1. HistoryInv /\ [Next]_vars =>
        [ /\ journal' # journal /\ (\E i \in DOMAIN journal : Uncertain(journal[i].signal)) =>
              LET r == journal'[Len(journal')] IN
              /\ Uncertain(r.signal)
              /\ r.status \in {"execution_observed", "execution_blocked",
                               "execution_indeterminate", "execution_reconciled"}
          /\ canonical' # canonical => Dangling(canonical'[Len(canonical')].signal)
        ]_vars
  <2> SUFFICES ASSUME HistoryInv, Next
               PROVE
                 /\ journal' # journal
                    /\ (\E i \in DOMAIN journal : Uncertain(journal[i].signal)) =>
                      /\ Uncertain(journal'[Len(journal')].signal)
                      /\ journal'[Len(journal')].status \in
                           {"execution_observed", "execution_blocked",
                            "execution_indeterminate", "execution_reconciled"}
                 /\ canonical' # canonical => Dangling(canonical'[Len(canonical')].signal)
    OBVIOUS
  <2>0. TypeOK /\ CommitInv
    BY DEF HistoryInv, CommitInv, TypeInv
  <2>1. PICK p \in Procs : Call(p) \/ Advance(p) \/ Fail(p)
    BY DEF Next
  <2>2. ASSUME journal' # journal, NEW i \in DOMAIN journal, Uncertain(journal[i].signal)
        PROVE  /\ Uncertain(journal'[Len(journal')].signal)
               /\ journal'[Len(journal')].status \in
                      {"execution_observed", "execution_blocked",
                       "execution_indeterminate", "execution_reconciled"}
    <3>1. ~CertainIn(journal)
      BY <2>2, Readings DEF CertainIn
    <3>2. PICK r \in JournalRecords :
              /\ journal' = Append(journal, r)
              /\ UncertainIn(journal, r.signal)
              /\ r.status \in {"execution_observed", "execution_blocked",
                               "execution_indeterminate", "execution_reconciled"}
      BY <2>1, <2>2, <3>1, JournalEndsUncertainty
    <3>3. journal'[Len(journal')] = r
      BY <3>2, <2>0, LastAppended DEF TypeOK
    <3> QED
      BY <3>2, <3>3, Readings
  <2>3. ASSUME canonical' # canonical PROVE Dangling(canonical'[Len(canonical')].signal)
    <3>1. PICK x \in CanonicalRecords :
              pc[p] \in Trading /\ canonical' = Append(canonical, x) /\ x.signal = work.job
      BY <2>0, <2>1, <2>3, StepsHaveShape DEF StepShape
    <3>2. canonical'[Len(canonical')] = x
      BY <3>1, <2>0, LastAppended DEF TypeOK
    <3>3. DanglingIn(journal, work.job)
      BY <3>1 DEF HistoryInv, HolderInv, TradingIsExclusive, JobIsAlone
    <3> QED
      BY <3>1, <3>2, <3>3, Readings
  <2> QED
    BY <2>2, <2>3
<1> QED
  BY HistoryAlways, <1>1, PTL DEF Spec, UncertainAccountIsFrozen

=============================================================================
