---------------------------- MODULE PaperAccount ----------------------------
(***************************************************************************)
(* The crash-safe protocol of one paper account (src/quantagent/paper/):   *)
(*                                                                         *)
(*   daily_loop.run_once                      computes a target from the   *)
(*     account's state, outside the lock, then stages and freezes it;      *)
(*   continuous_execution.execute_pending_for_session                      *)
(*     trades every frozen target on the session that follows its signal;  *)
(*   continuous_execution.reconcile_indeterminate_account                  *)
(*     lets an operator close an execution that died half way.             *)
(*                                                                         *)
(* They are separate processes that share four durable stores: the pending *)
(* signals, the daily summaries, the hash-chained execution journal and    *)
(* the canonical ledger.  They serialise on the account lock, taken here   *)
(* as the mutex AccountLock implements once the ledger file exists.  A     *)
(* process may raise or die between any two durable writes, and in the     *)
(* middle of an append, which leaves a torn last line.                     *)
(*                                                                         *)
(* A hash stands for the content it digests, so a signal is its content    *)
(* and the digest of a ledger prefix is the prefix's length: nothing edits *)
(* a ledger in place.                                                      *)
(***************************************************************************)
EXTENDS Integers, Sequences, FiniteSets

CONSTANTS
    Procs,      \* processes that run the three entry points
    Targets,    \* distinguishable target-weight vectors
    NoTarget,   \* portfolio construction produced no target
    None,       \* "nobody", and "no file"
    MaxDate,    \* bound: signal and session dates are 1..MaxDate
    MaxOrders   \* bound: orders one execution may send

ASSUME BoundsAssumption == MaxDate \in Nat /\ MaxOrders \in Nat
ASSUME NoneAssumption == None \notin Procs
ASSUME TargetsAssumption == NoTarget \notin Targets

VARIABLES
    lock,       \* who is inside paper_account_lock
    pc,         \* per process: its next step
    draft,      \* per process: the decision it computed outside the lock
    work,       \* locals of the executor or reconciler inside the lock
    pending,    \* per date: the pending-signal artifact
    summary,    \* per date: daily_loop_summary.json
    journal,    \* execution journal, a sequence of records
    canonical,  \* canonical ledger, a sequence of records
    torn        \* ledgers whose last line a crash cut short

vars == <<lock, pc, draft, work, pending, summary, journal, canonical, torn>>

-----------------------------------------------------------------------------

Dates == 1..MaxDate
NoDate == 0

\* What run_once decides for one date: a target, or its absence, computed from
\* the account as it stood after `base` canonical records.
Decisions == [date : Dates, target : Targets \cup {NoTarget}, base : Nat]
Signals == {s \in Decisions : s.target \in Targets}

\* TERMINAL_OUTCOMES of the journal.
Terminals == {"execution_observed", "execution_blocked",
              "missed_execution_session", "execution_indeterminate"}
Statuses == Terminals \cup
    {"daily_decision_frozen", "execution_started", "execution_reconciled"}

\* before..after is the canonical prefix receipt the record's details carry.
JournalRecords == [status : Statuses, signal : Decisions, exec : Dates,
                   before : Nat, after : Nat]

\* One record stands for the lifecycle events that leave an order in the same
\* economic state: "open" for CREATED to ACCEPTED, "partial" for PARTIAL_FILL,
\* and the three ways an order ends.
CanonicalRecords == [signal : Signals, order : Nat, date : Dates \cup {NoDate},
                     kind : {"open", "partial", "fill", "reject", "cancel"}]

Steps == {"idle", "built", "check", "drop", "admit", "stage", "summarise",
          "freeze", "unstage", "scan", "trade", "venue", "recon"}
Locked == Steps \ {"idle", "built"}

NoWork == [asof |-> NoDate, sessions |-> {}, job |-> None, before |-> 0,
           orders |-> 0, sent |-> 0, rejected |-> 0]

Works == [asof : Dates \cup {NoDate}, sessions : SUBSET Dates,
          job : Signals \cup {None}, before : Nat,
          orders : Nat, sent : Nat, rejected : Nat]

\* Every store holds what its readers expect to parse.
TypeOK ==
    /\ lock \in Procs \cup {None}
    /\ pc \in [Procs -> Steps]
    /\ draft \in [Procs -> Decisions \cup {None}]
    /\ work \in Works
    /\ pending \in [Dates -> Signals \cup {None}]
    /\ summary \in [Dates -> Decisions \cup {None}]
    /\ journal \in Seq(JournalRecords)
    /\ canonical \in Seq(CanonicalRecords)
    /\ torn \in SUBSET {"journal", "canonical"}

Init ==
    /\ lock = None
    /\ pc = [p \in Procs |-> "idle"]
    /\ draft = [p \in Procs |-> None]
    /\ work = NoWork
    /\ pending = [d \in Dates |-> None]
    /\ summary = [d \in Dates |-> None]
    /\ journal = <<>>
    /\ canonical = <<>>
    /\ torn = {}

-----------------------------------------------------------------------------
(* Reading the stores *)

Has(s, statuses) ==
    \E i \in DOMAIN journal : journal[i].signal = s /\ journal[i].status \in statuses

Terminal(s) == Has(s, Terminals)
Started(s) == Has(s, {"execution_started"})
Reconciled(s) == Has(s, {"execution_reconciled"})
Indeterminate(s) == Has(s, {"execution_indeterminate"})

Decided(d) == \E i \in DOMAIN journal :
    journal[i].status = "daily_decision_frozen" /\ journal[i].signal.date = d

\* An attempt whose economics are unknown: started and never sealed, or sealed
\* as indeterminate and never reconciled.
Dangling(s) == Started(s) /\ ~Terminal(s)
Uncertain(s) == Dangling(s) \/ (Indeterminate(s) /\ ~Reconciled(s))

\* (mutant) Only dangling starts freeze the account.
JournalResolvedIfSealed == \A i \in DOMAIN journal : ~Dangling(journal[i].signal)

\* The receipt of every terminal is verified again, over the whole ledger, which a torn
\* tail refuses (_verify_terminal_canonical_binding).
ReceiptsVerify ==
    (\E i \in DOMAIN journal : journal[i].status \in Terminals) => "canonical" \notin torn

\* _assert_account_execution_state_resolved and _assert_execution_journal_resolved
JournalResolved ==
    /\ \A i \in DOMAIN journal : ~Uncertain(journal[i].signal)
    /\ ReceiptsVerify

Closed == {"fill", "reject", "cancel"}
IsOpen(s, o) ==
    /\ \E k \in DOMAIN canonical : canonical[k].signal = s /\ canonical[k].order = o
    /\ \A k \in DOMAIN canonical :
           canonical[k].signal = s /\ canonical[k].order = o => canonical[k].kind \notin Closed
NoOpenOrders ==
    \A k \in DOMAIN canonical : ~IsOpen(canonical[k].signal, canonical[k].order)

\* recover_from_canonical plus the callers' open-order test: the replay may not
\* precede the newest session on the ledger.
Recoverable(asof) ==
    /\ NoOpenOrders
    /\ \A k \in DOMAIN canonical : canonical[k].date <= asof

\* Records the journal would refuse (PendingExecutionJournal.append).
MayAppend(r) ==
    CASE r.status = "daily_decision_frozen" -> ~Decided(r.signal.date)
      [] r.status = "execution_reconciled" -> Indeterminate(r.signal) /\ ~Reconciled(r.signal)
      [] r.status = "execution_started" -> ~Terminal(r.signal) /\ ~Started(r.signal)
      [] OTHER -> ~Terminal(r.signal)

JournalAppend(status, s, exec, before) ==
    LET r == [status |-> status, signal |-> s, exec |-> exec,
              before |-> before, after |-> Len(canonical)]
    IN  /\ "journal" \notin torn
        /\ MayAppend(r)
        /\ journal' = Append(journal, r)

\* Leaving the with-block drops the lock and the caller's locals.
Leave(p) ==
    /\ lock' = IF lock = p THEN None ELSE lock
    /\ work' = IF lock = p THEN NoWork ELSE work
    /\ pc' = [pc EXCEPT ![p] = "idle"]
    /\ draft' = [draft EXCEPT ![p] = None]

At(p, step) == pc[p] = step
Goto(p, step) == pc' = [pc EXCEPT ![p] = step]

-----------------------------------------------------------------------------
(* daily_loop.run_once *)

\* Recover the account without the lock and build the day's decision from it.
DailyBuild(p, d, t) ==
    /\ At(p, "idle")
    /\ Recoverable(d)
    /\ draft' = [draft EXCEPT ![p] = [date |-> d, target |-> t, base |-> Len(canonical)]]
    /\ Goto(p, "built")
    /\ UNCHANGED <<lock, work, pending, summary, journal, canonical, torn>>

DailyLock(p) ==
    /\ At(p, "built")
    /\ lock = None
    /\ lock' = p
    /\ Goto(p, "check")
    /\ UNCHANGED <<draft, work, pending, summary, journal, canonical, torn>>

\* (mutant) The staged summary is deleted without asking whether it is frozen.
DailyDropSummaryBlindly(p) ==
    /\ At(p, "check")
    /\ "journal" \notin torn
    /\ summary' = [summary EXCEPT ![draft[p].date] = None]
    /\ Goto(p, "drop")
    /\ UNCHANGED <<lock, draft, work, pending, journal, canonical, torn>>

\* _assert_current_signal_not_frozen deletes what a crashed run staged for the
\* date, the summary first; a frozen date is refused before anything is touched.
DailyDropSummary(p) ==
    /\ At(p, "check")
    /\ "journal" \notin torn
    /\ ~Decided(draft[p].date)
    /\ summary' = [summary EXCEPT ![draft[p].date] = None]
    /\ Goto(p, "drop")
    /\ UNCHANGED <<lock, draft, work, pending, journal, canonical, torn>>

DailyDropPending(p) ==
    /\ At(p, "drop")
    /\ pending' = [pending EXCEPT ![draft[p].date] = None]
    /\ Goto(p, "admit")
    /\ UNCHANGED <<lock, draft, work, summary, journal, canonical, torn>>

\* Same-date economic evidence refuses the date (_assert_current_signal_not_frozen).
SameDateFree(d) == \A i \in DOMAIN journal :
    journal[i].signal.date = d => journal[i].status \notin Terminals \cup {"execution_started"}

\* (mutant) Durable evidence later than the date is not looked for.
PriorResolvedAnyOrder(d) ==
    /\ "canonical" \notin torn
    /\ JournalResolved
    /\ \A e \in Dates : pending[e] # None => e <= d /\ (e < d => Terminal(pending[e]))

\* (mutant) Older pending signals are ignored: only the journal is scanned.
PriorResolvedJournalOnly(d) ==
    /\ \A i \in DOMAIN journal : journal[i].signal.date <= d /\ journal[i].exec <= d
    /\ "canonical" \notin torn
    /\ \A k \in DOMAIN canonical : canonical[k].date <= d
    /\ JournalResolved

\* _assert_prior_pending_signals_resolved: nothing durable is later than the
\* date, no outcome is uncertain, every older pending signal reached its end.
PriorResolved(d) ==
    /\ \A i \in DOMAIN journal : journal[i].signal.date <= d /\ journal[i].exec <= d
    /\ "canonical" \notin torn
    /\ \A k \in DOMAIN canonical : canonical[k].date <= d
    /\ JournalResolved
    /\ \A e \in Dates : pending[e] # None => e <= d /\ (e < d => Terminal(pending[e]))

\* (mutant) The snapshot taken outside the lock is trusted.
AdmissibleStale(dec) ==
    /\ SameDateFree(dec.date)
    /\ PriorResolved(dec.date)
    /\ Recoverable(dec.date)

\* The account is recovered again and must still be the one the decision was
\* computed from (_assert_account_snapshot_unchanged).
Admissible(dec) ==
    /\ SameDateFree(dec.date)
    /\ PriorResolved(dec.date)
    /\ Recoverable(dec.date)
    /\ Len(canonical) = dec.base

\* (mutant) The absence of a target is staged like a target.
DailyAdmitAlways(p) ==
    /\ At(p, "admit")
    /\ Admissible(draft[p])
    /\ Goto(p, "stage")
    /\ UNCHANGED <<lock, draft, work, pending, summary, journal, canonical, torn>>

DailyAdmit(p) ==
    /\ At(p, "admit")
    /\ Admissible(draft[p])
    /\ Goto(p, IF draft[p].target = NoTarget THEN "summarise" ELSE "stage")
    /\ UNCHANGED <<lock, draft, work, pending, summary, journal, canonical, torn>>

\* PendingPaperSignalStore.record: an existing different artifact conflicts.
DailyStage(p) ==
    /\ At(p, "stage")
    /\ pending[draft[p].date] \in {None, draft[p]}
    /\ pending' = [pending EXCEPT ![draft[p].date] = draft[p]]
    /\ Goto(p, "summarise")
    /\ UNCHANGED <<lock, draft, work, summary, journal, canonical, torn>>

DailySummarise(p) ==
    /\ At(p, "summarise")
    /\ summary' = [summary EXCEPT ![draft[p].date] = draft[p]]
    /\ Goto(p, "freeze")
    /\ UNCHANGED <<lock, draft, work, pending, journal, canonical, torn>>

\* _freeze_daily_decision: the append is the commit point.
DailyFreeze(p) ==
    /\ At(p, "freeze")
    /\ JournalAppend("daily_decision_frozen", draft[p], draft[p].date, draft[p].base)
    /\ Leave(p)
    /\ UNCHANGED <<pending, summary, canonical, torn>>

\* The append raised and left no marker: the handler removes the staged pending
\* signal, then the staged summary, and re-raises.
DailyFreezeFails(p) ==
    /\ At(p, "freeze")
    /\ pending' = [pending EXCEPT ![draft[p].date] = None]
    /\ Goto(p, "unstage")
    /\ UNCHANGED <<lock, draft, work, summary, journal, canonical, torn>>

DailyUnstage(p) ==
    /\ At(p, "unstage")
    /\ summary' = [summary EXCEPT ![draft[p].date] = None]
    /\ Leave(p)
    /\ UNCHANGED <<pending, journal, canonical, torn>>

-----------------------------------------------------------------------------
(* continuous_execution.execute_pending_for_session *)

\* The caller names the session and supplies the sessions its market panel
\* holds; an unresolved account refuses the call outright.
ExecLock(p, asof, sessions) ==
    /\ At(p, "idle")
    /\ lock = None
    /\ "journal" \notin torn
    /\ JournalResolved
    /\ lock' = p
    /\ work' = [NoWork EXCEPT !.asof = asof, !.sessions = sessions]
    /\ Goto(p, "scan")
    /\ UNCHANGED <<draft, pending, summary, journal, canonical, torn>>

\* _next_session: the first session of the panel after the signal date.
IsNextSession(n, d, sessions) ==
    /\ n \in sessions /\ n > d
    /\ \A m \in sessions : m > d => n <= m

\* (mutant) A staged signal with a matching summary counts as committed.
CommittedWhenStaged(s) ==
    /\ summary[s.date] = s
    /\ "canonical" \notin torn
    /\ Len(canonical) = s.base

\* _verify_pending_daily_commit: frozen, bound to its summary, and the account
\* is still the one it was frozen against.
Committed(s) ==
    /\ Has(s, {"daily_decision_frozen"})
    /\ summary[s.date] = s
    /\ "canonical" \notin torn
    /\ Len(canonical) = s.base

\* The loop takes the pending signals in date order: it skips those with a
\* terminal, verifies the others, and moves on from one that is not due yet.
Waiting(d) == pending[d] # None /\ ~Terminal(pending[d])
NotDue(d) == \A n \in Dates : IsNextSession(n, d, work.sessions) => n > work.asof
Skipped(d) == Waiting(d) => Committed(pending[d]) /\ NotDue(d)
Turn(d) == Waiting(d) /\ \A e \in Dates : e < d => Skipped(e)

\* The exact next session has passed: recorded as missed, never traded late.
ExecMissed(p, d) ==
    /\ At(p, "scan")
    /\ Turn(d) /\ Committed(pending[d]) /\ ~Dangling(pending[d])
    /\ \E n \in Dates :
        /\ IsNextSession(n, d, work.sessions)
        /\ n < work.asof
        /\ JournalAppend("missed_execution_session", pending[d], n, Len(canonical))
    /\ UNCHANGED <<lock, pc, draft, work, pending, summary, canonical, torn>>

\* Today is the next session: recover, size n orders, record the start.
ExecStart(p, d, n) ==
    /\ At(p, "scan")
    /\ Turn(d) /\ Committed(pending[d]) /\ ~Dangling(pending[d])
    /\ IsNextSession(work.asof, d, work.sessions)
    /\ Recoverable(work.asof)
    /\ JournalAppend("execution_started", pending[d], work.asof, Len(canonical))
    /\ work' = [work EXCEPT !.job = pending[d], !.before = Len(canonical),
                            !.orders = n, !.sent = 0, !.rejected = 0]
    /\ Goto(p, "trade")
    /\ UNCHANGED <<lock, draft, pending, summary, canonical, torn>>

\* Nothing is left to do for this session.
ExecDone(p) ==
    /\ At(p, "scan")
    /\ \A d \in Dates : Skipped(d)
    /\ Leave(p)
    /\ UNCHANGED <<pending, summary, journal, canonical, torn>>

CanonicalAppend(o, kind, date) ==
    /\ "canonical" \notin torn
    /\ canonical' = Append(canonical,
           [signal |-> work.job, order |-> o, date |-> date, kind |-> kind])

\* OrderManager opens the next order on the record of account ...
ExecOpen(p) ==
    /\ At(p, "trade")
    /\ work.sent < work.orders
    /\ CanonicalAppend(work.sent + 1, "open", work.asof)
    /\ work' = [work EXCEPT !.sent = @ + 1]
    /\ Goto(p, "venue")
    /\ UNCHANGED <<lock, draft, pending, summary, journal, torn>>

\* ... and the paper venue answers: a fill, a partial fill, a rejection ...
ExecVenue(p, kind) ==
    /\ At(p, "venue")
    /\ CanonicalAppend(work.sent, kind, work.asof)
    /\ work' = [work EXCEPT !.rejected = @ + (IF kind = "reject" THEN 1 ELSE 0)]
    /\ Goto(p, "trade")
    /\ UNCHANGED <<lock, draft, pending, summary, journal, torn>>

\* ... or nothing: the order rests.
ExecRest(p) ==
    /\ At(p, "venue")
    /\ Goto(p, "trade")
    /\ UNCHANGED <<lock, draft, work, pending, summary, journal, canonical, torn>>

\* (mutant) An order that only filled in part is not worth cancelling.
ExecCancelUntouched(p, o) ==
    /\ At(p, "trade")
    /\ work.sent = work.orders
    /\ IsOpen(work.job, o)
    /\ \A k \in DOMAIN canonical :
        canonical[k].signal = work.job /\ canonical[k].order = o => canonical[k].kind = "open"
    /\ CanonicalAppend(o, "cancel", NoDate)
    /\ UNCHANGED <<lock, pc, draft, work, pending, summary, journal, torn>>

\* cancel_all_open, once every order was sent; a cancel carries no trade date.
ExecCancel(p, o) ==
    /\ At(p, "trade")
    /\ work.sent = work.orders
    /\ IsOpen(work.job, o)
    /\ CanonicalAppend(o, "cancel", NoDate)
    /\ UNCHANGED <<lock, pc, draft, work, pending, summary, journal, torn>>

\* The outcome is sealed with a receipt over the reopened ledger; it is blocked
\* when every order was rejected, as the venue answered before the cancels.
Outcome == IF work.orders > 0 /\ work.rejected = work.orders
           THEN "execution_blocked" ELSE "execution_observed"

\* (mutant) The outcome is sealed while orders still rest.
ExecSealEarly(p) ==
    /\ At(p, "trade")
    /\ work.sent = work.orders
    /\ "canonical" \notin torn
    /\ JournalAppend(Outcome, work.job, work.asof, work.before)
    /\ work' = [NoWork EXCEPT !.asof = work.asof, !.sessions = work.sessions]
    /\ Goto(p, "scan")
    /\ UNCHANGED <<lock, draft, pending, summary, canonical, torn>>

ExecSeal(p) ==
    /\ At(p, "trade")
    /\ work.sent = work.orders
    /\ \A o \in 1..work.orders : ~IsOpen(work.job, o)
    /\ "canonical" \notin torn
    /\ JournalAppend(Outcome, work.job, work.asof, work.before)
    /\ work' = [NoWork EXCEPT !.asof = work.asof, !.sessions = work.sessions]
    /\ Goto(p, "scan")
    /\ UNCHANGED <<lock, draft, pending, summary, canonical, torn>>

-----------------------------------------------------------------------------
(* continuous_execution.reconcile_indeterminate_account *)

ReconLock(p, asof) ==
    /\ At(p, "idle")
    /\ lock = None
    /\ "journal" \notin torn
    /\ Recoverable(asof)
    /\ lock' = p
    /\ work' = [NoWork EXCEPT !.asof = asof]
    /\ Goto(p, "recon")
    /\ UNCHANGED <<draft, pending, summary, journal, canonical, torn>>

\* A dangling start becomes an indeterminate terminal over the current prefix.
ReconSeal(p, i) ==
    /\ At(p, "recon")
    /\ journal[i].status = "execution_started" /\ ~Terminal(journal[i].signal)
    /\ "canonical" \notin torn
    /\ JournalAppend("execution_indeterminate", journal[i].signal,
                     journal[i].exec, journal[i].before)
    /\ UNCHANGED <<lock, pc, draft, work, pending, summary, canonical, torn>>

\* An indeterminate terminal gets its one reconciliation record.
ReconClear(p, i) ==
    /\ At(p, "recon")
    /\ journal[i].status = "execution_indeterminate" /\ ~Reconciled(journal[i].signal)
    /\ "canonical" \notin torn
    /\ JournalAppend("execution_reconciled", journal[i].signal,
                     journal[i].exec, Len(canonical))
    /\ UNCHANGED <<lock, pc, draft, work, pending, summary, canonical, torn>>

ReconDone(p) ==
    /\ At(p, "recon")
    /\ JournalResolved
    /\ Leave(p)
    /\ UNCHANGED <<pending, summary, journal, canonical, torn>>

-----------------------------------------------------------------------------
(* Exceptions and crashes *)

\* The date is frozen, or the journal does not verify (_assert_current_signal_not_frozen).
DateRefused(p) == At(p, "check") /\ ("journal" \in torn \/ Decided(draft[p].date))

\* The prior state is unresolved, or not the one the draft was computed from.
DraftRefused(p) == At(p, "admit") /\ ~Admissible(draft[p])

\* The next pending signal is not the one that was frozen, or not over this account.
SignalRefused(p) == At(p, "scan") /\ \E d \in Dates : Turn(d) /\ ~Committed(pending[d])

\* A torn ledger gives the reconciler neither a receipt nor a snapshot.
ReceiptRefused(p) == At(p, "recon") /\ ~JournalResolved /\ "canonical" \in torn

\* The call raises and its with-block gives the lock back.
Refuse(p) ==
    /\ DateRefused(p) \/ DraftRefused(p) \/ SignalRefused(p) \/ ReceiptRefused(p)
    /\ Leave(p)
    /\ UNCHANGED <<pending, summary, journal, canonical, torn>>

\* Any other exception (lock timeout, market data, kill switch, I/O) or the
\* death of the process: what is durable stays.
Stop(p) ==
    /\ pc[p] # "idle"
    /\ Leave(p)
    /\ UNCHANGED <<pending, summary, journal, canonical, torn>>

\* The process dies in the middle of an append.
Tear(p, file) ==
    /\ pc[p] \in (IF file = "journal" THEN {"freeze", "scan", "trade", "recon"}
                                      ELSE {"trade", "venue"})
    /\ torn' = torn \cup {file}
    /\ Leave(p)
    /\ UNCHANGED <<pending, summary, journal, canonical>>

-----------------------------------------------------------------------------

DailyStep(p) ==
    \/ DailyDropSummary(p) \/ DailyDropPending(p) \/ DailyAdmit(p) \/ DailyStage(p)
    \/ DailySummarise(p) \/ DailyFreeze(p) \/ DailyFreezeFails(p) \/ DailyUnstage(p)

ExecStep(p) ==
    \/ \E d \in Dates : ExecMissed(p, d) \/ \E n \in 0..MaxOrders : ExecStart(p, d, n)
    \/ ExecOpen(p) \/ ExecRest(p) \/ ExecSeal(p) \/ ExecDone(p)
    \/ \E kind \in {"fill", "partial", "reject"} : ExecVenue(p, kind)
    \/ \E o \in 1..work.orders : ExecCancel(p, o)

ReconStep(p) ==
    \/ \E i \in DOMAIN journal : ReconSeal(p, i) \/ ReconClear(p, i)
    \/ ReconDone(p)

Call(p) ==
    \/ \E d \in Dates, t \in Targets \cup {NoTarget} : DailyBuild(p, d, t)
    \/ DailyLock(p)
    \/ \E d \in Dates : \E S \in SUBSET Dates : d \in S /\ ExecLock(p, d, S)
    \/ \E d \in Dates : ReconLock(p, d)

Fail(p) == Stop(p) \/ \E file \in {"journal", "canonical"} : Tear(p, file)

\* What a process inside the lock does while it neither dies nor hits an I/O error.
Advance(p) == DailyStep(p) \/ ExecStep(p) \/ ReconStep(p) \/ Refuse(p)

Next == \E p \in Procs : Call(p) \/ Advance(p) \/ Fail(p)

Spec == Init /\ [][Next]_vars

-----------------------------------------------------------------------------
(* Safety *)

Precedes(s, first, second) ==
    \E i, j \in DOMAIN journal :
        /\ i < j
        /\ journal[i].signal = s /\ journal[i].status = first
        /\ journal[j].signal = s /\ journal[j].status = second

\* Every record on the canonical ledger belongs to a target that was frozen
\* and whose execution was journalled as started, in that order; and a signal
\* date trades at most one target, whatever crashed and was run again (staged
\* but uncommitted signals never trade: _verify_pending_daily_commit).
TradesCommittedTarget ==
    /\ \A k \in DOMAIN canonical :
        Precedes(canonical[k].signal, "daily_decision_frozen", "execution_started")
    /\ \A k, l \in DOMAIN canonical :
        canonical[k].signal.date = canonical[l].signal.date =>
            canonical[k].signal = canonical[l].signal

\* A target trades exactly the account it was computed from: its records form
\* one block that starts right after the prefix the decision was bound to; and
\* a frozen target that has not started yet is still bound to the whole ledger,
\* so its execution is not wedged by drift (_assert_account_snapshot_unchanged,
\* _verify_pending_daily_commit).
TradesTheAccountItWasSizedOn ==
    /\ \A k \in DOMAIN canonical :
        /\ canonical[k].signal.base < k
        /\ \A m \in canonical[k].signal.base + 1 .. k : canonical[m].signal = canonical[k].signal
    /\ \A d \in Dates :
        LET s == pending[d] IN
        s # None /\ Has(s, {"daily_decision_frozen"}) /\ ~Started(s) /\ ~Terminal(s) =>
            /\ "canonical" \notin torn => Committed(s)
            /\ NoOpenOrders

\* A terminal is the end: its receipt covers exactly the records of its signal,
\* none is appended later, and none of its orders is left working
\* (build_canonical_prefix_receipt, cancel_all_open).
ReceiptCoversExecution ==
    \A i \in DOMAIN journal : journal[i].status \in Terminals =>
        LET r == journal[i] IN
        /\ r.before <= r.after /\ r.after <= Len(canonical)
        /\ \A k \in DOMAIN canonical :
            canonical[k].signal = r.signal <=> r.before < k /\ k <= r.after
        /\ \A k \in DOMAIN canonical :
            canonical[k].signal = r.signal => ~IsOpen(r.signal, canonical[k].order)

\* Time never runs backwards on the account: decisions are frozen in date
\* order, sessions reach the ledger in date order, and a target trades on a
\* session strictly after its signal date (no look-ahead).
Chronological ==
    /\ \A i, j \in DOMAIN journal :
        /\ i < j
        /\ journal[i].status = "daily_decision_frozen"
        /\ journal[j].status = "daily_decision_frozen"
        => journal[i].signal.date < journal[j].signal.date
    /\ \A k, l \in DOMAIN canonical :
        k < l /\ canonical[l].date # NoDate => canonical[k].date <= canonical[l].date
    /\ \A k \in DOMAIN canonical :
        canonical[k].date # NoDate => canonical[k].signal.date < canonical[k].date

\* What a crash staged and never froze can always be run again: with the lock
\* free, re-running the date passes every check that follows the clean-up, so
\* a half-staged date cannot wedge the account (_assert_current_signal_not_frozen
\* "safe to remove and recompute").
StagedDateCanBeRerun ==
    lock = None /\ torn = {} =>
        \A d \in Dates : pending[d] # None /\ ~Decided(d) =>
            Admissible([date |-> d, target |-> NoTarget, base |-> Len(canonical)])

\* While an attempt's economics are unknown the account is frozen: the journal
\* only takes the record that seals or reconciles that attempt, and the ledger
\* only takes records of a started, unsealed one.
UncertainAccountIsFrozen ==
    [][ /\ journal' # journal /\ (\E i \in DOMAIN journal : Uncertain(journal[i].signal)) =>
            LET r == journal'[Len(journal')] IN
            /\ Uncertain(r.signal)
            /\ r.status \in {"execution_observed", "execution_blocked",
                             "execution_indeterminate", "execution_reconciled"}
        /\ canonical' # canonical => Dangling(canonical'[Len(canonical')].signal)
      ]_vars

\* Frozen evidence is immutable: once a date is decided, its pending signal and
\* the summary its digest is bound to are never overwritten or deleted.
CommittedEvidenceIsKept ==
    [][ \A d \in Dates : Decided(d) =>
            pending'[d] = pending[d] /\ summary'[d] = summary[d] ]_vars

-----------------------------------------------------------------------------
(* Liveness *)

\* The three entry points are sequential code: a process inside the lock keeps
\* taking its next step.  Nothing is assumed about new calls, nor of crashes.
FairSpec == Spec /\ \A p \in Procs : WF_vars(Advance(p))

\* Every critical section ends: the loops over pending signals, orders and
\* unresolved attempts terminate and hand the lock back.
CallsTerminate == \A p \in Procs : lock = p ~> lock # p

=============================================================================
