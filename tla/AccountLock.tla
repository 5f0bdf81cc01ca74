---------------------------- MODULE AccountLock ----------------------------
(***************************************************************************)
(* The advisory lock that serialises every process working on one paper    *)
(* account: src/quantagent/paper/account_lock.py.                          *)
(*                                                                         *)
(* A caller first derives the lock file from the canonical ledger's file   *)
(* system identity, opens it, then polls a non-blocking exclusive flock on *)
(* it until it wins or its deadline passes.  The derivation reads the file *)
(* system ONCE, before the wait, and its answer depends on whether the     *)
(* ledger file exists at that moment; the first append inside a critical   *)
(* section is what creates that file.                                      *)
(***************************************************************************)
CONSTANTS
    Procs,                  \* processes that orchestrate the account
    NoProc,                 \* "nobody", not a process
    LedgerInitiallyExists   \* has an earlier session created the ledger file?

ASSUME ProcsAssumption == NoProc \notin Procs
ASSUME LedgerAssumption == LedgerInitiallyExists \in BOOLEAN

\* "sibling": <ledger>.account.lock beside a ledger that does not exist yet;
\* "inode": the temporary-directory file named after st_dev:st_ino.
Paths == {"sibling", "inode"}

VARIABLES
    ledgerExists,   \* is there a canonical ledger file?
    pc,             \* per process: where it is in paper_account_lock
    path,           \* per process: the lock file it opened
    flock           \* per lock file: the process the kernel granted it to

vars == <<ledgerExists, pc, path, flock>>

\* The kernel's and the callers' view of the lock files.
TypeOK ==
    /\ ledgerExists \in BOOLEAN
    /\ pc \in [Procs -> {"idle", "opened", "critical", "refused"}]
    /\ path \in [Procs -> Paths]
    /\ flock \in [Paths -> Procs \cup {NoProc}]

Init ==
    /\ ledgerExists = LedgerInitiallyExists
    /\ pc = [p \in Procs |-> "idle"]
    /\ path = [p \in Procs |-> "sibling"]
    /\ flock = [f \in Paths |-> NoProc]

\* paper_account_lock_path: the file whose flock stands for the account.
LockPath == IF ledgerExists THEN "inode" ELSE "sibling"

\* Entering paper_account_lock: derive the path once and open the file.
OpenLockFile(p) ==
    /\ pc[p] = "idle"
    /\ pc' = [pc EXCEPT ![p] = "opened"]
    /\ path' = [path EXCEPT ![p] = LockPath]
    /\ UNCHANGED <<ledgerExists, flock>>

\* (mutant) The poll enters without looking at who holds the flock.
GrantUnchecked(p) ==
    /\ pc[p] = "opened"
    /\ flock' = [flock EXCEPT ![path[p]] = p]
    /\ pc' = [pc EXCEPT ![p] = "critical"]
    /\ UNCHANGED <<ledgerExists, path>>

\* A poll that wins: flock(LOCK_EX | LOCK_NB) returns.
Grant(p) ==
    /\ pc[p] = "opened"
    /\ flock[path[p]] = NoProc
    /\ flock' = [flock EXCEPT ![path[p]] = p]
    /\ pc' = [pc EXCEPT ![p] = "critical"]
    /\ UNCHANGED <<ledgerExists, path>>

\* (mutant) The deadline is never compared: a loser polls for ever.
TimeOutNever(p) ==
    /\ pc[p] = "opened"
    /\ flock[path[p]] # NoProc
    /\ UNCHANGED vars

\* A poll that fails after the deadline: PaperAccountLockTimeout.
TimeOut(p) ==
    /\ pc[p] = "opened"
    /\ flock[path[p]] # NoProc
    /\ pc' = [pc EXCEPT ![p] = "refused"]
    /\ UNCHANGED <<ledgerExists, path, flock>>

\* A durable canonical append inside the critical section: the first one ever
\* creates the ledger file.
AppendLedger(p) ==
    /\ pc[p] = "critical"
    /\ ledgerExists' = TRUE
    /\ UNCHANGED <<pc, path, flock>>

\* Leaving the with-block (normally or by an exception): LOCK_UN.
Release(p) ==
    /\ pc[p] = "critical"
    /\ flock' = [flock EXCEPT ![path[p]] = NoProc]
    /\ pc' = [pc EXCEPT ![p] = "idle"]
    /\ UNCHANGED <<ledgerExists, path>>

\* The process dies at any point: the operating system drops its flock.
Die(p) ==
    /\ pc[p] \in {"opened", "critical"}
    /\ flock' = [f \in Paths |-> IF flock[f] = p THEN NoProc ELSE flock[f]]
    /\ pc' = [pc EXCEPT ![p] = "idle"]
    /\ UNCHANGED <<ledgerExists, path>>

\* The scheduler calls again after a timeout.
Retry(p) ==
    /\ pc[p] = "refused"
    /\ pc' = [pc EXCEPT ![p] = "idle"]
    /\ UNCHANGED <<ledgerExists, path, flock>>

Step(p) ==
    \/ OpenLockFile(p) \/ Grant(p) \/ TimeOut(p)
    \/ AppendLedger(p) \/ Release(p) \/ Die(p) \/ Retry(p)

Next == \E p \in Procs : Step(p)

Spec == Init /\ [][Next]_vars

(***************************************************************************)
(* Properties                                                              *)
(***************************************************************************)

\* Whoever is inside, as the abstract lock sees it.
Owner == IF \E p \in Procs : pc[p] = "critical"
         THEN CHOOSE p \in Procs : pc[p] = "critical"
         ELSE NoProc

Mutex == INSTANCE AccountMutex WITH owner <- Owner

\* At most one process is inside the account's critical section, so nobody
\* mutates the economic account while a target is being frozen or executed
\* (account_lock.py, "Cross-process serialization for one durable paper
\* account"; continuous_execution.py execute_pending_for_session).
MutualExclusion ==
    \A p, q \in Procs : pc[p] = "critical" /\ pc[q] = "critical" => p = q

\* The lock refines the abstract mutex its callers rely on: every hand-over
\* between processes goes through "nobody", whatever dies or times out.
RefinesMutex == Mutex!Spec

\* Fairness the code justifies: a process that has opened the lock file keeps
\* polling, and its deadline is finite, so one of the two poll outcomes
\* happens.  Nothing is assumed of the callers or of crashes.
Polls(p) == Grant(p) \/ TimeOut(p)
FairSpec == Spec /\ \A p \in Procs : WF_vars(Polls(p))

\* Acquisition is bounded: a caller never waits for ever, it enters, aborts
\* with PaperAccountLockTimeout, or dies (account_lock.py, "Acquisition is
\* bounded and fail-closed").
BoundedAcquisition ==
    \A p \in Procs : pc[p] = "opened" ~> pc[p] # "opened"

=============================================================================
