----------------------------- MODULE LockProofs -----------------------------
(***************************************************************************)
(* The two locks between processes: the paper-account lock, for any number *)
(* of processes once the ledger file exists, with its refinement of        *)
(* AccountMutex; and the writer lock of the paper-order service, for any   *)
(* processes, hosts and staleness period.                                  *)
(***************************************************************************)
EXTENDS AccountLock, WriterLock, TLAPS

\* Everyone who opened a lock file after the ledger came to be opened the
\* same one.
OneLockFile ==
    /\ ledgerExists
    /\ \A p \in Procs : pc[p] \in {"opened", "critical"} => path[p] = "inode"

\* The kernel's view and the callers' agree: a process inside holds the flock
\* of the file it opened.
HoldsItsFlock == \A p \in Procs : pc[p] = "critical" => flock[path[p]] = p

IInv == TypeOK /\ OneLockFile /\ HoldsItsFlock

\* The inductive invariant holds of every reachable state of an account whose
\* ledger file exists.
LEMMA IInvInvariant == ASSUME LedgerInitiallyExists PROVE Spec => []IInv
<1> USE DEF Paths
<1>1. Init => IInv
  BY DEF Init, IInv, TypeOK, OneLockFile, HoldsItsFlock
<1>2. IInv /\ [Next]_vars => IInv'
  <2> SUFFICES ASSUME IInv, [Next]_vars PROVE IInv'
    OBVIOUS
  <2> USE ProcsAssumption DEF IInv, TypeOK, OneLockFile, HoldsItsFlock
  <2>1. ASSUME NEW p \in Procs, OpenLockFile(p) PROVE IInv'
    BY <2>1 DEF OpenLockFile, LockPath
  <2>2. ASSUME NEW p \in Procs, Grant(p) PROVE IInv'
    BY <2>2 DEF Grant
  <2>3. ASSUME NEW p \in Procs, TimeOut(p) PROVE IInv'
    BY <2>3 DEF TimeOut
  <2>4. ASSUME NEW p \in Procs, AppendLedger(p) PROVE IInv'
    BY <2>4 DEF AppendLedger
  <2>5. ASSUME NEW p \in Procs, Release(p) PROVE IInv'
    BY <2>5 DEF Release
  <2>6. ASSUME NEW p \in Procs, Die(p) PROVE IInv'
    BY <2>6 DEF Die
  <2>7. ASSUME NEW p \in Procs, Retry(p) PROVE IInv'
    BY <2>7 DEF Retry
  <2>8. CASE UNCHANGED vars
    BY <2>8 DEF vars
  <2> QED
    BY <2>1, <2>2, <2>3, <2>4, <2>5, <2>6, <2>7, <2>8 DEF Next, Step
<1> QED
  BY <1>1, <1>2, PTL DEF Spec

LEMMA IInvExcludes == IInv => MutualExclusion
  BY DEF IInv, OneLockFile, HoldsItsFlock, MutualExclusion

\* paper_account_lock admits one process at a time into the critical section
\* of an account whose canonical ledger already exists.
THEOREM LockMutualExclusion ==
  ASSUME LedgerInitiallyExists PROVE Spec => []MutualExclusion
  BY IInvInvariant, IInvExcludes, PTL

\* With at most one process inside, the refinement mapping names it.
LEMMA OwnerInside ==
  ASSUME IInv, NEW p \in Procs, pc[p] = "critical" PROVE Owner = p
  BY IInvExcludes DEF MutualExclusion, Owner

LEMMA OwnerNobody ==
  ASSUME \A p \in Procs : pc[p] # "critical" PROVE Owner = NoProc
  BY DEF Owner

\* The polling flock, with its timeouts, deaths and retries, implements the
\* abstract mutex the paper-account protocol is written against.
THEOREM LockRefinesMutex ==
  ASSUME LedgerInitiallyExists PROVE Spec => RefinesMutex
<1>1. Init => Mutex!Init
  BY OwnerNobody DEF Init, Mutex!Init
<1>2. IInv /\ IInv' /\ [Next]_vars => [Mutex!Next]_Owner
  <2> SUFFICES ASSUME IInv, IInv', [Next]_vars PROVE [Mutex!Next]_Owner
    OBVIOUS
  <2> USE DEF Mutex!Next, Mutex!Acquire, Mutex!Release
  <2>1. ASSUME UNCHANGED pc PROVE Owner' = Owner
    BY <2>1 DEF Owner
  <2>2. ASSUME NEW p \in Procs, pc[p] # "critical", pc'[p] # "critical",
               \A q \in Procs \ {p} : pc'[q] = pc[q]
        PROVE  Owner' = Owner
    <3>1. \A q \in Procs : pc'[q] = "critical" <=> pc[q] = "critical"
      BY <2>2
    <3> QED
      BY <3>1 DEF Owner
  <2>3. ASSUME NEW p \in Procs, OpenLockFile(p) PROVE Owner' = Owner
    BY <2>2, <2>3 DEF OpenLockFile, IInv, TypeOK
  <2>4. ASSUME NEW p \in Procs, TimeOut(p) \/ Retry(p) PROVE Owner' = Owner
    BY <2>2, <2>4 DEF TimeOut, Retry, IInv, TypeOK
  <2>5. ASSUME NEW p \in Procs, AppendLedger(p) PROVE Owner' = Owner
    BY <2>1, <2>5 DEF AppendLedger
  <2>6. ASSUME NEW p \in Procs, Grant(p) PROVE Mutex!Acquire(p)
    <3>1. pc'[p] = "critical"
      BY <2>6 DEF Grant, IInv, TypeOK
    <3>2. \A q \in Procs : pc[q] # "critical"
      BY <2>6, ProcsAssumption DEF Grant, IInv, OneLockFile, HoldsItsFlock
    <3>3. Owner = NoProc
      BY <3>2, OwnerNobody
    <3>4. \A q \in Procs : pc'[q] = "critical" => q = p
      BY <3>2, <2>6 DEF Grant, IInv, TypeOK
    <3>5. Owner' = p
      BY <3>1, <3>4 DEF Owner
    <3> QED
      BY <3>3, <3>5
  <2>7. ASSUME NEW p \in Procs, pc[p] = "critical", pc'[p] # "critical",
               \A q \in Procs \ {p} : pc'[q] = pc[q]
        PROVE  Mutex!Release(p)
    <3>1. Owner = p
      BY <2>7, OwnerInside
    <3>2. \A q \in Procs : pc'[q] # "critical"
      BY <2>7, IInvExcludes DEF MutualExclusion
    <3>3. Owner' = NoProc
      BY <3>2 DEF Owner
    <3> QED
      BY <3>1, <3>3
  <2>8. ASSUME NEW p \in Procs, Release(p) PROVE Mutex!Release(p)
    BY <2>7, <2>8 DEF Release, IInv, TypeOK
  <2>9. ASSUME NEW p \in Procs, Die(p) PROVE [Mutex!Next]_Owner
    <3>1. pc'[p] # "critical" /\ \A q \in Procs \ {p} : pc'[q] = pc[q]
      BY <2>9 DEF Die, IInv, TypeOK
    <3>2. CASE pc[p] = "critical"
      BY <3>1, <3>2, <2>7
    <3>3. CASE pc[p] # "critical"
      BY <3>1, <3>3, <2>2
    <3> QED
      BY <3>2, <3>3
  <2>10. CASE UNCHANGED vars
    BY <2>10, <2>1 DEF vars
  <2> QED
    BY <2>3, <2>4, <2>5, <2>6, <2>8, <2>9, <2>10 DEF Next, Step
<1> QED
  BY <1>1, <1>2, IInvInvariant, PTL DEF Spec, RefinesMutex, Mutex!Spec

-----------------------------------------------------------------------------
(* The writer lock *)

\* A process that got past flock holds the lock of its host.
HoldsFlock ==
    \A p \in Processes : phase[p] = "inspect" \/ Writer(p) => p \in lockedBy

\* The kernel grants the flock to one process of a host.
OnePerHost == \A p, q \in lockedBy : HostOf[p] = HostOf[q] => p = q

\* What the writer lock relies on.
WInv == WriterTypeOK /\ HoldsFlock /\ OnePerHost

\* The inductive invariant holds of every reachable state: acquisition, closing and
\* death of any process at any step preserve it.
LEMMA WriterInvariant == WriterSpec => []WInv
<1>1. WriterInit => WInv
  <2> SUFFICES ASSUME WriterInit PROVE WInv
    OBVIOUS
  <2> QED
    BY DEF WriterInit, WriterTypeOK, WInv, HoldsFlock, OnePerHost, Writer
<1>2. WInv /\ [WriterNext]_writerVars => WInv'
  <2> SUFFICES ASSUME WInv, [WriterNext]_writerVars PROVE WInv'
    OBVIOUS
  <2> USE StaleAssumption DEF WInv, WriterTypeOK, HoldsFlock, OnePerHost, Writer, Goto
  <2>1. ASSUME NEW p \in Processes, Start(p) PROVE WInv'
    BY <2>1 DEF Start
  <2>2. ASSUME NEW p \in Processes, OpenFile(p) PROVE WInv'
    BY <2>2 DEF OpenFile
  <2>3. ASSUME NEW p \in Processes, Flock(p) PROVE WInv'
    <3>1. CASE \E q \in lockedBy : HostOf[q] = HostOf[p]
      BY <2>3, <3>1 DEF Flock
    <3>2. CASE ~ \E q \in lockedBy : HostOf[q] = HostOf[p]
      BY <2>3, <3>2 DEF Flock
    <3> QED
      BY <3>1, <3>2
  <2>4. ASSUME NEW p \in Processes, Inspect(p) PROVE WInv'
    <3>1. CASE Occupied(p)
      BY <2>4, <3>1 DEF Inspect
    <3>2. CASE ~Occupied(p)
      BY <2>4, <3>2 DEF Inspect
    <3> QED
      BY <3>1, <3>2
  <2>5. ASSUME NEW p \in Processes, Truncate(p) \/ Publish(p) \/ BeginWrite(p) \/ Heartbeat(p)
        PROVE  WInv'
    <3>1. Mine(p) \in Occupancies
      BY DEF Mine, Occupancies
    <3> QED
      BY <2>5, <3>1 DEF Truncate, Publish, BeginWrite, Heartbeat
  <2>6. ASSUME NEW p \in Processes, EndWrite(p) PROVE WInv'
    BY <2>6 DEF EndWrite
  <2>7. ASSUME NEW p \in Processes, Close(p) PROVE WInv'
    BY <2>7 DEF Close
  <2>8. ASSUME NEW p \in Processes, HolderDies(p) PROVE WInv'
    BY <2>8 DEF HolderDies
  <2>9. CASE Tick
    <3>1. ASSUME NEW r \in Occupancies
          PROVE  [r EXCEPT !.age = IF @ < Stale THEN @ + 1 ELSE @] \in Occupancies
      BY DEF Occupancies
    <3> QED
      BY <2>9, <3>1 DEF Tick
  <2>10. CASE UNCHANGED writerVars
    BY <2>10 DEF writerVars
  <2> QED
    BY <2>1, <2>2, <2>3, <2>4, <2>5, <2>6, <2>7, <2>8, <2>9, <2>10 DEF WriterNext, Acquire
<1> QED
  BY <1>1, <1>2, PTL DEF WriterSpec

\* At most one process of a host believes itself the writer of the account
\* (_acquire_writer_lock, WriterLockUnavailable).
THEOREM OneWriterPerHost == WriterSpec => []SingleWriter
<1>1. WInv => SingleWriter
  BY DEF WInv, HoldsFlock, OnePerHost, SingleWriter, Writer
<1> QED
  BY <1>1, WriterInvariant, PTL

=============================================================================
