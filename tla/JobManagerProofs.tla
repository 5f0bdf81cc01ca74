-------------------------- MODULE JobManagerProofs --------------------------
(***************************************************************************)
(* Theorems about the job manager of the quant API, for any number of      *)
(* attempts and any number of calls, deaths of the API and killed          *)
(* supervisors.                                                            *)
(*                                                                         *)
(* Local(j) is what the code keeps for each job on its own: the order of   *)
(* its two processes, what the step its thread has reached says about      *)
(* them, what a call that left the lock knows, and that nothing ends a job *)
(* whose worker still runs.  The attempts are then put in a row: as long   *)
(* as each attempt is retried once, a job is submitted only when every     *)
(* earlier one is over, so one worker at a time writes the output.         *)
(***************************************************************************)
EXTENDS JobManager, TLAPS

-----------------------------------------------------------------------------
(* Records, processes, threads and calls have the shapes of the code *)

Statuses == TERMINAL \cup ACTIVE \cup {"new", "purged"}

\* Each update the code makes to a record leaves it a record.
LEMMA JobRecordsClosed ==
    ASSUME NEW r \in JobRecords, NEW s \in Statuses, NEW b \in 0..MaxJobs,
           NEW p \in BOOLEAN, NEW q \in BOOLEAN
    PROVE  /\ [r EXCEPT !.status = s] \in JobRecords
           /\ [r EXCEPT !.base = b] \in JobRecords
           /\ [r EXCEPT !.workerPid = p] \in JobRecords
           /\ [r EXCEPT !.status = s, !.pid = p] \in JobRecords
           /\ [r EXCEPT !.workerPid = p, !.status = s] \in JobRecords
           /\ [r EXCEPT !.workerPid = p, !.workerStartTicks = q] \in JobRecords
           /\ [r EXCEPT !.status = s, !.base = b, !.owned = p] \in JobRecords
BY DEF JobRecords, Statuses

\* The same of threads.
LEMMA ThreadsClosed ==
    /\ NoThread \in Threads
    /\ \A t \in Threads, c \in BOOLEAN,
          pc \in {"none", "check", "begin", "baseline", "spawn", "register", "kill", "watch",
                  "finish"} :
         /\ [t EXCEPT !.pc = pc] \in Threads
         /\ [t EXCEPT !.pc = pc, !.cancelled = c] \in Threads
         /\ [pc |-> pc, cancelled |-> c, follow |-> "popen"] \in Threads
<1>1. NoThread \in Threads
  BY DEF Threads, NoThread
<1>2. ASSUME NEW t \in Threads, NEW c \in BOOLEAN,
             NEW pc \in {"none", "check", "begin", "baseline", "spawn", "register", "kill",
                         "watch", "finish"}
      PROVE  /\ [t EXCEPT !.pc = pc] \in Threads
             /\ [t EXCEPT !.pc = pc, !.cancelled = c] \in Threads
             /\ [pc |-> pc, cancelled |-> c, follow |-> "popen"] \in Threads
  <2>1. [t EXCEPT !.pc = pc] \in Threads
    BY DEF Threads
  <2>2. [t EXCEPT !.pc = pc, !.cancelled = c] \in Threads
    BY DEF Threads
  <2>3. [pc |-> pc, cancelled |-> c, follow |-> "popen"] \in Threads
    BY DEF Threads
  <2> QED
    BY <2>1, <2>2, <2>3
<1> QED
  BY <1>1, <1>2

\* Each update of the processes of a job that is not a signal leaves them well formed.
LEMMA ProcessesClosed ==
    ASSUME NEW r \in Processes, NEW b \in BOOLEAN
    PROVE  /\ \A s \in {"starting", "gone"} : [r EXCEPT !.sup = s] \in Processes
           /\ [r EXCEPT !.sup = "waiting", !.file = "running"] \in Processes
           /\ [r EXCEPT !.sup = "gone", !.file = "exited"] \in Processes
           /\ [r EXCEPT !.wrote = TRUE] \in Processes
           /\ [r EXCEPT !.frozen = b] \in Processes
<1>1. \A s \in {"starting", "gone"} : [r EXCEPT !.sup = s] \in Processes
  BY DEF Processes
<1>2. [r EXCEPT !.sup = "waiting", !.file = "running"] \in Processes
  BY DEF Processes
<1>3. [r EXCEPT !.sup = "gone", !.file = "exited"] \in Processes
  BY DEF Processes
<1>4. [r EXCEPT !.wrote = TRUE] \in Processes
  BY DEF Processes
<1>5. [r EXCEPT !.frozen = b] \in Processes
  BY DEF Processes
<1> QED
  BY <1>1, <1>2, <1>3, <1>4, <1>5

\* Every step leaves each record a record.
LEMMA JobsTyped == ASSUME TypeOK, [Next]_vars PROVE job' \in [Jobs -> JobRecords]
<1>1. job \in [Jobs -> JobRecords] /\ out \in 0..MaxJobs
  BY DEF TypeOK
<1>2. /\ {"queued", "cancelled", "cancelling", "paused", "running", "purged", "starting",
           "failed", "rejected", "blocked"} \subseteq Statuses
      /\ \A j \in Jobs : Verdict(j) \in Statuses
  BY DEF Statuses, TERMINAL, ACTIVE, Verdict
<1>3. ASSUME NEW j \in Jobs, Enqueue(j) PROVE job' \in [Jobs -> JobRecords]
  <2>1. [job[j] EXCEPT !.status = "queued", !.base = out, !.owned = (out = 0)] \in JobRecords
    BY <1>1, <1>2, JobRecordsClosed
  <2> QED
    BY <1>1, <1>3, <2>1 DEF Enqueue
<1>4. ASSUME NEW j \in Jobs, Cancel(j) PROVE job' \in [Jobs -> JobRecords]
  BY <1>1, <1>4 DEF Cancel, JobRecords, ACTIVE, TERMINAL
<1>5. ASSUME NEW j \in Jobs, Pause(j) \/ Resume(j) \/ Purge(j) PROVE job' \in [Jobs -> JobRecords]
  BY <1>1, <1>5 DEF Pause, Resume, Purge, JobRecords, ACTIVE, TERMINAL
<1>6. ASSUME NEW j \in Jobs, RunBegin(j) \/ RunBaseline(j) PROVE job' \in [Jobs -> JobRecords]
  BY <1>1, <1>6 DEF RunBegin, RunBaseline, Updated, JobRecords, ACTIVE, TERMINAL
<1>7. ASSUME NEW j \in Jobs, RunSpawnFails(j) PROVE job' \in [Jobs -> JobRecords]
  <2>1. [job[j] EXCEPT !.status = "failed"] \in JobRecords
    BY <1>1, <1>2, JobRecordsClosed
  <2> QED
    BY <1>1, <1>7, <2>1 DEF RunSpawnFails
<1>15. ASSUME NEW j \in Jobs, RunRegister(j) PROVE job' \in [Jobs -> JobRecords]
  <2>1. [job[j] EXCEPT !.status = "running", !.pid = TRUE] \in JobRecords
    BY <1>1, <1>2, JobRecordsClosed
  <2> QED
    BY <1>1, <1>15, <2>1 DEF RunRegister, Updated
<1>14. ASSUME NEW j \in Jobs, Finalize(j) PROVE job' \in [Jobs -> JobRecords]
  <2>1. [job[j] EXCEPT !.status = Verdict(j)] \in JobRecords
    BY <1>1, <1>2, JobRecordsClosed
  <2> QED
    BY <1>1, <1>14, <2>1 DEF Finalize, Updated
<1>8. ASSUME NEW j \in Jobs, WatchWorker(j) PROVE job' \in [Jobs -> JobRecords]
  <2>1. Present(j, "worker") \in BOOLEAN
    BY DEF Present
  <2> QED
    BY <1>1, <1>2, <1>8, <2>1, JobRecordsClosed DEF WatchWorker
<1>9. CASE Load
  BY <1>1, <1>2, <1>9, JobRecordsClosed DEF Load, Recovered, WorkerKnown
<1>10. ASSUME UNCHANGED job PROVE job' \in [Jobs -> JobRecords]
  BY <1>1, <1>10
<1>11. CASE \E j \in Jobs : \/ RunCheck(j) \/ RunSpawn(j) \/ WatchPurged(j)
                            \/ WatchEnds(j) \/ ProcessStep(j) \/ SupervisorDies(j)
  BY <1>10, <1>11 DEF RunCheck, RunSpawn, WatchPurged, WatchEnds, ProcessStep,
     SupervisorSpawns, SupervisorReports, SupervisorEnds, WorkerWrites, WorkerEnds, SupervisorDies
<1>12. CASE CallStep \/ Crash \/ UNCHANGED vars
  BY <1>10, <1>12 DEF CallStep, Signals, CancelEnds, PurgeEnds, RunKillEnds, Crash, vars
<1>13. CASE Submit \/ \E j \in Jobs : Retry(j)
  <2>1. \E j \in Jobs : Enqueue(j)
    BY <1>13, BoundsAssumption DEF Submit, Retry, Jobs
  <2> QED
    BY <1>3, <2>1
<1> QED
  BY <1>4, <1>5, <1>6, <1>7, <1>8, <1>9, <1>11, <1>12, <1>13, <1>14, <1>15
  DEF Next, ThreadStep

\* A thread that moves on or ends is a thread.
LEMMA ThreadMoves ==
    ASSUME thread \in [Jobs -> Threads], NEW j \in Jobs,
           NEW pc \in {"none", "check", "begin", "baseline", "spawn", "register", "kill", "watch",
                      "finish"},
           Goto(j, pc) \/ End(j)
    PROVE  thread' \in [Jobs -> Threads]
<1>1. [thread[j] EXCEPT !.pc = pc] \in Threads /\ NoThread \in Threads
  BY ThreadsClosed
<1>2. CASE Goto(j, pc)
  BY <1>1, <1>2 DEF Goto
<1>3. CASE End(j)
  BY <1>1, <1>3 DEF End
<1> QED
  BY <1>2, <1>3

\* Every step leaves each thread a thread.
LEMMA ThreadsTyped == ASSUME TypeOK, [Next]_vars PROVE thread' \in [Jobs -> Threads]
<1>1. thread \in [Jobs -> Threads]
  BY DEF TypeOK
<1>2. ASSUME UNCHANGED thread PROVE thread' \in [Jobs -> Threads]
  BY <1>1, <1>2
<1>3. ASSUME NEW j \in Jobs, Enqueue(j) PROVE thread' \in [Jobs -> Threads]
  BY <1>1, <1>3, ThreadMoves DEF Enqueue, Goto
<1>4. ASSUME NEW j \in Jobs, \/ RunCheck(j) \/ RunBegin(j) \/ RunBaseline(j) \/ RunSpawnFails(j)
                             \/ RunRegister(j) \/ WatchPurged(j) \/ Finalize(j)
      PROVE  thread' \in [Jobs -> Threads]
  <2>1. \E pc \in {"begin", "baseline", "spawn", "kill", "watch"} : Goto(j, pc) \/ End(j)
    BY <1>4 DEF RunCheck, RunBegin, RunBaseline, RunSpawnFails, RunRegister, WatchPurged,
       Finalize
  <2> QED
    BY <1>1, <2>1, ThreadMoves
<1>5. ASSUME NEW j \in Jobs, RunSpawn(j) \/ WatchEnds(j) PROVE thread' \in [Jobs -> Threads]
  <2> DEFINE c == j \in cancelReq
  <2>0. c \in BOOLEAN /\ thread[j] \in Threads
    BY <1>1
  <2> HIDE DEF c
  <2>1. /\ [pc |-> "register", cancelled |-> c, follow |-> "popen"] \in Threads
        /\ [thread[j] EXCEPT !.pc = "finish", !.cancelled = c] \in Threads
        /\ NoThread \in Threads
    BY <2>0, ThreadsClosed
  <2>2. CASE RunSpawn(j)
    BY <1>1, <2>1, <2>2 DEF RunSpawn, End, c
  <2>3. CASE WatchEnds(j)
    <3>1. \/ thread' = [thread EXCEPT ![j] = NoThread]
          \/ thread' = [thread EXCEPT ![j] = [thread[j] EXCEPT !.pc = "finish", !.cancelled = c]]
      BY <1>1, <2>3 DEF WatchEnds, c
    <3> QED
      BY <1>1, <2>1, <3>1
  <2> QED
    BY <1>5, <2>2, <2>3
<1>6. CASE Load
  <2>1. \A j \in Jobs : RecoveredThread(j) \in Threads
    BY DEF RecoveredThread, Followed, NoThread, Threads
  <2> QED
    BY <1>6, <2>1, ThreadsClosed DEF Load
<1>7. CASE Crash
  BY <1>7, ThreadsClosed DEF Crash
<1>8. CASE \E j \in Jobs : \/ WatchWorker(j) \/ ProcessStep(j) \/ SupervisorDies(j)
                           \/ Cancel(j) \/ Pause(j) \/ Resume(j) \/ Purge(j)
  BY <1>2, <1>8 DEF WatchWorker, ProcessStep, SupervisorSpawns, SupervisorReports, SupervisorEnds,
     WorkerWrites, WorkerEnds, SupervisorDies, Cancel, Pause, Resume, Purge
<1>9. CASE CallStep \/ UNCHANGED vars
  <2>1. ASSUME NEW c \in calls, RunKillEnds(c) PROVE thread' \in [Jobs -> Threads]
    <3>1. c.job \in Jobs
      BY DEF TypeOK, Calls
    <3>2. Goto(c.job, "watch")
      BY <2>1 DEF RunKillEnds, Goto
    <3> QED
      BY <1>1, <3>1, <3>2, ThreadMoves
  <2> QED
    BY <1>2, <1>9, <2>1 DEF CallStep, Signals, CancelEnds, PurgeEnds, vars
<1>10. CASE Submit \/ \E j \in Jobs : Retry(j)
  <2>1. \E j \in Jobs : Enqueue(j)
    BY <1>10, BoundsAssumption DEF Submit, Retry, Jobs
  <2> QED
    BY <1>3, <2>1
<1> QED
  BY <1>4, <1>5, <1>6, <1>7, <1>8, <1>9, <1>10 DEF Next, ThreadStep

\* What SIGTERM, and a SIGCONT before it, leave of a supervisor and its worker.
LEMMA TerminatedLeaves ==
    ASSUME NEW r \in Processes, NEW p \in Terminated(r)
    PROVE  /\ p \in Processes
           /\ p.worker = r.worker /\ p.file = r.file /\ p.wrote = r.wrote /\ ~p.held
           /\ p.sup # r.sup => p.sup = "gone"
<1>1. PICK s \in {"waiting", "gone"} : /\ p = [r EXCEPT !.frozen = FALSE, !.held = FALSE, !.sup = s]
                                       /\ s = "waiting" => r.sup = "waiting"
  BY DEF Terminated
<1> QED
  BY <1>1 DEF Processes

\* The first half of terminate_tree: only a supervisor that is there ends of it.
LEMMA SignalGroupLeaves ==
    ASSUME proc \in [Jobs -> Processes], NEW j \in Jobs, NEW target, NEW paused,
           NEW p \in SignalGroup(j, target, paused)
    PROVE  /\ p \in Processes
           /\ p.worker = proc[j].worker /\ p.file = proc[j].file /\ p.wrote = proc[j].wrote
           /\ p.sup # proc[j].sup => p.sup = "gone" /\ Present(j, target)
           /\ p.held => p.frozen \/ p = proc[j]
<1>1. proc[j] \in Processes
  OBVIOUS
<1>2. CASE p = proc[j]
  BY <1>1, <1>2
<1>3. CASE p = [proc[j] EXCEPT !.held = TRUE] /\ proc[j].frozen
  BY <1>1, <1>3 DEF Processes
<1>4. CASE Present(j, target) /\ p \in Terminated(proc[j])
  BY <1>1, <1>4, TerminatedLeaves
<1> QED
  BY <1>2, <1>3, <1>4 DEF SignalGroup

\* The second half: what it kills has stopped, and it touches nothing else.
LEMMA KillFamilyLeaves ==
    ASSUME NEW r \in Processes, NEW target, NEW p \in KillFamily(r, target)
    PROVE  /\ p \in Processes
           /\ p.file = r.file /\ p.wrote = r.wrote /\ p.held = r.held /\ p.frozen = r.frozen
           /\ p.worker # r.worker => r.worker = "running" /\ p.worker = "done"
           /\ p.sup # r.sup => p.sup = "gone" /\ r.sup # "none"
<1>1. PICK f \in SUBSET Family(target) :
        p = [IF "worker" \in f THEN Killed(r) ELSE r EXCEPT
               !.sup = IF "sup" \in f /\ @ \in {"starting", "spawned", "waiting"}
                       THEN "gone" ELSE @]
  BY DEF KillFamily
<1> DEFINE k == IF "worker" \in f THEN Killed(r) ELSE r
<1>2. /\ k \in Processes /\ k.file = r.file /\ k.wrote = r.wrote /\ k.sup = r.sup
      /\ k.held = r.held /\ k.frozen = r.frozen
      /\ k.worker # r.worker => r.worker = "running" /\ k.worker = "done"
  <2>1. \/ k = r
        \/ r.worker = "running" /\ k = [r EXCEPT !.worker = "done", !.code = "error"]
    <3>1. CASE r.worker = "running"
      BY <3>1 DEF Killed
    <3>2. CASE r.worker # "running"
      BY <3>2 DEF Killed, Processes
    <3> QED
      BY <3>1, <3>2
  <2> HIDE DEF k
  <2> QED
    BY <2>1 DEF Processes, Codes
<1>3. p = [k EXCEPT !.sup = IF "sup" \in f /\ @ \in {"starting", "spawned", "waiting"}
                             THEN "gone" ELSE @]
  BY ONLY <1>1
<1> HIDE DEF k
<1>4. PICK s \in {k.sup, "gone"} : p = [k EXCEPT !.sup = s] /\ (s # k.sup => k.sup # "none")
  BY <1>3
<1>5. /\ p \in Processes /\ p.sup = s /\ p.file = k.file /\ p.worker = k.worker /\ p.wrote = k.wrote
      /\ p.held = k.held /\ p.frozen = k.frozen
  BY <1>2, <1>4 DEF Processes
<1> QED
  BY <1>2, <1>4, <1>5

\* A step of one call of terminate_tree, or of what its caller does next.
CallStepOf(c) == Signals(c) \/ CancelEnds(c) \/ PurgeEnds(c) \/ RunKillEnds(c)

\* What such a step may do to the job's processes.
LEMMA CallStepLeaves ==
    ASSUME proc \in [Jobs -> Processes], NEW c \in Calls, CallStepOf(c)
    PROVE  \E p \in Processes :
             /\ proc' = [proc EXCEPT ![c.job] = p]
             /\ p.wrote = proc[c.job].wrote /\ p.file \in {proc[c.job].file, "none"}
             /\ p.worker # proc[c.job].worker =>
                  proc[c.job].worker = "running" /\ p.worker = "done"
             /\ p.sup # proc[c.job].sup =>
                  p.sup = "gone" /\ (proc[c.job].sup # "none" \/ Present(c.job, c.target))
             /\ PurgeEnds(c) /\ c.popen /\ proc[c.job].sup # "none" => p.sup = "gone"
             /\ p.worker = "running" /\ ~Signals(c) => c.job \in spared'
             /\ p.held => p.frozen \/ (proc[c.job].held /\ ~proc[c.job].frozen)
<1>1. c.job \in Jobs /\ proc[c.job] \in Processes /\ c.popen \in BOOLEAN
  BY DEF Calls
<1>2. CASE Signals(c)
  <2>1. PICK p \in SignalGroup(c.job, c.target, c.paused) : proc' = [proc EXCEPT ![c.job] = p]
    BY <1>2 DEF Signals
  <2>2. /\ p \in Processes
        /\ p.worker = proc[c.job].worker /\ p.file = proc[c.job].file
        /\ p.wrote = proc[c.job].wrote
        /\ p.sup # proc[c.job].sup => p.sup = "gone" /\ Present(c.job, c.target)
        /\ p.held => p.frozen \/ p = proc[c.job]
    BY <1>1, <2>1, SignalGroupLeaves
  <2>3. ~PurgeEnds(c)
    BY <1>2 DEF Signals, PurgeEnds
  <2> QED
    BY <1>2, <2>1, <2>2, <2>3
<1>3. CASE CancelEnds(c) \/ RunKillEnds(c)
  <2>1. PICK p \in KillFamily(proc[c.job], c.target) : Leaves(c, p)
    BY <1>3 DEF CancelEnds, RunKillEnds
  <2>2. /\ p \in Processes /\ p.file = proc[c.job].file /\ p.wrote = proc[c.job].wrote
        /\ p.held = proc[c.job].held /\ p.frozen = proc[c.job].frozen
        /\ p.worker # proc[c.job].worker => proc[c.job].worker = "running" /\ p.worker = "done"
        /\ p.sup # proc[c.job].sup => p.sup = "gone" /\ proc[c.job].sup # "none"
    BY <1>1, <2>1, KillFamilyLeaves
  <2>3. ~PurgeEnds(c)
    BY <1>3 DEF CancelEnds, RunKillEnds, PurgeEnds
  <2>4. proc' = [proc EXCEPT ![c.job] = p] /\ (p.worker = "running" => c.job \in spared')
    BY <2>1 DEF Leaves
  <2> QED
    BY <2>2, <2>3, <2>4
<1>4. CASE PurgeEnds(c)
  <2>1. PICK p \in KillFamily(proc[c.job], c.target) :
          Leaves(c, [p EXCEPT !.sup = IF c.popen /\ @ # "none" THEN "gone" ELSE @,
                              !.file = "none"])
    BY <1>4 DEF PurgeEnds
  <2>2. /\ p \in Processes /\ p.file = proc[c.job].file /\ p.wrote = proc[c.job].wrote
        /\ p.held = proc[c.job].held /\ p.frozen = proc[c.job].frozen
        /\ p.worker # proc[c.job].worker => proc[c.job].worker = "running" /\ p.worker = "done"
        /\ p.sup # proc[c.job].sup => p.sup = "gone" /\ proc[c.job].sup # "none"
    BY <1>1, <2>1, KillFamilyLeaves
  <2> DEFINE q == [p EXCEPT !.sup = IF c.popen /\ @ # "none" THEN "gone" ELSE @, !.file = "none"]
  <2>3. /\ q \in Processes /\ q.worker = p.worker /\ q.wrote = p.wrote /\ q.file = "none"
        /\ q.sup = IF c.popen /\ p.sup # "none" THEN "gone" ELSE p.sup
        /\ q.held = p.held /\ q.frozen = p.frozen
    BY <2>2 DEF Processes
  <2>4. proc' = [proc EXCEPT ![c.job] = q] /\ (q.worker = "running" => c.job \in spared')
    BY <2>1 DEF Leaves
  <2> HIDE DEF q
  <2>5. /\ q.sup # proc[c.job].sup => q.sup = "gone" /\ proc[c.job].sup # "none"
        /\ c.popen /\ proc[c.job].sup # "none" => q.sup = "gone"
    BY <2>2, <2>3
  <2> QED
    BY <2>2, <2>3, <2>4, <2>5
<1> QED
  BY <1>2, <1>3, <1>4 DEF CallStepOf

\* Every step leaves the processes of each job well formed.
LEMMA ProcessesTyped == ASSUME TypeOK, [Next]_vars PROVE proc' \in [Jobs -> Processes]
<1>1. proc \in [Jobs -> Processes] /\ calls \subseteq Calls
  BY DEF TypeOK
<1>2. ASSUME UNCHANGED proc PROVE proc' \in [Jobs -> Processes]
  BY <1>1, <1>2
<1>3. ASSUME NEW j \in Jobs, SupervisorSpawns(j) PROVE proc' \in [Jobs -> Processes]
  <2>1. "error" \in Codes
    BY DEF Codes
  <2> QED
    BY <1>1, <1>3, <2>1 DEF SupervisorSpawns, Processes
<1>4. ASSUME NEW j \in Jobs, SupervisorReports(j) \/ SupervisorEnds(j)
      PROVE  proc' \in [Jobs -> Processes]
  <2>1. proc[j] \in Processes
    BY <1>1
  <2>2. CASE SupervisorReports(j)
    BY <1>1, <2>1, <2>2, ProcessesClosed DEF SupervisorReports
  <2>3. CASE SupervisorEnds(j)
    BY <1>1, <2>1, <2>3, ProcessesClosed DEF SupervisorEnds
  <2> QED
    BY <1>4, <2>2, <2>3
<1>5. ASSUME NEW j \in Jobs, SupervisorDies(j) \/ WorkerWrites(j) PROVE proc' \in [Jobs -> Processes]
  <2>1. proc[j] \in Processes
    BY <1>1
  <2>2. CASE SupervisorDies(j)
    BY <1>1, <2>1, <2>2, ProcessesClosed DEF SupervisorDies
  <2>3. CASE WorkerWrites(j)
    BY <1>1, <2>1, <2>3, ProcessesClosed DEF WorkerWrites
  <2> QED
    BY <1>5, <2>2, <2>3
<1>12. ASSUME NEW j \in Jobs, WorkerEnds(j) PROVE proc' \in [Jobs -> Processes]
  <2>1. PICK c \in Codes : proc' = [proc EXCEPT ![j].worker = "done", ![j].code = c]
    BY <1>12 DEF WorkerEnds
  <2>2. [proc[j] EXCEPT !.worker = "done", !.code = c] \in Processes
    BY <1>1 DEF Processes
  <2> QED
    BY <1>1, <2>1, <2>2
<1>6. ASSUME NEW j \in Jobs, Pause(j) \/ Resume(j) PROVE proc' \in [Jobs -> Processes]
  <2>1. /\ \A b \in BOOLEAN : [proc[j] EXCEPT !.frozen = b] \in Processes
        /\ \A p \in Terminated(proc[j]) : p \in Processes
    BY <1>1, ProcessesClosed, TerminatedLeaves
  <2>2. CASE Pause(j)
    BY <1>1, <2>1, <2>2 DEF Pause
  <2>3. CASE Resume(j)
    BY <1>1, <2>1, <2>3 DEF Resume
  <2> QED
    BY <1>6, <2>2, <2>3
<1>13. ASSUME NEW j \in Jobs, RunBaseline(j) \/ RunSpawn(j) PROVE proc' \in [Jobs -> Processes]
  <2>1. /\ [proc[j] EXCEPT !.file = "none"] \in Processes
        /\ [proc[j] EXCEPT !.sup = "starting"] \in Processes
    BY <1>1 DEF Processes
  <2>2. CASE RunBaseline(j)
    BY <1>1, <2>1, <2>2 DEF RunBaseline
  <2>3. CASE RunSpawn(j)
    BY <1>1, <2>1, <2>3 DEF RunSpawn
  <2> QED
    BY <1>13, <2>2, <2>3
<1>7. ASSUME NEW c \in calls, CallStepOf(c) PROVE proc' \in [Jobs -> Processes]
  <2>1. c \in Calls
    BY <1>1
  <2>2. PICK p \in Processes : proc' = [proc EXCEPT ![c.job] = p]
    BY <1>1, <1>7, <2>1, CallStepLeaves
  <2> QED
    BY <1>1, <2>2
<1>10. CASE \E j \in Jobs : \/ RunCheck(j) \/ RunBegin(j) \/ RunSpawnFails(j) \/ RunRegister(j)
                            \/ WatchPurged(j) \/ WatchWorker(j) \/ WatchEnds(j) \/ Finalize(j)
                            \/ Retry(j) \/ Cancel(j) \/ Purge(j)
  BY <1>2, <1>10 DEF RunCheck, RunBegin, RunSpawnFails, RunRegister, WatchPurged, WatchWorker,
     WatchEnds, Finalize, Retry, Cancel, Purge
<1>11. CASE Submit \/ Crash \/ Load \/ UNCHANGED vars
  BY <1>2, <1>11 DEF Submit, Crash, Load, vars
<1> QED
  BY <1>3, <1>4, <1>5, <1>6, <1>7, <1>10, <1>11, <1>12, <1>13
  DEF Next, ThreadStep, ProcessStep, CallStep, CallStepOf

\* What is disturbed is counted, and counts only grow.
LEMMA Disturbed ==
    ASSUME TypeOK, NEW op \in Disturbances, Disturb(op)
    PROVE  /\ used' \in [Disturbances -> Nat] /\ used'[op] = used[op] + 1
           /\ \A d \in Disturbances \ {op} : used'[d] = used[d]
BY DEF Disturb, TypeOK

\* No step takes a disturbance back.
CountsGrow == /\ used \in [Disturbances -> Nat] /\ used' \in [Disturbances -> Nat]
              /\ \A d \in Disturbances : used'[d] >= used[d]

LEMMA UsedGrows == ASSUME TypeOK, [Next]_vars PROVE CountsGrow
<1>1. used \in [Disturbances -> Nat]
  BY DEF TypeOK
<1>2. UNCHANGED used \/ \E op \in Disturbances : Disturb(op)
  <2>1. CASE \E j \in Jobs : Retry(j) \/ Cancel(j) \/ Pause(j) \/ Purge(j) \/ SupervisorDies(j)
    BY <2>1 DEF Retry, Cancel, Pause, Purge, SupervisorDies, Disturbances
  <2>2. CASE \E j \in Jobs : Resume(j) \/ ThreadStep(j) \/ ProcessStep(j)
    BY <2>2 DEF Resume, ThreadStep, ProcessStep, RunCheck, RunBegin, RunBaseline, RunSpawn,
       RunSpawnFails, RunRegister, WatchPurged, WatchWorker, WatchEnds, Finalize,
       SupervisorSpawns, SupervisorReports, SupervisorEnds, WorkerWrites, WorkerEnds
  <2>3. CASE Submit \/ Crash \/ Load \/ CallStep \/ UNCHANGED vars
    BY <2>3 DEF Submit, Crash, Load, CallStep, Signals, CancelEnds, PurgeEnds, RunKillEnds, vars, Disturbances
  <2> QED
    BY <2>1, <2>2, <2>3 DEF Next
<1> QED
  BY <1>1, <1>2, Disturbed DEF CountsGrow

\* Every step leaves each call a call.
LEMMA CallsTyped == ASSUME TypeOK, [Next]_vars PROVE calls' \subseteq Calls
<1>0. calls \subseteq Calls /\ job \in [Jobs -> JobRecords]
  BY DEF TypeOK
<1>1. ASSUME NEW j \in Jobs, NEW op \in {"cancel", "purge", "run"}, NEW target \in Targets,
             NEW p \in BOOLEAN, NEW d \in BOOLEAN, NEW o \in BOOLEAN
      PROVE  [job |-> j, op |-> op, stage |-> "term", target |-> target, paused |-> p,
              delete |-> d, popen |-> o] \in Calls
  BY DEF Calls
<1>2. ASSUME NEW j \in Jobs, Cancel(j) PROVE calls' \subseteq Calls
  <2>1. Target(j) \in Targets
    BY DEF Target, Targets
  <2>2. calls' = calls \/ \E x \in Calls : calls' = calls \cup {x}
    BY <1>1, <1>2, <2>1 DEF Cancel
  <2> QED
    BY <1>0, <2>2
<1>3. ASSUME NEW j \in Jobs, Purge(j) PROVE calls' \subseteq Calls
  <2>1. Target(j) \in Targets /\ job[j].owned \in BOOLEAN
    BY <1>0 DEF Target, Targets, JobRecords
  <2>2. \E x \in Calls : calls' = calls \cup {x}
    BY <1>1, <1>3, <2>1 DEF Purge
  <2> QED
    BY <1>0, <2>2
<1>4. ASSUME NEW j \in Jobs, RunRegister(j) PROVE calls' \subseteq Calls
  <2>1. "sup" \in Targets
    BY DEF Targets
  <2>2. calls' = calls \/ \E x \in Calls : calls' = calls \cup {x}
    BY <1>1, <1>4, <2>1 DEF RunRegister
  <2> QED
    BY <1>0, <2>2
<1>5. ASSUME NEW c \in calls, Signals(c) PROVE calls' \subseteq Calls
  <2>1. [c EXCEPT !.stage = "kill"] \in Calls
    BY <1>0 DEF Calls
  <2> QED
    BY <1>0, <1>5, <2>1 DEF Signals
<1>6. CASE CallStep
  BY <1>0, <1>5, <1>6 DEF CallStep, CancelEnds, PurgeEnds, RunKillEnds, Leaves
<1>7. CASE \E j \in Jobs : \/ Retry(j) \/ Pause(j) \/ Resume(j) \/ SupervisorDies(j)
                           \/ ProcessStep(j)
  BY <1>0, <1>7 DEF Retry, Pause, Resume, SupervisorDies, ProcessStep, SupervisorSpawns,
     SupervisorReports, SupervisorEnds, WorkerWrites, WorkerEnds
<1>8. CASE \E j \in Jobs : \/ RunCheck(j) \/ RunBegin(j) \/ RunBaseline(j) \/ RunSpawn(j)
                           \/ RunSpawnFails(j) \/ WatchPurged(j) \/ WatchWorker(j)
                           \/ WatchEnds(j) \/ Finalize(j)
  BY <1>0, <1>8 DEF RunCheck, RunBegin, RunBaseline, RunSpawn, RunSpawnFails, WatchPurged,
     WatchWorker, WatchEnds, Finalize
<1>9. CASE Submit \/ Crash \/ Load \/ UNCHANGED vars
  BY <1>0, <1>9 DEF Submit, Crash, Load, vars
<1> QED
  BY <1>2, <1>3, <1>4, <1>6, <1>7, <1>8, <1>9 DEF Next, ThreadStep

\* Every step keeps TypeOK.
LEMMA StepTyped == ASSUME TypeOK, [Next]_vars PROVE TypeOK'
<1>1. /\ out' \in 0..MaxJobs /\ up' \in BOOLEAN /\ cancelReq' \subseteq Jobs
      /\ purged' \subseteq Jobs /\ spared' \subseteq Jobs
  <2>0. /\ out \in 0..MaxJobs /\ up \in BOOLEAN /\ cancelReq \subseteq Jobs
        /\ purged \subseteq Jobs /\ spared \subseteq Jobs /\ calls \subseteq Calls
    BY DEF TypeOK
  <2>1. CASE \E j \in Jobs : Cancel(j) \/ Purge(j) \/ WorkerWrites(j)
    BY <2>0, <2>1, BoundsAssumption DEF Cancel, Purge, WorkerWrites, Jobs
  <2>2. CASE \E j \in Jobs : Retry(j) \/ Pause(j) \/ Resume(j) \/ ThreadStep(j) \/ SupervisorDies(j)
                             \/ SupervisorSpawns(j) \/ SupervisorReports(j) \/ SupervisorEnds(j)
                             \/ WorkerEnds(j)
    <3>1. CASE \E j \in Jobs : Retry(j) \/ Pause(j) \/ Resume(j) \/ SupervisorDies(j)
      BY <2>0, <3>1 DEF Retry, Pause, Resume, SupervisorDies
    <3>2. CASE \E j \in Jobs : ThreadStep(j)
      <4>1. UNCHANGED <<out, up, cancelReq, purged, spared>>
        BY <3>2 DEF ThreadStep, RunCheck, RunBegin, RunBaseline, RunSpawn, RunSpawnFails,
           RunRegister, WatchPurged, WatchWorker, WatchEnds, Finalize
      <4> QED
        BY <2>0, <4>1
    <3>3. CASE \E j \in Jobs : \/ SupervisorSpawns(j) \/ SupervisorReports(j)
                               \/ SupervisorEnds(j) \/ WorkerEnds(j)
      BY <2>0, <3>3 DEF SupervisorSpawns, SupervisorReports, SupervisorEnds, WorkerEnds
    <3> QED
      BY <2>2, <3>1, <3>2, <3>3
  <2>3. CASE CallStep
    <3>1. PICK c \in calls : CallStepOf(c)
      BY <2>3 DEF CallStep, CallStepOf
    <3>2. c.job \in Jobs
      BY <2>0 DEF Calls
    <3>3. spared' \in {spared, spared \cup {c.job}}
      BY <3>1 DEF CallStepOf, Signals, CancelEnds, PurgeEnds, RunKillEnds, Leaves
    <3>4. out' \in {0, out} /\ UNCHANGED <<up, cancelReq, purged>>
      BY <3>1 DEF CallStepOf, Signals, CancelEnds, PurgeEnds, RunKillEnds
    <3> QED
      BY <2>0, <3>2, <3>3, <3>4, BoundsAssumption
  <2>4. CASE Submit \/ Crash \/ Load \/ UNCHANGED vars
    BY <2>0, <2>4 DEF Submit, Crash, Load, vars
  <2> QED
    BY <2>1, <2>2, <2>3, <2>4 DEF Next, ProcessStep
<1> QED
  BY <1>1, CallsTyped, JobsTyped, ThreadsTyped, ProcessesTyped, UsedGrows DEF TypeOK, CountsGrow

\* TypeOK holds when the API is first started.
LEMMA InitTyped == Init => TypeOK
<1> SUFFICES ASSUME Init PROVE TypeOK
  OBVIOUS
<1>1. [status |-> "new", pid |-> FALSE, workerPid |-> FALSE, workerStartTicks |-> FALSE,
       base |-> 0, owned |-> FALSE] \in JobRecords
  BY BoundsAssumption DEF JobRecords
<1>2. [sup |-> "none", worker |-> "none", code |-> "error", file |-> "none", frozen |-> FALSE,
       held |-> FALSE, wrote |-> FALSE] \in Processes
  BY DEF Processes, Codes
<1> QED
  <2>1. 0 \in 0..MaxJobs /\ 0 \in Nat
    BY BoundsAssumption
  <2> QED
    BY <1>1, <1>2, <2>1, ThreadsClosed DEF Init, TypeOK

-----------------------------------------------------------------------------
(* One job: its processes, its thread, the calls about it *)

\* The part of TypeOK that the steps of a job read.
Typed == /\ job \in [Jobs -> JobRecords]
         /\ proc \in [Jobs -> Processes]
         /\ thread \in [Jobs -> Threads]

\* The job's supervisor will start no worker any more.
Launched(j) == proc[j].sup \notin {"none", "starting"}

\* The supervisor starts the worker and writes the status file; a PID is registered
\* only of a process that was started.
ProcessOrder(j) ==
    /\ proc[j].sup \in {"none", "starting"} => proc[j].worker = "none"
    /\ proc[j].sup \in {"spawned", "waiting"} => proc[j].worker # "none"
    /\ proc[j].file = "exited" => proc[j].sup = "gone" /\ proc[j].worker # "running"
    /\ proc[j].file = "running" => proc[j].worker # "none"
    /\ job[j].pid => proc[j].sup # "none"
    /\ job[j].workerPid => proc[j].worker # "none"

\* The thread starts the processes once, and has ended when the job has a verdict.
ThreadOrder(j) ==
    /\ job[j].status = "new" => thread[j].pc = "none" /\ proc[j].sup = "none" /\ ~job[j].pid
    /\ thread[j].pc \in {"check", "begin", "baseline", "spawn"} =>
         proc[j].sup = "none" /\ ~job[j].pid
    /\ thread[j].pc \in {"register", "kill", "watch", "finish"} => proc[j].sup # "none"
    /\ job[j].status \in TERMINAL \ {"cancelled"} => thread[j].pc = "none"
    /\ job[j].status = "purged" /\ thread[j].pc # "none" => j \in purged
    /\ j \in purged => job[j].status = "purged"
    /\ Uninterrupted => /\ thread[j].follow = "popen"
                        /\ job[j].pid /\ thread[j].pc \in {"none", "finish"}
                             => Launched(j) \/ job[j].status = "purged"

CallsOf(j) == {c \in calls : c.job = j}

\* A call that left the lock knew every process that was registered then, and the
\* record of a purged job registers none afterwards.  A thread sends its own signals
\* once, and waits for them.
CallsKnow(j) ==
    /\ \A c \in CallsOf(j) :
         /\ c.op = "purge" => /\ j \in purged /\ used.purge > 0
                              /\ c.target = "none" => ~job[j].pid
                              /\ job[j].pid /\ Uninterrupted => c.popen \/ Launched(j)
         /\ c.op = "run" => thread[j].pc = "kill" /\ thread[j].cancelled
         /\ c.op = "cancel" => used.cancel > 0
         /\ c.target = "worker" => proc[j].worker # "none"
    /\ \A c, d \in CallsOf(j) : c.op = "run" /\ d.op = "run" => c = d

\* Signals were sent to the job, and its worker may have outlived them.
Outlived(j) == j \in spared \/ Signalled(j)

\* No worker of the job will start, and one that runs has outlived its signals.
Halted(j) == Launched(j) /\ (proc[j].worker = "running" => Outlived(j))

\* A SIGTERM is pending of a stopped group only, and its worker has outlived signals.
HeldBack(j) ==
    proc[j].held => proc[j].frozen /\ (proc[j].worker = "running" => Outlived(j))

\* Unless a supervisor was killed, a worker runs under its supervisor, or has outlived
\* the signals that ended it, or is the one a purge before its registration leaves
\* behind; and a registered job is at its end only when it has halted, or a purge is
\* still at work on it.
Supervised(j) ==
    Intact =>
        /\ proc[j].worker = "running" =>
              \/ proc[j].sup \in {"spawned", "waiting"} \/ Outlived(j)
              \/ job[j].status = "purged" /\ ~job[j].pid
        /\ thread[j].pc = "finish" => Halted(j) \/ j \in purged
        /\ job[j].pid /\ job[j].status \in {"cancelled", "failed"} => Halted(j)
        /\ job[j].pid /\ job[j].status = "purged" /\ Uninterrupted =>
              Halted(j) \/ \E c \in CallsOf(j) : c.op = "purge"

Local(j) ==
    ProcessOrder(j) /\ ThreadOrder(j) /\ CallsKnow(j) /\ HeldBack(j) /\ Supervised(j)

\* A dead API has neither threads nor calls, and forgets what was cancelled and purged.
Down == ~up => /\ cancelReq = {} /\ purged = {} /\ calls = {}
               /\ used.restart > 0 /\ \A j \in Jobs : thread[j].pc = "none"

-----------------------------------------------------------------------------
(* Every step keeps what each job relies on *)

\* Registering the processes, and calling terminate_tree for an earlier cancel, does.
LEMMA RegisterLocal == ASSUME Typed, NEW j \in Jobs, Local(j), RunRegister(j) PROVE Local(j)'
<1>1. /\ UNCHANGED <<proc, purged, spared, used>> /\ thread[j].pc = "register"
      /\ job' = Updated(j, [job[j] EXCEPT !.status = "running", !.pid = TRUE])
  BY DEF RunRegister
<1>2. \/ j \in purged /\ job' = job
      \/ j \notin purged /\ job'[j].status = "running" /\ job'[j].workerPid = job[j].workerPid
  BY <1>1 DEF Updated, Typed, JobRecords
<1>3. \/ thread'[j].pc = "watch" /\ UNCHANGED calls
      \/ /\ thread'[j].pc = "kill" /\ thread[j].cancelled
         /\ \E c : c.job = j /\ c.op = "run" /\ c.target = "sup" /\ calls' = calls \cup {c}
  <2>1. thread[j] \in Threads
    BY DEF Typed
  <2>2. CASE ~thread[j].cancelled
    BY <2>1, <2>2 DEF RunRegister, Goto, Typed, Threads
  <2>3. CASE thread[j].cancelled
    <3>1. thread'[j].pc = "kill"
      BY <2>1, <2>3 DEF RunRegister, Goto, Typed, Threads
    <3> DEFINE c == [job |-> j, op |-> "run", stage |-> "term", target |-> "sup",
                     paused |-> FALSE, delete |-> FALSE, popen |-> FALSE]
    <3>2. calls' = calls \cup {c}
      BY <2>3 DEF RunRegister
    <3>3. c.job = j /\ c.op = "run" /\ c.target = "sup"
      OBVIOUS
    <3> HIDE DEF c
    <3> QED
      BY <2>3, <3>1, <3>2, <3>3
  <2> QED
    BY <2>1, <2>2, <2>3 DEF Threads
<1>4. thread'[j].cancelled = thread[j].cancelled /\ thread'[j].follow = thread[j].follow
  BY DEF RunRegister, Goto, Typed, Threads
<1>5. /\ CallsOf(j) \subseteq CallsOf(j)' /\ (Outlived(j) => Outlived(j)')
      /\ \A c \in CallsOf(j) : c.op # "run"
  BY <1>1, <1>3 DEF CallsOf, Outlived, Signalled, Local, CallsKnow
<1>6. proc[j].sup # "none"
  BY <1>1 DEF Local, ThreadOrder
<1>7. ProcessOrder(j)' /\ HeldBack(j)'
  BY <1>1, <1>2, <1>5, <1>6 DEF Local, ProcessOrder, HeldBack
<1>8. ThreadOrder(j)'
  BY <1>1, <1>2, <1>3, <1>4, <1>6 DEF Local, ThreadOrder, Uninterrupted, Intact, Launched, TERMINAL
<1>9. CallsKnow(j)'
  <2>1. \A c \in CallsOf(j) : c.op = "purge" => j \in purged
    BY DEF Local, CallsKnow
  <2>2. \A c \in CallsOf(j)' :
          \/ c \in CallsOf(j)
          \/ c.op = "run" /\ c.target = "sup" /\ thread'[j].pc = "kill" /\ thread'[j].cancelled
    BY <1>3, <1>4 DEF CallsOf
  <2>3. \A c, d \in CallsOf(j)' : c.op = "run" /\ d.op = "run" => c = d
    BY <1>3, <1>5 DEF CallsOf
  <2>4. \A c \in CallsOf(j) : c.op = "purge" => job' = job
    BY <1>2, <2>1
  <2> QED
    BY <1>1, <1>5, <2>2, <2>3, <2>4 DEF Local, CallsKnow, Uninterrupted, Intact, Launched
<1>10. Supervised(j)'
  BY <1>1, <1>2, <1>3, <1>5 DEF Local, Supervised, ThreadOrder, Uninterrupted, Intact, Halted,
     Launched
<1> QED
  BY <1>7, <1>8, <1>9, <1>10 DEF Local

\* The thread's other steps do (_run, _supervise, _finalize).
LEMMA ThreadStepLocal == ASSUME Typed, NEW j \in Jobs, Local(j), ThreadStep(j) PROVE Local(j)'
<1> USE DEF Typed, JobRecords, Processes, Threads, Local, ProcessOrder, ThreadOrder, CallsKnow,
        HeldBack, Supervised, Intact, Uninterrupted, Halted, Launched, Outlived, Signalled, CallsOf,
        TERMINAL, ACTIVE, Updated, Goto, End, NoThread
<1>1. CASE RunCheck(j)
  BY <1>1 DEF RunCheck
<1>2. CASE RunBegin(j)
  BY <1>2 DEF RunBegin
<1>3. CASE RunBaseline(j)
  BY <1>3 DEF RunBaseline
<1>4. CASE RunSpawn(j)
  BY <1>4 DEF RunSpawn
<1>5. CASE RunSpawnFails(j)
  BY <1>5 DEF RunSpawnFails
<1>6. CASE RunRegister(j)
  BY <1>6, RegisterLocal
<1>8. CASE WatchPurged(j)
  BY <1>8 DEF WatchPurged
<1>9. CASE WatchWorker(j)
  BY <1>9 DEF WatchWorker, Present
<1>10. CASE WatchEnds(j)
  BY <1>10 DEF WatchEnds, Ended
<1>11. CASE Finalize(j)
  BY <1>11 DEF Finalize, Verdict, ExitCode, Codes
<1> QED
  BY <1>1, <1>2, <1>3, <1>4, <1>5, <1>6, <1>8, <1>9, <1>10, <1>11 DEF ThreadStep

\* So does every step of the supervisor and the worker.
LEMMA ProcessStepLocal == ASSUME Typed, NEW j \in Jobs, Local(j), ProcessStep(j) PROVE Local(j)'
<1> USE DEF Typed, JobRecords, Processes, Threads, Local, ProcessOrder, ThreadOrder, CallsKnow,
        HeldBack, Supervised, Intact, Uninterrupted, Halted, Launched, Outlived, Signalled, CallsOf,
        TERMINAL, ACTIVE, Codes
<1>1. CASE SupervisorSpawns(j)
  BY <1>1 DEF SupervisorSpawns
<1>2. CASE SupervisorReports(j)
  BY <1>2 DEF SupervisorReports
<1>3. CASE SupervisorEnds(j)
  BY <1>3 DEF SupervisorEnds
<1>4. CASE WorkerWrites(j)
  BY <1>4 DEF WorkerWrites
<1>5. CASE WorkerEnds(j)
  BY <1>5 DEF WorkerEnds
<1> QED
  BY <1>1, <1>2, <1>3, <1>4, <1>5 DEF ProcessStep

\* submit and retry give a new record a thread and nothing else.
LEMMA EnqueueLocal ==
    ASSUME Typed, NEW j \in Jobs, Local(j), Enqueue(j), job[j].status = "new",
           UNCHANGED <<proc, calls, purged, spared>>, CountsGrow
    PROVE  Local(j)'
<1>1. /\ Intact' => Intact
      /\ Uninterrupted' => Uninterrupted
      /\ used.purge > 0 => used'.purge > 0
      /\ used.cancel > 0 => used'.cancel > 0
  BY DEF Intact, Uninterrupted, Disturbances, CountsGrow
<1> HIDE DEF Intact, Uninterrupted
<1>2. /\ CallsOf(j)' = CallsOf(j) /\ (Outlived(j) => Outlived(j)')
      /\ proc'[j] = proc[j] /\ (j \in purged' <=> j \in purged)
      /\ job'[j].status = "queued" /\ thread'[j].pc = "check"
      /\ job'[j].pid = job[j].pid /\ job'[j].workerPid = job[j].workerPid
      /\ thread'[j].follow = thread[j].follow /\ thread[j].pc = "none"
  BY DEF Enqueue, Typed, JobRecords, Threads, Local, ThreadOrder, CallsOf, Outlived, Signalled
<1>3. ProcessOrder(j)' /\ ThreadOrder(j)'
  BY <1>1, <1>2 DEF Local, ProcessOrder, ThreadOrder, TERMINAL
<1>4. CallsKnow(j)'
  BY <1>1, <1>2 DEF Local, CallsKnow, ThreadOrder
<1>5. Supervised(j)' /\ HeldBack(j)'
  BY <1>1, <1>2 DEF Local, Supervised, ProcessOrder, ThreadOrder, HeldBack
<1> QED
  BY <1>3, <1>4, <1>5 DEF Local

\* Calls inside the lock, and the death of the supervisor.
LEMMA CallLocal ==
    ASSUME Typed, NEW j \in Jobs, Local(j), UNCHANGED thread, CountsGrow,
           Cancel(j) \/ Pause(j) \/ Resume(j) \/ Purge(j) \/ SupervisorDies(j)
    PROVE Local(j)'
<1>1. /\ Intact' => Intact
      /\ Uninterrupted' => Uninterrupted
      /\ used.purge > 0 => used'.purge > 0
      /\ used.cancel > 0 => used'.cancel > 0
  BY DEF Intact, Uninterrupted, Disturbances, CountsGrow
<1> HIDE DEF Intact, Uninterrupted
<1>2. CASE Cancel(j)
  <2>1. /\ UNCHANGED <<proc, purged, spared>> /\ job[j].status \in ACTIVE
        /\ used'.cancel = used.cancel + 1
        /\ \/ job' = [job EXCEPT ![j].status = "cancelled"] /\ Target(j) = "none" /\ UNCHANGED calls
           \/ /\ job' = [job EXCEPT ![j].status = "cancelling"] /\ Target(j) # "none"
              /\ \E c : c.op = "cancel" /\ c.target = Target(j) /\ calls' = calls \cup {c}
    BY <1>2 DEF Cancel, Disturb, Disturbances, CountsGrow
  <2>2. /\ Target(j) = "none" <=> ~job[j].pid /\ ~job[j].workerPid
        /\ Target(j) = "worker" <=> job[j].workerPid
    BY DEF Target, Typed, JobRecords
  <2>3. /\ job'[j].status = IF Target(j) = "none" THEN "cancelled" ELSE "cancelling"
        /\ job'[j].pid = job[j].pid /\ job'[j].workerPid = job[j].workerPid
        /\ used.cancel \in Nat
    BY <2>1 DEF Typed, JobRecords, CountsGrow, Disturbances
  <2>4. CallsOf(j) \subseteq CallsOf(j)' /\ (Outlived(j) => Outlived(j)')
    BY <2>1 DEF CallsOf, Outlived, Signalled
  <2>5. ProcessOrder(j)' /\ ThreadOrder(j)'
    BY <1>1, <2>1, <2>2, <2>3 DEF Local, ProcessOrder, ThreadOrder, Launched, TERMINAL, ACTIVE
  <2>6. CallsKnow(j)'
    BY <1>1, <2>1, <2>2, <2>3 DEF Local, ProcessOrder, CallsKnow, CallsOf, Launched
  <2>7. Supervised(j)' /\ HeldBack(j)'
    BY <1>1, <2>1, <2>2, <2>3, <2>4 DEF Local, Supervised, Halted, Launched, ThreadOrder, ACTIVE,
       HeldBack
  <2> QED
    BY <2>5, <2>6, <2>7 DEF Local
<1>3. CASE Pause(j) \/ Resume(j)
  <2>1. /\ UNCHANGED <<purged, spared, calls, thread>> /\ job[j].status \in ACTIVE
        /\ \E s \in {"paused", "running"} : job' = [job EXCEPT ![j].status = s]
    BY <1>3 DEF Pause, Resume, ACTIVE
  <2>2. /\ job'[j].pid = job[j].pid /\ job'[j].workerPid = job[j].workerPid
        /\ job'[j].status \in {"paused", "running"}
    BY <2>1 DEF Typed, JobRecords
  <2>3. /\ proc'[j].worker = proc[j].worker /\ proc'[j].file = proc[j].file
        /\ proc'[j].sup # proc[j].sup => proc'[j].sup = "gone" /\ proc[j].held
        /\ proc'[j].held => proc'[j].frozen /\ proc[j].held
    <3>1. proc[j] \in Processes
      BY DEF Typed
    <3>2. CASE Pause(j)
      BY <3>1, <3>2 DEF Pause, Typed, Processes
    <3>3. CASE Resume(j) /\ ~proc[j].held
      BY <3>1, <3>3 DEF Resume, Typed, Processes
    <3>4. CASE Resume(j) /\ proc[j].held
      BY <3>1, <3>4, TerminatedLeaves DEF Resume, Typed
    <3> QED
      BY <1>3, <3>2, <3>3, <3>4
  <2>4. proc[j].sup # "none"
    BY <1>3 DEF Pause, Resume, Target, Present, Local, ProcessOrder
  <2>5. CallsOf(j)' = CallsOf(j) /\ (Outlived(j)' <=> Outlived(j)) /\ (Launched(j) => Launched(j)')
    BY <2>1, <2>3 DEF CallsOf, Outlived, Signalled, Launched
  <2>6. ProcessOrder(j)'
    BY <2>2, <2>3, <2>4 DEF Local, ProcessOrder
  <2>7. ThreadOrder(j)'
    BY <1>1, <2>1, <2>2, <2>3, <2>4, <2>5 DEF Local, ThreadOrder, TERMINAL, ACTIVE
  <2>8. CallsKnow(j)'
    BY <1>1, <2>1, <2>2, <2>3, <2>5 DEF Local, CallsKnow
  <2>9. HeldBack(j)'
    BY <2>3, <2>5 DEF Local, HeldBack
  <2>10. Supervised(j)'
    <3> SUFFICES ASSUME Intact' PROVE (Supervised(j)!2)'
      BY DEF Supervised
    <3>1. Supervised(j)!2
      BY <1>1 DEF Local, Supervised
    <3>2. proc'[j].sup # proc[j].sup /\ proc[j].worker = "running" => Outlived(j)
      BY <2>3 DEF Local, HeldBack
    <3>3. Halted(j) => Halted(j)'
      BY <2>3, <2>5 DEF Halted
    <3>4. (Outlived(j) <=> Outlived(j)') /\ proc[j].worker = proc'[j].worker
      BY <2>3, <2>5
    <3>5. proc'[j].worker = "running" => proc'[j].sup \in {"spawned", "waiting"} \/ Outlived(j)'
      BY <2>1, <3>1, <3>2, <3>4 DEF ACTIVE
    <3>6. thread'[j].pc = "finish" => Halted(j)' \/ j \in purged'
      BY <1>1, <2>1, <3>1, <3>3
    <3> QED
      BY <2>2, <3>5, <3>6
  <2> QED
    BY <2>6, <2>7, <2>8, <2>9, <2>10 DEF Local
<1>5. CASE Purge(j)
  <2>1. /\ UNCHANGED <<proc, spared>> /\ job[j].status \in ACTIVE \cup TERMINAL
        /\ purged' = purged \cup {j}
        /\ job' = [job EXCEPT ![j].status = "purged"] /\ used'.purge = used.purge + 1
        /\ \E c : /\ c.job = j /\ c.op = "purge" /\ c.target = Target(j)
                  /\ c.popen <=> /\ thread[j].follow = "popen"
                                 /\ thread[j].pc \in {"register", "kill", "watch"}
                  /\ calls' = calls \cup {c}
    BY <1>5 DEF Purge, Disturb, Disturbances, CountsGrow
  <2>2. /\ Target(j) = "none" <=> ~job[j].pid /\ ~job[j].workerPid
        /\ Target(j) = "worker" <=> job[j].workerPid
    BY DEF Target, Typed, JobRecords
  <2>3. /\ job'[j].status = "purged" /\ used.purge \in Nat /\ job[j].status # "purged"
        /\ job'[j].pid = job[j].pid /\ job'[j].workerPid = job[j].workerPid
    BY <2>1 DEF Typed, JobRecords, Disturbances, CountsGrow, ACTIVE, TERMINAL
  <2>4. CallsOf(j) \subseteq CallsOf(j)' /\ (Outlived(j) => Outlived(j)')
        /\ \E c \in CallsOf(j)' : c.op = "purge"
    BY <2>1 DEF CallsOf, Outlived, Signalled
  <2>5. ProcessOrder(j)' /\ ThreadOrder(j)'
    BY <1>1, <2>1, <2>2, <2>3 DEF Local, ProcessOrder, ThreadOrder, Launched, TERMINAL
  <2>6. job[j].pid /\ Uninterrupted => Launched(j) \/
           (thread[j].follow = "popen" /\ thread[j].pc \in {"register", "kill", "watch"})
    BY <2>3 DEF Local, ThreadOrder, Typed, Threads
  <2>7. CallsKnow(j)'
    BY <1>1, <2>1, <2>2, <2>3, <2>6 DEF Local, ProcessOrder, CallsKnow, CallsOf, Launched
  <2>8. Supervised(j)' /\ HeldBack(j)'
    BY <1>1, <2>1, <2>3, <2>4 DEF Local, Supervised, Halted, Launched, HeldBack
  <2> QED
    BY <2>5, <2>7, <2>8 DEF Local
<1>6. CASE SupervisorDies(j)
  <2>1. ~Intact' /\ ~Uninterrupted'
    BY <1>6 DEF SupervisorDies, Disturb, Intact, Uninterrupted, Disturbances, CountsGrow
  <2>2. /\ UNCHANGED <<job, thread, purged, calls, spared>> /\ CallsOf(j)' = CallsOf(j)
        /\ proc[j].sup # "none" /\ proc'[j].sup = "gone"
        /\ proc'[j].worker = proc[j].worker /\ proc'[j].file = proc[j].file
        /\ proc'[j].held = proc[j].held /\ proc'[j].frozen = proc[j].frozen
    BY <1>6 DEF SupervisorDies, Typed, Processes, CallsOf
  <2>3. ProcessOrder(j)' /\ ThreadOrder(j)'
    BY <1>1, <2>1, <2>2 DEF Local, ProcessOrder, ThreadOrder, Launched
  <2>4. CallsKnow(j)'
    BY <1>1, <2>1, <2>2 DEF Local, CallsKnow
  <2>5. Supervised(j)' /\ HeldBack(j)'
    BY <2>1, <2>2 DEF Local, Supervised, HeldBack, Outlived, Signalled
  <2> QED
    BY <2>3, <2>4, <2>5 DEF Local
<1> QED
  BY <1>2, <1>3, <1>5, <1>6

\* A step of a call that has left the lock keeps what its job relies on.
LEMMA SignalLocal ==
    ASSUME Typed, NEW c \in calls, c \in Calls, NEW j \in Jobs, c.job = j, Local(j), CallStepOf(c)
    PROVE  Local(j)'
<1>0. proc \in [Jobs -> Processes] /\ c.target \in Targets /\ c.op \in {"cancel", "purge", "run"}
  BY DEF Typed, Calls
<1>1. PICK p \in Processes :
        /\ proc' = [proc EXCEPT ![j] = p]
        /\ p.file \in {proc[j].file, "none"}
        /\ p.worker # proc[j].worker => proc[j].worker = "running" /\ p.worker = "done"
        /\ p.sup # proc[j].sup => p.sup = "gone" /\ (proc[j].sup # "none" \/ Present(j, c.target))
        /\ PurgeEnds(c) /\ c.popen /\ proc[j].sup # "none" => p.sup = "gone"
        /\ p.worker = "running" /\ ~Signals(c) => j \in spared'
        /\ p.held => p.frozen \/ (proc[j].held /\ ~proc[j].frozen)
  BY <1>0, CallStepLeaves
<1>2. proc'[j] = p
  BY <1>0, <1>1
<1>3. UNCHANGED <<up, job, cancelReq, purged, used>>
  BY DEF CallStepOf, Signals, CancelEnds, PurgeEnds, RunKillEnds
<1>4. c \in CallsOf(j)
  BY DEF CallsOf
<1>5. p.sup # proc[j].sup => proc[j].sup # "none"
  BY <1>0, <1>1 DEF Present, Local, ProcessOrder
<1>6. Launched(j) => Launched(j)'
  BY <1>1, <1>2 DEF Launched
<1>7. /\ Signals(c) => /\ UNCHANGED <<thread, spared>>
                       /\ \E d : /\ d.job = j /\ d.stage = "kill" /\ d.op = c.op
                                 /\ d.target = c.target /\ d.popen = c.popen
                                 /\ calls' = (calls \ {c}) \cup {d}
      /\ ~Signals(c) => /\ c.stage = "kill" /\ calls' = calls \ {c}
                        /\ spared' \in {spared, spared \cup {j}}
  <2>1. CASE Signals(c)
    <3>1. LET d == [c EXCEPT !.stage = "kill"]
          IN  /\ d.job = j /\ d.stage = "kill" /\ d.op = c.op
              /\ d.target = c.target /\ d.popen = c.popen
      BY DEF Calls
    <3> QED
      BY <2>1, <3>1 DEF Signals
  <2>2. CASE ~Signals(c)
    BY <2>2 DEF CallStepOf, CancelEnds, PurgeEnds, RunKillEnds, Leaves
  <2> QED
    BY <2>1, <2>2
<1>8. thread' = thread \/ (c.op = "run" /\ ~Signals(c) /\ thread' = [thread EXCEPT ![j].pc = "watch"])
  BY DEF CallStepOf, Signals, CancelEnds, PurgeEnds, RunKillEnds
<1>9. Outlived(j)' \/ (p.worker # "running" /\ ~Signals(c))
  BY <1>1, <1>7 DEF Outlived, Signalled
<1>10. c.op = "run" => thread[j].pc = "kill"
  BY <1>4 DEF Local, CallsKnow
<1>11. thread'[j].follow = thread[j].follow /\ thread'[j].pc \in {thread[j].pc, "watch"}
       /\ (thread'[j].pc # thread[j].pc => thread[j].pc = "kill")
  BY <1>8, <1>10 DEF Typed, Threads
<1>12. ProcessOrder(j)'
  BY <1>1, <1>2, <1>3, <1>5 DEF Local, ProcessOrder
<1>13. ThreadOrder(j)'
  BY <1>1, <1>2, <1>3, <1>5, <1>6, <1>11 DEF Local, ThreadOrder, Uninterrupted, Intact
<1>14. CallsKnow(j)'
  <2>1. \A d \in CallsOf(j)' : \E e \in CallsOf(j) : /\ d.op = e.op /\ d.target = e.target
                                                     /\ d.popen = e.popen
    BY <1>4, <1>7 DEF CallsOf
  <2>2. proc[j].worker # "none" => proc'[j].worker # "none"
    BY <1>1, <1>2
  <2>3. \A d \in CallsOf(j)' : d.op = "run" => thread'[j].pc = "kill" /\ thread'[j].cancelled
    <3>1. CASE thread' = thread
      BY <2>1, <3>1 DEF Local, CallsKnow
    <3>2. CASE c.op = "run" /\ ~Signals(c)
      <4>1. CallsOf(j)' = CallsOf(j) \ {c}
        BY <1>7, <3>2 DEF CallsOf
      <4> QED
        BY <1>4, <3>2, <4>1 DEF Local, CallsKnow
    <3> QED
      BY <1>8, <3>1, <3>2
  <2>4. \A d, e \in CallsOf(j)' : d.op = "run" /\ e.op = "run" => d = e
    <3>1. CASE ~Signals(c)
      BY <1>7, <3>1 DEF CallsOf, Local, CallsKnow
    <3>2. CASE Signals(c)
      <4>1. PICK d : d.job = j /\ d.op = c.op /\ calls' = (calls \ {c}) \cup {d}
        BY <1>7, <3>2
      <4>2. CallsOf(j)' = (CallsOf(j) \ {c}) \cup {d}
        BY <4>1 DEF CallsOf
      <4> QED
        BY <1>4, <4>1, <4>2 DEF Local, CallsKnow
    <3> QED
      BY <3>1, <3>2
  <2>5. \A d \in CallsOf(j)' :
          /\ d.op = "purge" => /\ j \in purged' /\ used'.purge > 0
                               /\ d.target = "none" => ~job'[j].pid
                               /\ job'[j].pid /\ Uninterrupted' => d.popen \/ Launched(j)'
          /\ d.op = "cancel" => used'.cancel > 0
          /\ d.target = "worker" => proc'[j].worker # "none"
    BY <1>3, <1>6, <2>1, <2>2 DEF Local, CallsKnow, Uninterrupted, Intact
  <2> QED
    BY <2>3, <2>4, <2>5 DEF CallsKnow
<1>15. Supervised(j)'
  <2> SUFFICES ASSUME Intact PROVE (Supervised(j)!2)'
    BY <1>3 DEF Intact, Supervised
  <2>1. proc'[j].worker = "running" => Outlived(j)'
    BY <1>2, <1>9
  <2>2. Launched(j) => Halted(j)'
    BY <1>6, <2>1 DEF Halted
  <2>3. thread'[j].pc = "finish" => Halted(j)' \/ j \in purged'
    BY <1>3, <1>11, <2>2 DEF Local, Supervised, Halted
  <2>4. job'[j].pid /\ job'[j].status \in {"cancelled", "failed"} => Halted(j)'
    BY <1>3, <2>2 DEF Local, Supervised, Halted
  <2>5. ASSUME job[j].pid, job[j].status = "purged", Uninterrupted
        PROVE  Halted(j)' \/ \E d \in CallsOf(j)' : d.op = "purge"
    <3>1. CASE Halted(j)
      BY <2>2, <3>1 DEF Halted
    <3>2. CASE Signals(c) /\ c.op = "purge"
      BY <1>7, <3>2 DEF CallsOf
    <3>3. CASE c.op # "purge" /\ \E d \in CallsOf(j) : d.op = "purge"
      BY <1>7, <3>3 DEF CallsOf
    <3>4. CASE ~Signals(c) /\ c.op = "purge"
      <4>1. PurgeEnds(c)
        BY <3>4 DEF CallStepOf, CancelEnds, RunKillEnds
      <4>2. c.popen \/ Launched(j)
        BY <1>4, <2>5, <3>4 DEF Local, CallsKnow
      <4>3. proc[j].sup # "none"
        BY <2>5 DEF Local, ProcessOrder
      <4>4. Launched(j)'
        BY <1>1, <1>2, <1>6, <4>1, <4>2, <4>3 DEF Launched
      <4> QED
        BY <2>1, <4>4 DEF Halted
    <3> QED
      BY <2>5, <3>1, <3>2, <3>3, <3>4 DEF Local, Supervised
  <2> QED
    BY <1>3, <2>1, <2>3, <2>4, <2>5 DEF Uninterrupted, Intact
<1>16. HeldBack(j)'
  BY <1>1, <1>2, <1>9 DEF Local, HeldBack
<1> QED
  BY <1>12, <1>13, <1>14, <1>15, <1>16 DEF Local

\* What one job relies on is not disturbed by steps of another.
LEMMA ElsewhereLocal ==
    ASSUME NEW i \in Jobs, Local(i), CountsGrow,
           UNCHANGED <<job[i], proc[i], thread[i], CallsOf(i)>>, (i \in purged') <=> i \in purged,
           (i \in spared') <=> i \in spared
    PROVE  Local(i)'
<1>1. /\ Intact' => Intact
      /\ Uninterrupted' => Uninterrupted
      /\ used.purge > 0 => used'.purge > 0
      /\ used.cancel > 0 => used'.cancel > 0
  BY DEF Intact, Uninterrupted, Disturbances, CountsGrow
<1> QED
  BY <1>1 DEF Local, ProcessOrder, ThreadOrder, CallsKnow, HeldBack,
     Supervised, Halted, Launched, Outlived, Signalled, CallsOf

\* The API dies: processes go on.
LEMMA CrashLocal ==
    ASSUME Typed, NEW i \in Jobs, Local(i), used \in [Disturbances -> Nat], Crash
    PROVE  Local(i)'
<1>1. (Intact' => Intact) /\ ~Uninterrupted'
  BY DEF Intact, Uninterrupted, Disturbances, Crash, Disturb
<1>2. /\ UNCHANGED <<job, proc>> /\ purged' = {} /\ calls' = {} /\ thread'[i].pc = "none"
      /\ CallsOf(i)' = {}
      /\ proc[i].worker = "running" /\ Outlived(i) => Outlived(i)'
  BY DEF Crash, NoThread, CallsOf, Outlived
<1>3. ProcessOrder(i)' /\ ThreadOrder(i)'
  BY <1>1, <1>2 DEF Local, ProcessOrder, ThreadOrder
<1>4. CallsKnow(i)'
  BY <1>2 DEF CallsKnow
<1>5. HeldBack(i)' /\ Supervised(i)'
  BY <1>1, <1>2 DEF Local, HeldBack, Supervised, Halted, Launched
<1> QED
  BY <1>3, <1>4, <1>5 DEF Local

\* _load: a live process gets a thread, a recorded exit a _finalize.
LEMMA LoadLocal ==
    ASSUME Typed, NEW i \in Jobs, Local(i), Down, Load
    PROVE  Local(i)'
<1>1. /\ UNCHANGED <<proc, purged, calls, spared, used>>
      /\ purged = {} /\ calls = {} /\ thread[i].pc = "none" /\ ~Uninterrupted'
  BY DEF Load, Down, Uninterrupted
<1>2. /\ CallsOf(i)' = {} /\ (Outlived(i)' <=> Outlived(i))
      /\ job'[i].pid = job[i].pid /\ job'[i].workerPid \in {job[i].workerPid, WorkerKnown(i)}
      /\ job[i].status = "purged" => job'[i].status = "purged"
  BY <1>1 DEF CallsOf, Outlived, Signalled, Load, Recovered, ACTIVE, Typed, JobRecords
<1>3. CallsKnow(i)' /\ HeldBack(i)'
  BY <1>1, <1>2 DEF Local, CallsKnow, HeldBack
<1>4. ProcessOrder(i)'
  BY <1>1, <1>2 DEF Local, ProcessOrder, WorkerKnown
<1>5. CASE job[i].status \notin ACTIVE
  <2>1. job'[i] = job[i] /\ thread'[i].pc = "none"
    BY <1>5 DEF Load, NoThread
  <2>2. ThreadOrder(i)' /\ Supervised(i)'
    BY <1>1, <1>2, <2>1 DEF Local, ThreadOrder, Supervised, Halted, Launched, Intact
  <2> QED
    BY <1>3, <1>4, <2>2 DEF Local
<1>6. CASE job[i].status \in ACTIVE
  <2>1. job'[i] = Recovered(i) /\ thread'[i] = RecoveredThread(i)
    BY <1>6 DEF Load
  <2>2. ThreadOrder(i)'
    BY <1>1, <1>2, <1>6, <2>1 DEF Local, ThreadOrder, ProcessOrder, Recovered, RecoveredThread,
       NoThread, Followed, SupervisorAlive, WorkerAlive, WorkerKnown, ACTIVE, TERMINAL, Typed,
       JobRecords
  <2>3. Supervised(i)'
    <3> SUFFICES ASSUME Intact PROVE (Supervised(i)!2)'
      BY <1>1 DEF Supervised, Intact
    <3>1. proc[i].worker = "running" => proc[i].sup \in {"spawned", "waiting"} \/ Outlived(i)
      BY <1>6 DEF Local, Supervised, ACTIVE
    <3>2. thread'[i].pc = "finish" => Halted(i)'
      BY <1>1, <2>1 DEF Local, ProcessOrder, RecoveredThread, NoThread, Halted, Launched
    <3>3. job[i].pid /\ job'[i].status \in {"cancelled", "failed"} => Halted(i)'
      <4>1. job'[i].status \in {"cancelled", "failed"} => Followed(i) = "none"
        BY <1>6, <2>1 DEF Recovered, ACTIVE, Typed, JobRecords
      <4>2. job[i].pid /\ Followed(i) = "none" => proc[i].sup \notin {"starting", "spawned", "waiting"}
        BY DEF Followed, SupervisorAlive
      <4>3. job[i].pid => proc[i].sup # "none"
        BY DEF Local, ProcessOrder
      <4> QED
        BY <1>1, <1>2, <3>1, <4>1, <4>2, <4>3 DEF Halted, Launched
    <3> QED
      BY <1>1, <1>2, <3>1, <3>2, <3>3
  <2> QED
    BY <1>3, <1>4, <2>2, <2>3 DEF Local
<1> QED
  BY <1>5, <1>6

\* A step of one job leaves the others alone.
LEMMA OthersUntouched ==
    ASSUME Typed, NEW j \in Jobs, NEW i \in Jobs, i # j,
           \/ ThreadStep(j) \/ ProcessStep(j) \/ SupervisorDies(j)
           \/ Cancel(j) \/ Pause(j) \/ Resume(j) \/ Purge(j)
    PROVE  /\ UNCHANGED <<job[i], proc[i], thread[i], CallsOf(i)>>
           /\ (i \in purged' <=> i \in purged) /\ (i \in spared' <=> i \in spared)
<1>1. CASE Cancel(j) \/ Purge(j)
  <2>1. /\ UNCHANGED <<job[i], proc[i], thread[i], spared>>
        /\ (i \in purged' <=> i \in purged)
    BY <1>1 DEF Typed, Cancel, Purge
  <2>2. calls' = calls \/ \E c : c.job = j /\ calls' = calls \cup {c}
    BY <1>1 DEF Cancel, Purge
  <2> QED
    BY <2>1, <2>2 DEF CallsOf
<1>5. CASE RunRegister(j)
  <2>1. /\ UNCHANGED <<job[i], proc[i], thread[i], spared, purged>>
    BY <1>5 DEF Typed, RunRegister, Updated, Goto
  <2>2. calls' = calls \/ \E c : c.job = j /\ calls' = calls \cup {c}
    BY <1>5 DEF RunRegister
  <2> QED
    BY <2>1, <2>2 DEF CallsOf
<1>2. CASE RunCheck(j) \/ RunBegin(j) \/ RunBaseline(j) \/ RunSpawn(j) \/ RunSpawnFails(j)
  BY <1>2 DEF Typed, RunCheck, RunBegin, RunBaseline, RunSpawn, RunSpawnFails, Updated, Goto,
     End, CallsOf
<1>3. CASE WatchPurged(j) \/ WatchWorker(j) \/ WatchEnds(j) \/ Finalize(j)
  BY <1>3 DEF Typed, WatchPurged, WatchWorker, WatchEnds, Finalize, Updated, Goto,
     End, CallsOf
<1>4. CASE ProcessStep(j) \/ SupervisorDies(j) \/ Pause(j) \/ Resume(j)
  BY <1>4 DEF Typed, ProcessStep, SupervisorSpawns, SupervisorReports, SupervisorEnds,
     WorkerWrites, WorkerEnds, SupervisorDies, Pause, Resume, CallsOf
<1> QED
  BY <1>1, <1>2, <1>3, <1>4, <1>5 DEF ThreadStep

\* Every step keeps what each job relies on.
LEMMA StepLocal ==
    ASSUME TypeOK, Down, \A j \in Jobs : Local(j), [Next]_vars
    PROVE  \A j \in Jobs : Local(j)'
<1> SUFFICES ASSUME NEW i \in Jobs PROVE Local(i)'
  OBVIOUS
<1>1. Typed /\ Local(i) /\ calls \subseteq Calls
  BY DEF TypeOK, Typed
<1>2. CountsGrow
  BY UsedGrows
<1>3. CASE \E j \in Jobs : ThreadStep(j) \/ ProcessStep(j)
  BY <1>1, <1>2, <1>3, ThreadStepLocal, ProcessStepLocal, OthersUntouched, ElsewhereLocal
<1>4. CASE \E j \in Jobs : Cancel(j) \/ Pause(j) \/ Resume(j) \/ Purge(j) \/ SupervisorDies(j)
  <2>1. UNCHANGED thread
    BY <1>4 DEF Cancel, Pause, Resume, Purge, SupervisorDies
  <2> QED
    BY <1>1, <1>2, <1>4, <2>1, CallLocal, OthersUntouched, ElsewhereLocal
<1>5. CASE Submit \/ \E j \in Jobs : Retry(j)
  <2>1. PICK k \in Jobs : Enqueue(k) /\ job[k].status = "new" /\ UNCHANGED <<proc, calls, purged, spared>>
    BY <1>5, BoundsAssumption DEF Submit, Retry, Jobs
  <2>2. CASE i = k
    BY <1>1, <1>2, <2>1, <2>2, EnqueueLocal
  <2>3. CASE i # k
    <3>1. /\ UNCHANGED <<job[i], proc[i], thread[i], CallsOf(i)>>
          /\ (i \in purged' <=> i \in purged) /\ (i \in spared' <=> i \in spared)
      BY <1>1, <2>1, <2>3 DEF Enqueue, Typed, CallsOf
    <3> QED
      BY <1>1, <1>2, <3>1, ElsewhereLocal
  <2> QED
    BY <2>2, <2>3
<1>6. CASE CallStep
  <2>1. PICK c \in calls : CallStepOf(c)
    BY <1>6 DEF CallStep, CallStepOf
  <2>2. CASE i = c.job
    BY <1>1, <2>1, <2>2, SignalLocal
  <2>3. CASE i # c.job
    <3>1. /\ UNCHANGED <<job[i], proc[i], thread[i], CallsOf(i)>>
          /\ (i \in purged' <=> i \in purged) /\ (i \in spared' <=> i \in spared)
      <4>1. CASE Signals(c)
        BY <1>1, <2>3, <4>1 DEF Signals, Typed, CallsOf, Calls
      <4>2. CASE CancelEnds(c)
        BY <1>1, <2>3, <4>2 DEF CancelEnds, Leaves, Typed, CallsOf, Calls
      <4>3. CASE PurgeEnds(c)
        BY <1>1, <2>3, <4>3 DEF PurgeEnds, Leaves, Typed, CallsOf, Calls
      <4>4. CASE RunKillEnds(c)
        BY <1>1, <2>3, <4>4 DEF RunKillEnds, Leaves, Typed, CallsOf, Calls
      <4> QED
        BY <2>1, <4>1, <4>2, <4>3, <4>4 DEF CallStepOf
    <3> QED
      BY <1>1, <1>2, <3>1, ElsewhereLocal
  <2> QED
    BY <2>2, <2>3
<1>7. CASE Crash
  BY <1>1, <1>2, <1>7, CrashLocal DEF CountsGrow
<1>8. CASE Load
  BY <1>1, <1>8, LoadLocal
<1>9. CASE UNCHANGED vars
  <2>1. /\ UNCHANGED <<job[i], proc[i], thread[i], CallsOf(i)>>
          /\ (i \in purged' <=> i \in purged) /\ (i \in spared' <=> i \in spared)
    BY <1>9 DEF vars, CallsOf
  <2> QED
    BY <1>1, <1>2, <2>1, ElsewhereLocal
<1> QED
  BY <1>3, <1>4, <1>5, <1>6, <1>7, <1>8, <1>9 DEF Next

\* Only _load brings the API back.
LEMMA StepDown == ASSUME TypeOK, Down, [Next]_vars PROVE Down'
<1>1. CASE Load
  BY <1>1 DEF Load, Down
<1>2. CASE Crash
  <2>1. used'.restart = used.restart + 1 /\ used.restart \in Nat
    BY <1>2 DEF Crash, Disturb, Disturbances, TypeOK
  <2> QED
    BY <1>2, <2>1 DEF Crash, Down, NoThread
<1>3. ASSUME up, UNCHANGED up PROVE Down'
  BY <1>3 DEF Down
<1>4. CASE \/ CallStep \/ Submit
           \/ \E j \in Jobs : \/ Retry(j) \/ Cancel(j) \/ Pause(j) \/ Resume(j) \/ Purge(j)
                             \/ ThreadStep(j)
  <2>1. up /\ UNCHANGED up
    BY <1>4 DEF CallStep, Signals, CancelEnds, PurgeEnds, RunKillEnds, Submit, Retry, Cancel,
       Pause, Resume, Purge, ThreadStep, RunCheck, RunBegin, RunBaseline, RunSpawn, RunSpawnFails,
       RunRegister, WatchPurged, WatchWorker, WatchEnds, Finalize
  <2> QED
    BY <1>3, <2>1
<1>6. CASE \E j \in Jobs : ProcessStep(j) \/ SupervisorDies(j)
  <2>1. UNCHANGED <<up, thread, cancelReq, purged, calls>>
    BY <1>6 DEF ProcessStep, SupervisorSpawns, SupervisorReports, SupervisorEnds, WorkerWrites,
       WorkerEnds, SupervisorDies
  <2>2. CountsGrow
    BY UsedGrows
  <2> QED
    BY <2>1, <2>2 DEF Down, Disturbances, CountsGrow
<1>7. CASE UNCHANGED vars
  BY <1>7 DEF vars, Down
<1> QED
  BY <1>1, <1>2, <1>3, <1>4, <1>6, <1>7 DEF Next

\* The inductive invariant of the supervision.
IInv == TypeOK /\ Down /\ \A j \in Jobs : Local(j)

\* The invariant holds at the start.
LEMMA InitInv == Init => IInv
<1> SUFFICES ASSUME Init PROVE IInv
  OBVIOUS
<1>1. Down /\ \A j \in Jobs : Local(j)
  BY DEF Init, Down, NoThread, Local, ProcessOrder, ThreadOrder, CallsKnow, CallsOf,
     HeldBack, Supervised, TERMINAL
<1> QED
  BY <1>1, InitTyped DEF IInv

\* Every step keeps the invariant.
LEMMA InvStep == IInv /\ [Next]_vars => IInv'
BY StepTyped, StepDown, StepLocal DEF IInv

-----------------------------------------------------------------------------
(* Attempts one after another *)

\* Nothing of the attempt runs or will: no thread, no worker, no supervisor about to
\* start one.
Over(j) == /\ job[j].status \in {"failed", "purged"} /\ thread[j].pc = "none"
           /\ proc[j].worker # "running" /\ proc[j].sup # "starting"

Uncancelled(j) == job[j].status # "cancelled" /\ (thread[j].cancelled => j \in purged)

\* Without a cancel call no thread finds its job cancelled, a purge apart.
NoneCancelled == used.cancel = 0 => cancelReq \subseteq purged /\ \A j \in Jobs : Uncancelled(j)

FailedAreOver == OneByOne => \A j \in Jobs : job[j].status = "failed" => Over(j)

\* Without a cancel call only purged jobs are signalled.
SignalledArePurged == OneByOne => \A j \in Jobs : Outlived(j) => job[j].status = "purged"

InTurn ==
    OneByOne => \A i, j \in Jobs : i < j /\ job[j].status # "new" => Over(i)

\* From the baseline on, an output that differs from it is the job's own.
Evident(j) ==
    /\ thread[j].pc \in {"spawn", "register", "kill", "watch", "finish"} /\ j \notin purged
         => out \in {0, job[j].base} \/ proc[j].wrote
    /\ job[j].status = "succeeded" => proc[j].wrote

Evidence == OneByOne => \A j \in Jobs : Evident(j)

\* What was not disturbed after a step was not disturbed before it.
LEMMA FewerBefore ==
    ASSUME TypeOK, [Next]_vars
    PROVE  /\ Uninterrupted' => Uninterrupted /\ ~Crash /\ \A j \in Jobs : ~SupervisorDies(j)
           /\ OneByOne' => OneByOne
           /\ used'.cancel = 0 => used.cancel = 0 /\ \A j \in Jobs : ~Cancel(j)
<1>1. /\ used \in [Disturbances -> Nat] /\ used' \in [Disturbances -> Nat]
      /\ \A d \in Disturbances : used'[d] >= used[d]
  BY UsedGrows DEF CountsGrow
<1>2. ASSUME NEW d \in Disturbances, used'[d] = 0 PROVE ~Disturb(d) /\ used[d] = 0
  BY <1>1, <1>2 DEF Disturb
<1>3. /\ used'["kill"] = 0 => ~Disturb("kill") /\ used["kill"] = 0
      /\ used'["restart"] = 0 => ~Disturb("restart") /\ used["restart"] = 0
      /\ used'["cancel"] = 0 => ~Disturb("cancel") /\ used["cancel"] = 0
      /\ used'["again"] = 0 => used["again"] = 0
  BY <1>2 DEF Disturbances
<1> QED
  BY <1>3 DEF Uninterrupted, OneByOne, Intact, Crash, SupervisorDies, Cancel

\* An attempt that is over stays so.
LEMMA OverStays ==
    ASSUME IInv, [Next]_vars, Uninterrupted', NEW i \in Jobs, Over(i)
    PROVE  Over(i)'
<1>1. Typed /\ ~Crash /\ up /\ \A j \in Jobs : ~SupervisorDies(j)
  BY FewerBefore DEF IInv, Typed, TypeOK, Down, Uninterrupted
<1>2. ASSUME UNCHANGED <<job[i], proc[i], thread[i]>> PROVE Over(i)'
  BY <1>2 DEF Over
<1>3. CASE \E j \in Jobs : ThreadStep(j)
  <2>1. PICK j \in Jobs : ThreadStep(j)
    BY <1>3
  <2>2. thread[j].pc # "none"
    BY <2>1 DEF ThreadStep, RunCheck, RunBegin, RunBaseline, RunSpawn, RunSpawnFails, RunRegister,
       WatchPurged, WatchWorker, WatchEnds, Finalize
  <2> QED
    BY <1>1, <1>2, <2>1, <2>2, OthersUntouched DEF Over
<1>4. CASE \E j \in Jobs : ProcessStep(j)
  <2>1. PICK j \in Jobs : ProcessStep(j)
    BY <1>4
  <2>2. CASE i = j
    <3>1. /\ proc[i] \in Processes /\ proc[i].worker # "running" /\ proc[i].sup # "starting"
          /\ proc \in [Jobs -> Processes]
      BY <1>1 DEF Over, Typed
    <3>2. ~SupervisorSpawns(i) /\ ~WorkerWrites(i) /\ ~WorkerEnds(i)
      BY <3>1 DEF SupervisorSpawns, WorkerWrites, WorkerEnds
    <3>3. SupervisorReports(i) \/ SupervisorEnds(i)
      BY <2>1, <2>2, <3>2 DEF ProcessStep
    <3>4. proc'[i].worker = proc[i].worker /\ proc'[i].sup \in {"waiting", "gone"}
      <4>1. CASE SupervisorReports(i)
        BY <3>1, <4>1 DEF SupervisorReports, Processes
      <4>2. CASE SupervisorEnds(i)
        BY <3>1, <4>2 DEF SupervisorEnds, Processes
      <4> QED
        BY <3>3, <4>1, <4>2
    <3>5. UNCHANGED <<job, thread>>
      BY <3>3 DEF SupervisorReports, SupervisorEnds
    <3> QED
      BY <3>1, <3>4, <3>5 DEF Over
  <2> QED
    BY <1>1, <1>2, <2>1, <2>2, OthersUntouched
<1>5. CASE \E j \in Jobs : Cancel(j) \/ Pause(j) \/ Resume(j) \/ Purge(j)
  <2>1. PICK j \in Jobs : Cancel(j) \/ Pause(j) \/ Resume(j) \/ Purge(j)
    BY <1>5
  <2>2. CASE i = j
    <3>1. Purge(i)
      BY <2>1, <2>2 DEF Over, Cancel, Pause, Resume, ACTIVE
    <3> QED
      BY <1>1, <3>1 DEF Over, Purge, Typed, JobRecords
  <2> QED
    BY <1>1, <1>2, <2>1, <2>2, OthersUntouched
<1>6. CASE Submit \/ \E j \in Jobs : Retry(j)
  <2>1. PICK k \in Jobs : Enqueue(k) /\ job[k].status = "new" /\ UNCHANGED proc
    BY <1>6, BoundsAssumption DEF Submit, Retry, Jobs
  <2> QED
    BY <1>1, <1>2, <2>1 DEF Enqueue, Typed, Over
<1>7. CASE CallStep
  <2>1. PICK c \in calls : CallStepOf(c)
    BY <1>7 DEF CallStep, CallStepOf
  <2>2. c \in Calls /\ c.job \in Jobs
    BY DEF IInv, TypeOK, Calls
  <2>3. CASE i = c.job
    <3>1. /\ proc[i].worker # "running" => proc'[i].worker # "running"
          /\ proc[i].sup # "starting" => proc'[i].sup # "starting"
      BY <1>1, <2>1, <2>2, <2>3, CallStepLeaves DEF Typed
    <3>2. ~RunKillEnds(c)
      BY <2>3 DEF IInv, Local, CallsKnow, CallsOf, RunKillEnds, Over
    <3>3. UNCHANGED <<job, thread>>
      BY <2>1, <3>2 DEF CallStepOf, Signals, CancelEnds, PurgeEnds
    <3> QED
      BY <3>1, <3>3 DEF Over
  <2>4. CASE i # c.job
    BY <1>1, <1>2, <2>1, <2>2, <2>4
    DEF CallStepOf, Signals, CancelEnds, PurgeEnds, RunKillEnds, Leaves, Typed
  <2> QED
    BY <2>3, <2>4
<1>8. CASE Load \/ UNCHANGED vars
  BY <1>1, <1>2, <1>8 DEF Load, vars
<1> QED
  BY <1>1, <1>3, <1>4, <1>5, <1>6, <1>7, <1>8 DEF Next

\* A thread sets its cancel flag, and a job is cancelled, from _cancel_requested only.
LEMMA ThreadStepUncancelled ==
    ASSUME Typed, NEW j \in Jobs, cancelReq \subseteq purged, Uncancelled(j), ThreadStep(j)
    PROVE  Uncancelled(j)' /\ UNCHANGED <<cancelReq, purged>>
<1> USE DEF Typed, JobRecords, Threads, Uncancelled, Updated, Goto, End, NoThread
<1>1. CASE RunCheck(j) \/ RunBegin(j)
  BY <1>1 DEF RunCheck, RunBegin
<1>2. CASE RunBaseline(j) \/ RunSpawn(j)
  BY <1>2 DEF RunBaseline, RunSpawn
<1>3. CASE RunSpawnFails(j)
  BY <1>3 DEF RunSpawnFails
<1>4. CASE RunRegister(j)
  BY <1>4 DEF RunRegister
<1>5. CASE WatchPurged(j) \/ WatchWorker(j)
  BY <1>5 DEF WatchPurged, WatchWorker
<1>6. CASE WatchEnds(j)
  BY <1>6 DEF WatchEnds
<1>7. CASE Finalize(j)
  BY <1>7 DEF Finalize, Verdict, ExitCode
<1> QED
  BY <1>1, <1>2, <1>3, <1>4, <1>5, <1>6, <1>7 DEF ThreadStep

\* Every step keeps NoneCancelled.
LEMMA NoneCancelledStep == ASSUME IInv, NoneCancelled, [Next]_vars PROVE NoneCancelled'
<1> SUFFICES ASSUME used'.cancel = 0
             PROVE  cancelReq' \subseteq purged' /\ \A i \in Jobs : Uncancelled(i)'
  BY DEF NoneCancelled
<1>1. /\ Typed
      /\ \A j \in Jobs : ~Cancel(j)
      /\ cancelReq \subseteq purged
      /\ \A j \in Jobs : Uncancelled(j)
  BY FewerBefore DEF IInv, Typed, TypeOK, Down, NoneCancelled
<1>2. ASSUME UNCHANGED <<job, thread, purged, cancelReq>>
      PROVE  cancelReq' \subseteq purged' /\ \A i \in Jobs : Uncancelled(i)'
  BY <1>1, <1>2 DEF Uncancelled
<1>3. CASE \E j \in Jobs : ThreadStep(j)
  <2>1. PICK j \in Jobs : ThreadStep(j)
    BY <1>3
  <2>2. Uncancelled(j)' /\ UNCHANGED <<cancelReq, purged>>
    BY <1>1, <2>1, ThreadStepUncancelled
  <2>3. ASSUME NEW i \in Jobs, i # j PROVE Uncancelled(i)'
    BY <1>1, <2>1, <2>2, <2>3, OthersUntouched DEF Uncancelled
  <2> QED
    BY <1>1, <2>2, <2>3
<1>6. CASE \E j \in Jobs : Pause(j) \/ Resume(j) \/ Purge(j)
  <2>1. PICK j \in Jobs : Pause(j) \/ Resume(j) \/ Purge(j)
    BY <1>6
  <2>2. /\ UNCHANGED thread /\ cancelReq' \subseteq purged' /\ purged \subseteq purged'
        /\ \E s \in {"paused", "running", "purged"} : job' = [job EXCEPT ![j].status = s]
    BY <1>1, <2>1 DEF Pause, Resume, Purge
  <2> QED
    BY <1>1, <2>1, <2>2 DEF Uncancelled, Typed, JobRecords
<1>7. CASE Submit \/ \E j \in Jobs : Retry(j)
  <2>1. PICK k \in Jobs : Enqueue(k) /\ UNCHANGED <<cancelReq, purged>>
    BY <1>7, BoundsAssumption DEF Submit, Retry, Jobs
  <2> QED
    BY <1>1, <2>1 DEF Enqueue, Uncancelled, Typed, JobRecords, Threads
<1>8. CASE Crash
  BY <1>1, <1>8 DEF Crash, NoThread, Uncancelled
<1>9. CASE Load
  <2>1. UNCHANGED <<cancelReq, purged>>
    BY <1>9 DEF Load
  <2>2. ASSUME NEW i \in Jobs PROVE job'[i].status # "cancelled" /\ ~thread'[i].cancelled
    <3>1. job[i].status # "cancelled" /\ proc[i] \in Processes /\ job[i] \in JobRecords
      BY <1>1 DEF Uncancelled, Typed
    <3>2. Recovered(i).status # "cancelled" /\ ~RecoveredThread(i).cancelled
      BY <3>1 DEF Recovered, RecoveredThread, NoThread, JobRecords
    <3> QED
      BY <1>9, <3>1, <3>2 DEF Load, NoThread
  <2> QED
    BY <1>1, <2>1, <2>2 DEF Uncancelled
<1>10. CASE \E j \in Jobs : ProcessStep(j) \/ SupervisorDies(j)
  BY <1>2, <1>10 DEF ProcessStep, SupervisorSpawns, SupervisorReports, SupervisorEnds,
     WorkerWrites, WorkerEnds, SupervisorDies
<1>11. CASE CallStep
  <2>1. PICK c \in calls : CallStepOf(c)
    BY <1>11 DEF CallStep, CallStepOf
  <2>2. UNCHANGED <<job, cancelReq, purged>>
    BY <2>1 DEF CallStepOf, Signals, CancelEnds, PurgeEnds, RunKillEnds
  <2>3. thread' = thread \/ \E j \in Jobs : thread' = [thread EXCEPT ![j].pc = "watch"]
    <3>1. c.job \in Jobs
      BY DEF IInv, TypeOK, Calls
    <3> QED
      BY <2>1, <3>1 DEF CallStepOf, Signals, CancelEnds, PurgeEnds, RunKillEnds
  <2>4. \A i \in Jobs : thread'[i].cancelled = thread[i].cancelled
    BY <1>1, <2>3 DEF Typed, Threads
  <2> QED
    BY <1>1, <2>2, <2>4 DEF Uncancelled
<1>12. CASE UNCHANGED vars
  BY <1>2, <1>12 DEF vars
<1> QED
  BY <1>1, <1>3, <1>6, <1>7, <1>8, <1>9, <1>10, <1>11, <1>12 DEF Next

\* A job fails because Popen raised or because what was followed has ended.
LEMMA FailedAreOverStep ==
    ASSUME IInv, FailedAreOver, SignalledArePurged, [Next]_vars PROVE FailedAreOver'
<1> SUFFICES ASSUME OneByOne', NEW i \in Jobs, job'[i].status = "failed" PROVE Over(i)'
  BY DEF FailedAreOver
<1>1. Typed /\ ~Crash /\ up /\ OneByOne /\ Uninterrupted' /\ Local(i)
  BY FewerBefore DEF IInv, Typed, TypeOK, Down, Uninterrupted, OneByOne
<1>2. CASE job[i].status = "failed"
  BY <1>1, <1>2, OverStays DEF FailedAreOver
<1>3. CASE job[i].status # "failed"
  <2>1. job'[i].status # job[i].status
    BY <1>3
  <2>2. CASE RunSpawnFails(i)
    BY <1>1, <2>2 DEF RunSpawnFails, End, NoThread, Typed, JobRecords, Threads, Over, Local,
       ProcessOrder, ThreadOrder
  <2>3. CASE Finalize(i)
    <3>1. i \notin purged
      BY <2>1, <2>3 DEF Finalize, Updated
    <3>2. ~Outlived(i)
      BY <1>1, <2>3, <3>1 DEF SignalledArePurged, Local, ThreadOrder, Finalize
    <3>3. Halted(i)
      BY <1>1, <2>3, <3>1 DEF Finalize, Local, Supervised, OneByOne, Uninterrupted
    <3> QED
      BY <1>1, <2>3, <3>2, <3>3 DEF Finalize, End, NoThread, Typed, Over, Halted, Launched
  <2>4. CASE \/ RunCheck(i) \/ RunBegin(i) \/ RunBaseline(i) \/ RunSpawn(i) \/ RunRegister(i)
             \/ WatchPurged(i) \/ WatchWorker(i) \/ WatchEnds(i) \/ ProcessStep(i)
    <3>1. CASE \/ RunSpawn(i) \/ WatchPurged(i) \/ WatchEnds(i) \/ ProcessStep(i)
      <4>1. UNCHANGED job
        BY <3>1 DEF RunSpawn, WatchPurged, WatchEnds, ProcessStep, SupervisorSpawns,
           SupervisorReports, SupervisorEnds, WorkerWrites, WorkerEnds
      <4> QED
        BY <2>1, <4>1
    <3>2. CASE RunCheck(i) \/ RunBegin(i)
      BY <1>1, <2>1, <3>2 DEF RunCheck, RunBegin, Updated, Typed, JobRecords
    <3>3. CASE RunBaseline(i) \/ RunRegister(i)
      BY <1>1, <2>1, <3>3 DEF RunBaseline, RunRegister, Updated, Typed, JobRecords
    <3>4. CASE WatchWorker(i)
      BY <1>1, <2>1, <3>4 DEF WatchWorker, Typed, JobRecords
    <3> QED
      BY <2>4, <3>1, <3>2, <3>3, <3>4
  <2>5. CASE Cancel(i) \/ Pause(i) \/ Resume(i) \/ Purge(i) \/ SupervisorDies(i)
    <3>1. \/ UNCHANGED job
          \/ \E s \in {"cancelled", "cancelling", "paused", "running", "purged"} :
               job' = [job EXCEPT ![i].status = s]
      BY <2>5 DEF Cancel, Pause, Resume, Purge, SupervisorDies
    <3> QED
      BY <1>1, <2>1, <3>1 DEF Typed, JobRecords
  <2>6. CASE \E j \in Jobs \ {i} : \/ ThreadStep(j) \/ ProcessStep(j) \/ SupervisorDies(j)
                                   \/ Cancel(j) \/ Pause(j) \/ Resume(j) \/ Purge(j)
    BY <1>1, <2>1, <2>6, OthersUntouched
  <2>7. CASE Submit \/ \E j \in Jobs : Retry(j)
    <3>1. PICK k \in Jobs : Enqueue(k)
      BY <2>7, BoundsAssumption DEF Submit, Retry, Jobs
    <3> QED
      BY <1>1, <2>1, <3>1 DEF Enqueue, Typed, JobRecords
  <2>8. CASE CallStep \/ Load \/ UNCHANGED vars
    BY <1>1, <2>1, <2>8 DEF CallStep, Signals, CancelEnds, PurgeEnds, RunKillEnds, Load, vars
  <2> QED
    BY <1>1, <2>2, <2>3, <2>4, <2>5, <2>6, <2>7, <2>8 DEF Next, ThreadStep
<1> QED
  BY <1>2, <1>3

\* The record of a purged job is never written again.
LEMMA PurgedStays ==
    ASSUME IInv, [Next]_vars, NEW j \in Jobs, job[j].status = "purged"
    PROVE  job'[j].status = "purged"
<1>1. Typed /\ (thread[j].pc # "none" => j \in purged)
  BY DEF IInv, Typed, TypeOK, Local, ThreadOrder
<1>2. CASE Submit \/ \E k \in Jobs : Retry(k)
  <2>1. PICK k \in Jobs : Enqueue(k) /\ job[k].status = "new"
    BY <1>2, BoundsAssumption DEF Submit, Retry, Jobs
  <2> QED
    BY <1>1, <2>1 DEF Enqueue, Typed
<1>3. CASE ThreadStep(j)
  <2>1. UNCHANGED job
    BY <1>1, <1>3 DEF ThreadStep, RunCheck, RunBegin, RunBaseline, RunSpawn, RunSpawnFails,
       RunRegister, WatchPurged, WatchWorker, WatchEnds, Finalize, Updated
  <2> QED
    BY <2>1
<1>4. CASE ProcessStep(j) \/ SupervisorDies(j)
  BY <1>4 DEF ProcessStep, SupervisorSpawns, SupervisorReports, SupervisorEnds, WorkerWrites,
     WorkerEnds, SupervisorDies
<1>5. CASE Cancel(j) \/ Pause(j) \/ Resume(j) \/ Purge(j)
  BY <1>5 DEF Cancel, Pause, Resume, Purge, ACTIVE, TERMINAL
<1>6. CASE \E k \in Jobs \ {j} : \/ ThreadStep(k) \/ ProcessStep(k) \/ SupervisorDies(k)
                                 \/ Cancel(k) \/ Pause(k) \/ Resume(k) \/ Purge(k)
  BY <1>1, <1>6, OthersUntouched
<1>7. CASE Load
  BY <1>1, <1>7 DEF Load, ACTIVE
<1>8. CASE CallStep \/ Crash \/ UNCHANGED vars
  BY <1>8 DEF CallStep, Signals, CancelEnds, PurgeEnds, RunKillEnds, Crash, vars
<1> QED
  BY <1>2, <1>3, <1>4, <1>5, <1>6, <1>7, <1>8 DEF Next

\* Every step keeps SignalledArePurged.
LEMMA SignalledArePurgedStep ==
    ASSUME IInv, NoneCancelled, SignalledArePurged, [Next]_vars
    PROVE  SignalledArePurged'
<1> SUFFICES ASSUME OneByOne', NEW i \in Jobs, Outlived(i)' PROVE job'[i].status = "purged"
  BY DEF SignalledArePurged
<1>1. Typed /\ OneByOne /\ ~Crash /\ up /\ Local(i) /\ Uncancelled(i)
  BY FewerBefore DEF IInv, Typed, TypeOK, OneByOne, Uninterrupted, Down, NoneCancelled
<1>2. CASE Outlived(i)
  BY <1>1, <1>2, PurgedStays DEF SignalledArePurged
<1>3. CASE ~Outlived(i)
  <2>1. CASE CallStep
    <3>1. PICK c \in calls : CallStepOf(c)
      BY <2>1 DEF CallStep, CallStepOf
    <3>2. c.job = i
      <4>1. CASE Signals(c)
        <5>1. [c EXCEPT !.stage = "kill"].job = c.job
          BY DEF IInv, TypeOK, Calls
        <5>2. /\ calls' = (calls \ {c}) \cup {[c EXCEPT !.stage = "kill"]}
              /\ spared' = spared
          BY <4>1 DEF Signals
        <5> QED
          BY <1>3, <5>1, <5>2 DEF Outlived, Signalled
      <4>2. CASE ~Signals(c)
        <5>1. calls' = calls \ {c} /\ spared' \in {spared, spared \cup {c.job}}
          BY <3>1, <4>2 DEF CallStepOf, CancelEnds, PurgeEnds, RunKillEnds, Leaves
        <5> QED
          BY <1>3, <5>1 DEF Outlived, Signalled
      <4> QED
        BY <4>1, <4>2
    <3>3. c \in CallsOf(i) /\ c.op \in {"cancel", "purge", "run"}
      BY <3>2 DEF CallsOf, IInv, TypeOK, Calls
    <3>4. c.op # "cancel"
      BY <1>1, <3>3, 0 > 0 <=> FALSE DEF Local, CallsKnow, OneByOne
    <3>5. i \in purged
      BY <1>1, <3>3, <3>4 DEF Local, CallsKnow, Uncancelled
    <3> QED
      BY <1>1, <3>5, PurgedStays DEF Local, ThreadOrder
  <2>2. CASE \E j \in Jobs : RunRegister(j)
    <3>1. Outlived(i)
      BY <2>2 DEF RunRegister, Outlived, Signalled
    <3> QED
      BY <1>3, <3>1
  <2>3. CASE \E j \in Jobs : Cancel(j) \/ Purge(j)
    <3>1. Outlived(i)
      BY <2>3 DEF Cancel, Purge, Outlived, Signalled
    <3> QED
      BY <1>3, <3>1
  <2>4. CASE UNCHANGED <<calls, spared>>
    BY <1>3, <2>4 DEF Outlived, Signalled
  <2>5. CASE \E j \in Jobs : \/ Retry(j) \/ Pause(j) \/ Resume(j) \/ ProcessStep(j)
                             \/ SupervisorDies(j)
    <3>1. UNCHANGED <<calls, spared>>
      BY <2>5 DEF Retry, Pause, Resume, SupervisorDies, ProcessStep, SupervisorSpawns,
         SupervisorReports, SupervisorEnds, WorkerWrites, WorkerEnds
    <3> QED
      BY <2>4, <3>1
  <2>6. CASE \E j \in Jobs : \/ RunCheck(j) \/ RunBegin(j) \/ RunBaseline(j) \/ RunSpawn(j)
                             \/ RunSpawnFails(j) \/ WatchPurged(j) \/ WatchWorker(j)
                             \/ WatchEnds(j) \/ Finalize(j)
    <3>1. UNCHANGED <<calls, spared>>
      BY <2>6 DEF RunCheck, RunBegin, RunBaseline, RunSpawn, RunSpawnFails, WatchPurged,
         WatchWorker, WatchEnds, Finalize
    <3> QED
      BY <2>4, <3>1
  <2>7. CASE Submit \/ Load \/ UNCHANGED vars
    <3>1. UNCHANGED <<calls, spared>>
      BY <2>7 DEF Submit, Load, vars
    <3> QED
      BY <2>4, <3>1
  <2> QED
    BY <1>1, <2>1, <2>2, <2>3, <2>5, <2>6, <2>7 DEF Next, ThreadStep
<1> QED
  BY <1>2, <1>3

\* Only submit and retry give a job its record; retry follows another attempt.
LEMMA Submitted ==
    ASSUME IInv, [Next]_vars, NEW j \in Jobs, job[j].status = "new", job'[j].status # "new"
    PROVE  j = 1 \/ \E l \in Jobs : /\ job[l].status \in RETRYABLE
                                    /\ Disturb(IF j = l + 1 THEN "retry" ELSE "again")
<1>1. Typed /\ Local(j) /\ thread[j].pc = "none"
  BY DEF IInv, Typed, TypeOK, Local, ThreadOrder
<1>2. CASE Submit
  BY <1>1, <1>2, BoundsAssumption DEF Submit, Enqueue, Typed, Jobs
<1>3. CASE \E l \in Jobs : Retry(l)
  BY <1>1, <1>3 DEF Retry, Enqueue, Typed
<1>4. CASE \/ ThreadStep(j) \/ ProcessStep(j) \/ SupervisorDies(j)
           \/ Cancel(j) \/ Pause(j) \/ Resume(j) \/ Purge(j)
  BY <1>1, <1>4 DEF ThreadStep, RunCheck, RunBegin, RunBaseline, RunSpawn, RunSpawnFails,
     RunRegister, WatchPurged, WatchWorker, WatchEnds, Finalize, ProcessStep,
     SupervisorSpawns, SupervisorReports, SupervisorEnds, WorkerWrites, WorkerEnds,
     SupervisorDies, Cancel, Pause, Resume, Purge, ACTIVE, TERMINAL
<1>5. CASE \E l \in Jobs \ {j} : \/ ThreadStep(l) \/ ProcessStep(l) \/ SupervisorDies(l)
                                 \/ Cancel(l) \/ Pause(l) \/ Resume(l) \/ Purge(l)
  BY <1>1, <1>5, OthersUntouched
<1>6. CASE Load
  BY <1>6 DEF Load, ACTIVE
<1>7. CASE CallStep \/ Crash \/ UNCHANGED vars
  BY <1>7 DEF CallStep, Signals, CancelEnds, PurgeEnds, RunKillEnds, Crash, vars
<1> QED
  BY <1>2, <1>3, <1>4, <1>5, <1>6, <1>7 DEF Next

\* A retry follows the last attempt, which has failed and is over.
LEMMA InTurnStep ==
    ASSUME IInv, NoneCancelled, FailedAreOver, InTurn, [Next]_vars
    PROVE  InTurn'
<1> SUFFICES ASSUME OneByOne', NEW i \in Jobs, NEW j \in Jobs, i < j, job'[j].status # "new"
             PROVE  Over(i)'
  BY DEF InTurn
<1>1. OneByOne /\ Uninterrupted'
  BY FewerBefore DEF OneByOne, IInv
<1>2. SUFFICES Over(i)
  BY <1>1, OverStays
<1>3. CASE job[j].status # "new"
  BY <1>1, <1>3 DEF InTurn
<1>4. CASE job[j].status = "new"
  <2>1. PICK l \in Jobs : /\ job[l].status \in RETRYABLE
                          /\ Disturb(IF j = l + 1 THEN "retry" ELSE "again")
    BY <1>4, Submitted DEF Jobs
  <2>2. j = l + 1
    <3>1. used'["again"] = 0 /\ TypeOK
      BY DEF OneByOne, IInv
    <3>2. CASE Disturb("again")
      BY <3>1, <3>2, used["again"] \in Nat DEF Disturb, TypeOK, Disturbances
    <3> QED
      BY <2>1, <3>2
  <2>3. Over(l)
    BY <1>1, <2>1 DEF NoneCancelled, Uncancelled, OneByOne, RETRYABLE, FailedAreOver
  <2>4. i = l \/ i < l
    BY <2>2 DEF Jobs
  <2> QED
    BY <1>1, <2>1, <2>3, <2>4 DEF InTurn, RETRYABLE
<1> QED
  BY <1>3, <1>4

\* While one worker runs, every other attempt is over or not submitted.
LEMMA LoneWorker ==
    ASSUME IInv, InTurn, OneByOne, NEW j \in Jobs, NEW k \in Jobs, k # j, proc[k].worker = "running"
    PROVE  thread[j].pc = "none" /\ job[j].status \in {"new", "failed", "purged"}
<1>1. Local(j) /\ Local(k)
  BY DEF IInv
<1>2. job[k].status # "new"
  BY <1>1 DEF Local, ProcessOrder, ThreadOrder
<1>3. CASE k < j
  BY <1>1, <1>3 DEF InTurn, Over, Local, ThreadOrder
<1>4. CASE j < k
  BY <1>2, <1>4 DEF InTurn, Over
<1> QED
  BY <1>3, <1>4 DEF Jobs

\* RunBaseline takes the output that is there as the baseline; _finalize compares with it.
LEMMA ThreadStepEvident ==
    ASSUME Typed, NEW j \in Jobs, Local(j), Evident(j), Uncancelled(j), ThreadStep(j)
    PROVE  Evident(j)'
<1> USE DEF Typed, JobRecords, Processes, Threads, Evident, Updated, Goto, End, NoThread
<1>1. CASE RunCheck(j)
  BY <1>1 DEF RunCheck
<1>2. CASE RunBegin(j)
  BY <1>2 DEF RunBegin
<1>3. CASE RunBaseline(j)
  BY <1>3 DEF RunBaseline
<1>4. CASE RunSpawn(j)
  <2>1. UNCHANGED job /\ proc'[j].wrote = proc[j].wrote
    BY <1>4 DEF RunSpawn
  <2> QED
    BY <1>4, <2>1 DEF RunSpawn
<1>5. CASE RunSpawnFails(j)
  BY <1>5 DEF RunSpawnFails
<1>6. CASE RunRegister(j)
  BY <1>6 DEF RunRegister
<1>8. CASE WatchPurged(j)
  BY <1>8 DEF WatchPurged
<1>9. CASE WatchWorker(j)
  BY <1>9 DEF WatchWorker
<1>10. CASE WatchEnds(j)
  BY <1>10 DEF WatchEnds
<1>11. CASE Finalize(j)
  BY <1>11 DEF Finalize, Verdict, ExitCode
<1> QED
  BY <1>1, <1>2, <1>3, <1>4, <1>5, <1>6, <1>8, <1>9, <1>10, <1>11 DEF ThreadStep

\* Only the attempt in turn writes the output.
LEMMA EvidenceStep ==
    ASSUME IInv, NoneCancelled, InTurn, Evidence, [Next]_vars
    PROVE  Evidence'
<1> SUFFICES ASSUME OneByOne', NEW j \in Jobs PROVE Evident(j)'
  BY DEF Evidence
<1>1. Typed /\ OneByOne /\ Local(j) /\ Evident(j) /\ ~Crash /\ up /\ calls \subseteq Calls
      /\ \A k \in Jobs : ~SupervisorDies(k) /\ ~Cancel(k)
  BY FewerBefore DEF IInv, Typed, TypeOK, Evidence, OneByOne, Uninterrupted, Down
<1>2. Uncancelled(j)
  BY <1>1 DEF NoneCancelled, OneByOne
<1>3. ASSUME UNCHANGED <<job[j], thread[j], out>>, j \in purged => j \in purged',
             proc'[j].wrote = proc[j].wrote
      PROVE  Evident(j)'
  BY <1>1, <1>3 DEF Evident
<1>4. CASE \E k \in Jobs : ThreadStep(k)
  <2>1. PICK k \in Jobs : ThreadStep(k)
    BY <1>4
  <2>2. CASE k = j
    BY <1>1, <1>2, <2>1, <2>2, ThreadStepEvident
  <2>3. CASE k # j
    <3>1. UNCHANGED out
      BY <2>1 DEF ThreadStep, RunCheck, RunBegin, RunBaseline, RunSpawn, RunSpawnFails,
         RunRegister, WatchPurged, WatchWorker, WatchEnds, Finalize
    <3> QED
      BY <1>1, <1>3, <2>1, <2>3, <3>1, OthersUntouched
  <2> QED
    BY <2>2, <2>3
<1>5. CASE \E k \in Jobs : WorkerWrites(k)
  <2>1. PICK k \in Jobs : WorkerWrites(k)
    BY <1>5
  <2>2. CASE k = j
    BY <1>1, <2>1, <2>2 DEF WorkerWrites, Evident, Typed, Processes
  <2>3. CASE k # j
    <3>1. thread[j].pc = "none" /\ job[j].status # "succeeded"
      BY <1>1, <2>1, <2>3, LoneWorker DEF WorkerWrites
    <3> QED
      BY <2>1, <3>1 DEF WorkerWrites, Evident
  <2> QED
    BY <2>2, <2>3
<1>6. CASE \E k \in Jobs : \/ SupervisorSpawns(k) \/ SupervisorReports(k) \/ SupervisorEnds(k)
                            \/ WorkerEnds(k)
  <2>1. PICK k \in Jobs : \/ SupervisorSpawns(k) \/ SupervisorReports(k) \/ SupervisorEnds(k)
                           \/ WorkerEnds(k)
    BY <1>6
  <2>2. UNCHANGED <<job, thread, out, purged>>
    BY <2>1 DEF SupervisorSpawns, SupervisorReports, SupervisorEnds, WorkerEnds
  <2>3. proc'[j].wrote = proc[j].wrote
    <3>1. CASE k # j
      BY <1>1, <2>1, <3>1, OthersUntouched DEF ProcessStep
    <3>2. CASE SupervisorSpawns(j)
      BY <1>1, <3>2 DEF SupervisorSpawns, Typed, Processes
    <3>3. CASE SupervisorReports(j)
      BY <1>1, <3>3 DEF SupervisorReports, Typed, Processes
    <3>4. CASE SupervisorEnds(j)
      BY <1>1, <3>4 DEF SupervisorEnds, Typed, Processes
    <3>5. CASE WorkerEnds(j)
      BY <1>1, <3>5 DEF WorkerEnds, Typed, Processes
    <3> QED
      BY <2>1, <3>1, <3>2, <3>3, <3>4, <3>5
  <2> QED
    BY <1>3, <2>2, <2>3
<1>7. CASE \E k \in Jobs : Pause(k) \/ Resume(k) \/ Purge(k)
  <2>1. PICK k \in Jobs : Pause(k) \/ Resume(k) \/ Purge(k)
    BY <1>7
  <2>2. /\ UNCHANGED <<thread, out>> /\ purged \subseteq purged'
        /\ \E s \in {"paused", "running", "purged"} : job' = [job EXCEPT ![k].status = s]
    BY <2>1 DEF Pause, Resume, Purge
  <2>3. proc'[j].wrote = proc[j].wrote
    <3>1. proc[k] \in Processes
      BY <1>1 DEF Typed
    <3>2. CASE Pause(k)
      BY <1>1, <3>1, <3>2 DEF Pause, Typed, Processes
    <3>4. CASE Purge(k)
      BY <3>4 DEF Purge
    <3>3. CASE Resume(k)
      <4>1. \E p \in Processes : p.wrote = proc[k].wrote /\ proc' = [proc EXCEPT ![k] = p]
        <5>1. [proc[k] EXCEPT !.frozen = FALSE] \in Processes
          BY <3>1, ProcessesClosed
        <5>2. [proc[k] EXCEPT !.frozen = FALSE].wrote = proc[k].wrote
          BY <3>1 DEF Processes
        <5> QED
          <6>1. \A p \in Terminated(proc[k]) : p \in Processes /\ p.wrote = proc[k].wrote
            BY <3>1, TerminatedLeaves
          <6> QED
            BY <3>3, <5>1, <5>2, <6>1 DEF Resume
      <4> QED
        BY <1>1, <4>1 DEF Typed
    <3> QED
      BY <2>1, <3>2, <3>3, <3>4
  <2>4. job'[j].base = job[j].base /\ (job'[j].status = "succeeded" => job[j].status = "succeeded")
    BY <1>1, <2>2 DEF Typed, JobRecords
  <2> QED
    BY <1>1, <2>2, <2>3, <2>4 DEF Evident
<1>8. CASE Submit \/ \E k \in Jobs : Retry(k)
  <2>1. PICK k \in Jobs : Enqueue(k) /\ UNCHANGED <<proc, out, purged>>
    BY <1>8, BoundsAssumption DEF Submit, Retry, Jobs
  <2> QED
    BY <1>1, <1>3, <2>1 DEF Enqueue, Evident, Typed, JobRecords, Threads
<1>9. CASE CallStep
  <2>1. PICK c \in calls : CallStepOf(c)
    BY <1>9 DEF CallStep, CallStepOf
  <2>2. c \in Calls /\ c.job \in Jobs
    BY <1>1 DEF Calls
  <2>3. proc'[j].wrote = proc[j].wrote
    <3>1. CASE c.job = j
      BY <1>1, <2>1, <2>2, <3>1, CallStepLeaves DEF Typed
    <3>2. CASE c.job # j
      BY <1>1, <2>1, <3>2 DEF CallStepOf, Signals, CancelEnds, PurgeEnds, RunKillEnds, Leaves, Typed
    <3> QED
      BY <3>1, <3>2
  <2>4. UNCHANGED <<job, purged>> /\ out' \in {0, out}
    BY <2>1 DEF CallStepOf, Signals, CancelEnds, PurgeEnds, RunKillEnds
  <2>5. thread'[j].pc = thread[j].pc \/ thread[j].pc = "kill"
    <3>1. CASE RunKillEnds(c)
      <4>1. c.job = j => thread[j].pc = "kill"
        BY <1>1, <3>1 DEF Local, CallsKnow, CallsOf, RunKillEnds
      <4> QED
        BY <1>1, <3>1, <4>1 DEF RunKillEnds, Typed, Threads
    <3>2. CASE ~RunKillEnds(c)
      BY <2>1, <3>2 DEF CallStepOf, Signals, CancelEnds, PurgeEnds
    <3> QED
      BY <3>1, <3>2
  <2> QED
    BY <1>1, <2>3, <2>4, <2>5 DEF Evident
<1>10. CASE Load \/ UNCHANGED vars
  BY <1>1, <1>3, <1>10 DEF Load, vars
<1> QED
  BY <1>1, <1>4, <1>5, <1>6, <1>7, <1>8, <1>9, <1>10 DEF Next, ProcessStep

\* The inductive invariant of the attempts.
Attempts == IInv /\ NoneCancelled /\ SignalledArePurged /\ FailedAreOver /\ InTurn /\ Evidence

\* The attempts are in order at the start.
LEMMA InitOrdered == Init => Attempts
<1> SUFFICES ASSUME Init PROVE Attempts
  OBVIOUS
<1>1. NoneCancelled /\ SignalledArePurged /\ FailedAreOver /\ InTurn /\ Evidence
  BY DEF Init, NoThread, NoneCancelled, SignalledArePurged, Outlived, Signalled, Uncancelled, FailedAreOver, InTurn, Evidence, Evident
<1> QED
  BY <1>1, InitInv DEF Attempts

\* Every step keeps them so.
LEMMA AttemptsStep == Attempts /\ [Next]_vars => Attempts'
BY InvStep, NoneCancelledStep, SignalledArePurgedStep, FailedAreOverStep, InTurnStep, EvidenceStep
DEF Attempts

\* No step of a job with a verdict changes it, purge apart.
LEMMA VerdictKept ==
    ASSUME IInv, [Next]_vars, NEW j \in Jobs, job[j].status \in TERMINAL \ {"cancelled"}
    PROVE  job'[j].status \in {job[j].status, "purged"}
<1>1. Typed /\ thread[j].pc = "none" /\ job[j].status \notin ACTIVE \cup {"new", "cancelled"}
  BY DEF IInv, Typed, TypeOK, Local, ThreadOrder, TERMINAL, ACTIVE
<1>2. CASE Submit \/ \E k \in Jobs : Retry(k)
  <2>1. PICK k \in Jobs : Enqueue(k) /\ job[k].status = "new"
    BY <1>2, BoundsAssumption DEF Submit, Retry, Jobs
  <2> QED
    BY <1>1, <2>1 DEF Enqueue, Typed
<1>3. CASE ThreadStep(j)
  BY <1>1, <1>3 DEF ThreadStep, RunCheck, RunBegin, RunBaseline, RunSpawn, RunSpawnFails,
     RunRegister, WatchPurged, WatchWorker, WatchEnds, Finalize
<1>4. CASE ProcessStep(j) \/ SupervisorDies(j)
  BY <1>4 DEF ProcessStep, SupervisorSpawns, SupervisorReports, SupervisorEnds, WorkerWrites,
     WorkerEnds, SupervisorDies
<1>5. CASE Cancel(j) \/ Pause(j) \/ Resume(j) \/ Purge(j)
  <2>1. job' = [job EXCEPT ![j].status = "purged"]
    BY <1>1, <1>5 DEF Cancel, Pause, Resume, Purge, ACTIVE
  <2> QED
    BY <1>1, <2>1 DEF Typed, JobRecords
<1>6. CASE \E k \in Jobs \ {j} : \/ ThreadStep(k) \/ ProcessStep(k) \/ SupervisorDies(k)
                                 \/ Cancel(k) \/ Pause(k) \/ Resume(k) \/ Purge(k)
  BY <1>1, <1>6, OthersUntouched
<1>7. CASE Load
  BY <1>1, <1>7 DEF Load
<1>8. CASE CallStep \/ Crash \/ UNCHANGED vars
  BY <1>8 DEF CallStep, Signals, CancelEnds, PurgeEnds, RunKillEnds, Crash, vars
<1> QED
  BY <1>2, <1>3, <1>4, <1>5, <1>6, <1>7, <1>8 DEF Next

\* No step overwrites the output of a job that succeeded.
LEMMA EvidenceKept ==
    ASSUME Attempts, [Next]_vars, NEW j \in Jobs, job[j].status = "succeeded", out = j,
           OneByOne, used.purge = 0
    PROVE  out' = j
<1>1. CASE \E k \in Jobs : WorkerWrites(k)
  <2>1. PICK k \in Jobs : WorkerWrites(k)
    BY <1>1
  <2>2. k = j
    BY <2>1, LoneWorker DEF WorkerWrites, Attempts
  <2> QED
    BY <2>1, <2>2 DEF WorkerWrites
<1>2. CASE CallStep
  <2>1. PICK c \in calls : CallStepOf(c)
    BY <1>2 DEF CallStep, CallStepOf
  <2>2. c.job \in Jobs /\ Local(c.job)
    BY DEF Attempts, IInv, TypeOK, Calls
  <2>3. c.op # "purge"
    BY <2>2, 0 > 0 <=> FALSE DEF Local, CallsKnow, CallsOf
  <2> QED
    BY <2>1, <2>3 DEF CallStepOf, Signals, CancelEnds, PurgeEnds, RunKillEnds
<1>3. CASE \E k \in Jobs : ThreadStep(k)
  BY <1>3 DEF ThreadStep, RunCheck, RunBegin, RunBaseline, RunSpawn, RunSpawnFails, RunRegister,
     WatchPurged, WatchWorker, WatchEnds, Finalize
<1>4. CASE \E k \in Jobs : \/ SupervisorSpawns(k) \/ SupervisorReports(k) \/ SupervisorEnds(k)
                           \/ WorkerEnds(k) \/ SupervisorDies(k)
  BY <1>4 DEF SupervisorSpawns, SupervisorReports, SupervisorEnds, WorkerEnds, SupervisorDies
<1>5. CASE \E k \in Jobs : Retry(k) \/ Cancel(k) \/ Pause(k) \/ Resume(k) \/ Purge(k)
  BY <1>5 DEF Retry, Cancel, Pause, Resume, Purge
<1>6. CASE Submit \/ Crash \/ Load \/ UNCHANGED vars
  BY <1>6 DEF Submit, Crash, Load, vars
<1> QED
  BY <1>1, <1>2, <1>3, <1>4, <1>5, <1>6 DEF Next, ProcessStep

-----------------------------------------------------------------------------
(* Theorems *)

\* Records, processes, threads, calls and counters keep their types through every step.
THEOREM JobsAreTyped == Spec => []TypeOK
BY InitTyped, StepTyped, PTL DEF Spec

\* A registered job is reported cancelled, failed or purged only once its worker has
\* stopped (cancel, purge, _finalize, _recover), whatever the API did in between, but for
\* jobs whose signals are still under way or have missed the worker (terminate_tree).
THEOREM EndedJobsAreStopped == Spec => []EndedMeansStopped
<1>1. IInv => EndedMeansStopped
  BY DEF IInv, EndedMeansStopped, Local, Supervised, Halted, Launched, Outlived, Signalled, CallsOf
<1> QED
  BY <1>1, InitInv, InvStep, PTL DEF Spec

\* A job succeeds only on an output it wrote itself (_finalize, outputEvidenceBaseline),
\* as long as attempts follow one another.
THEOREM SuccessRestsOnOwnOutput == Spec => []SucceededWrote
<1>1. Attempts => SucceededWrote
  BY DEF Attempts, Evidence, Evident, SucceededWrote
<1> QED
  BY <1>1, InitOrdered, AttemptsStep, PTL DEF Spec

\* A verdict other than "cancelled" is never replaced, and the output a success rests on
\* is not overwritten while attempts follow one another (_update, RETRYABLE_STATUSES).
THEOREM VerdictsAreFinal == Spec => FinishedIsFinal
<1>1. Attempts /\ [Next]_vars =>
        [\A j \in Jobs :
           /\ job[j].status \in TERMINAL \ {"cancelled"} =>
                job'[j].status \in {job[j].status, "purged"}
           /\ job[j].status = "succeeded" /\ job'[j].status = "succeeded" /\ out = j
                /\ OneByOne /\ used.purge = 0 => out' = j]_vars
  BY VerdictKept, EvidenceKept DEF Attempts
<1> QED
  BY <1>1, InitOrdered, AttemptsStep, PTL DEF Spec, FinishedIsFinal

=============================================================================
