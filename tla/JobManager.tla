----------------------------- MODULE JobManager -----------------------------
(***************************************************************************)
(* The job manager of the quant API (services/quant_api/services/jobs.py), *)
(* the supervisor process it starts for each job (scripts/job_supervisor)  *)
(* and the signals it sends (services/process_supervisor.py).              *)
(*                                                                         *)
(* The jobs are the attempts at ONE experiment: job 1 is submitted, every  *)
(* later one is a retry, and all write the same declared output.  A job    *)
(* has a record (jobs.json, persisted under the lock with every change), a *)
(* thread of the API that follows it (_run, _supervise, _finalize), and    *)
(* two processes in a session of their own that survive the API: the       *)
(* supervisor and the worker it waits for.  The API may die between any    *)
(* two steps; _load then recovers every active record.                     *)
(***************************************************************************)
EXTENDS Integers, Functions

CONSTANTS
    MaxJobs,            \* bound: attempts
    MaxDisturbances,    \* bound: calls, deaths of the API, kills of a supervisor
    MaxWhenRetried      \* bound: the same, once one of them was a retry

ASSUME BoundsAssumption ==
    MaxJobs \in Nat \ {0} /\ MaxDisturbances \in Nat /\ MaxWhenRetried \in Nat

VARIABLES
    up,         \* the API process runs
    job,        \* jobs.json: the record of each job
    proc,       \* supervisor and worker of each job, and the status file
    out,        \* the declared output: the last job that wrote it, 0 when absent
    thread,     \* the API thread of each job
    cancelReq,  \* _cancel_requested
    purged,     \* _purged
    calls,      \* calls of terminate_tree under way, outside the lock
    spared,     \* history: jobs whose worker ran on when a terminate_tree ended
    used        \* disturbances so far, by kind

vars == <<up, job, proc, out, thread, cancelReq, purged, calls, spared, used>>

-----------------------------------------------------------------------------

Jobs == 1..MaxJobs
Codes == {"ok", "rejected", "blocked", "error"}

TERMINAL == {"succeeded", "failed", "cancelled", "rejected", "blocked"}
RETRYABLE == {"failed", "cancelled"}
ACTIVE == {"queued", "starting", "running", "paused", "cancelling"}

\* "new" is a job not submitted yet, "purged" one whose record is removed.
JobRecords == [status : TERMINAL \cup ACTIVE \cup {"new", "purged"},
               pid : BOOLEAN,          \* pid and processStartTicks are registered
               workerPid : BOOLEAN, workerStartTicks : BOOLEAN,
               base : 0..MaxJobs,      \* outputEvidenceBaseline
               owned : BOOLEAN]        \* ownedOutputPaths names the output
Processes == [sup : {"none", "starting", "spawned", "waiting", "gone"},
              worker : {"none", "running", "done"}, code : Codes,
              file : {"none", "running", "exited"},     \* the status file
              frozen : BOOLEAN, held : BOOLEAN,   \* stopped; SIGTERM is pending
              wrote : BOOLEAN]
Threads == [pc : {"none", "check", "begin", "baseline", "spawn", "register",
                  "kill", "watch", "finish"},
            cancelled : BOOLEAN,                  \* the flag it read under the lock
            follow : {"popen", "sup", "worker"}]  \* what _supervise watches
Disturbances == {"retry", "again", "cancel", "pause", "purge", "restart", "kill"}
Targets == {"none", "sup", "worker"}
Calls == [job : Jobs, op : {"cancel", "purge", "run"}, stage : {"term", "kill"},
          target : Targets, paused : BOOLEAN, delete : BOOLEAN, popen : BOOLEAN]

\* Records, processes, threads and calls have the shapes the code gives them.
TypeOK ==
    /\ up \in BOOLEAN
    /\ job \in [Jobs -> JobRecords]
    /\ proc \in [Jobs -> Processes]
    /\ out \in 0..MaxJobs
    /\ thread \in [Jobs -> Threads]
    /\ cancelReq \subseteq Jobs /\ purged \subseteq Jobs
    /\ calls \subseteq Calls /\ spared \subseteq Jobs
    /\ used \in [Disturbances -> Nat]

NoThread == [pc |-> "none", cancelled |-> FALSE, follow |-> "popen"]

Init ==
    /\ up = TRUE
    /\ job = [j \in Jobs |-> [status |-> "new", pid |-> FALSE, workerPid |-> FALSE,
                              workerStartTicks |-> FALSE, base |-> 0, owned |-> FALSE]]
    /\ proc = [j \in Jobs |-> [sup |-> "none", worker |-> "none", code |-> "error",
                               file |-> "none", frozen |-> FALSE, held |-> FALSE,
                               wrote |-> FALSE]]
    /\ out = 0
    /\ thread = [j \in Jobs |-> NoThread]
    /\ cancelReq = {} /\ purged = {} /\ calls = {} /\ spared = {}
    /\ used = [d \in Disturbances |-> 0]

Disturb(op) ==
    /\ SumFunction(used) <
         IF op \in {"retry", "again"} \/ used.retry > 0 THEN MaxWhenRetried ELSE MaxDisturbances
    /\ used' = [used EXCEPT ![op] = @ + 1]

-----------------------------------------------------------------------------
(* Processes and signals *)

\* getpgid(pid) answers: the process runs, or its parent has not reaped it.
Present(j, target) ==
    CASE target = "sup" -> \/ proc[j].sup \in {"starting", "spawned", "waiting"}
                           \/ proc[j].sup = "gone" /\ thread[j].follow = "popen"
                              /\ thread[j].pc \in {"register", "kill", "watch"}
      [] target = "worker" -> \/ proc[j].worker = "running"
                              \/ proc[j].worker = "done" /\ proc[j].sup \in {"spawned", "waiting"}
      [] OTHER -> FALSE

Killed(p) == [p EXCEPT !.worker = IF @ = "running" THEN "done" ELSE @,
                       !.code = IF p.worker = "running" THEN "error" ELSE @]

\* SIGTERM arrives.  The supervisor outlives it once its handler is installed, which
\* it does after it has reported the worker.  A worker ends of it (WorkerEnds) or not.
Terminated(p) ==
    {[p EXCEPT !.frozen = FALSE, !.held = FALSE, !.sup = s] :
        s \in IF p.sup = "waiting" THEN {"waiting", "gone"} ELSE {"gone"}}

\* (mutant) A stopped group is not continued before it is signalled.
SignalGroupStopped(j, target, paused) ==
    IF ~Present(j, target) THEN {proc[j]}
    ELSE IF proc[j].frozen THEN {[proc[j] EXCEPT !.held = TRUE]} ELSE Terminated(proc[j])

\* terminate_tree, first half: SIGTERM to the group, after SIGCONT when the job was
\* paused.  A stopped group holds the SIGTERM back.
SignalGroup(j, target, paused) ==
    IF ~Present(j, target) THEN {proc[j]}
    ELSE IF proc[j].frozen /\ ~paused
    THEN {[proc[j] EXCEPT !.held = TRUE]} ELSE Terminated(proc[j])

\* The processes psutil may collect: the target and its descendants.
Family(target) ==
    CASE target = "sup" -> {"sup", "worker"} [] target = "worker" -> {"worker"} [] OTHER -> {}

\* terminate_tree, second half, up to 5 s later: SIGKILL to what is left of the family.
\* It may miss any of it: psutil is missing or fails at any call, the target was gone
\* before its descendants were collected, a kill is refused.
KillFamily(p, target) ==
    {[IF "worker" \in f THEN Killed(p) ELSE p EXCEPT
         !.sup = IF "sup" \in f /\ @ \in {"starting", "spawned", "waiting"} THEN "gone" ELSE @] :
        f \in SUBSET Family(target)}

\* The supervisor starts the worker, or records that it could not.
SupervisorSpawns(j) ==
    /\ proc[j].sup = "starting" /\ ~proc[j].frozen
    /\ \/ proc' = [proc EXCEPT ![j].sup = "spawned", ![j].worker = "running"]
       \/ proc' = [proc EXCEPT ![j].sup = "gone", ![j].file = "exited", ![j].code = "error"]
    /\ UNCHANGED <<up, job, out, thread, cancelReq, purged, calls, spared, used>>

\* It publishes the worker's PID.
SupervisorReports(j) ==
    /\ proc[j].sup = "spawned" /\ ~proc[j].frozen
    /\ proc' = [proc EXCEPT ![j].sup = "waiting", ![j].file = "running"]
    /\ UNCHANGED <<up, job, out, thread, cancelReq, purged, calls, spared, used>>

\* It publishes the exit code of the worker it waited for, and ends.
SupervisorEnds(j) ==
    /\ proc[j].sup = "waiting" /\ proc[j].worker = "done" /\ ~proc[j].frozen
    /\ proc' = [proc EXCEPT ![j].sup = "gone", ![j].file = "exited"]
    /\ UNCHANGED <<up, job, out, thread, cancelReq, purged, calls, spared, used>>

\* The supervisor alone is killed (out of memory, an operator).
SupervisorDies(j) ==
    /\ proc[j].sup \in {"starting", "spawned", "waiting"}
    /\ Disturb("kill")
    /\ proc' = [proc EXCEPT ![j].sup = "gone"]
    /\ UNCHANGED <<up, job, out, thread, cancelReq, purged, calls, spared>>

\* The worker writes the declared output.
WorkerWrites(j) ==
    /\ proc[j].worker = "running" /\ ~proc[j].frozen /\ ~proc[j].wrote
    /\ out' = j
    /\ proc' = [proc EXCEPT ![j].wrote = TRUE]
    /\ UNCHANGED <<up, job, thread, cancelReq, purged, calls, spared, used>>

\* The worker ends: done, its hypothesis rejected, its configuration blocked, or
\* with an error.
WorkerEnds(j) ==
    /\ proc[j].worker = "running" /\ ~proc[j].frozen
    /\ \E c \in Codes : proc' = [proc EXCEPT ![j].worker = "done", ![j].code = c]
    /\ UNCHANGED <<up, job, out, thread, cancelReq, purged, calls, spared, used>>

-----------------------------------------------------------------------------
(* Calls of the API *)

\* submit: a record, its baseline and a thread.
Enqueue(j) ==
    /\ job' = [job EXCEPT ![j].status = "queued", ![j].base = out, ![j].owned = (out = 0)]
    /\ thread' = [thread EXCEPT ![j].pc = "check"]

Submit ==
    /\ up /\ job[1].status = "new"
    /\ Enqueue(1)
    /\ UNCHANGED <<up, proc, out, cancelReq, purged, calls, spared, used>>

\* retry: a failed or cancelled job is submitted again as the next attempt, be it
\* the latest or one that was retried already ("again").
Retry(j) ==
    /\ up /\ job[j].status \in RETRYABLE
    /\ \E k \in Jobs : /\ job[k].status = "new" /\ \A i \in 1..(k - 1) : job[i].status # "new"
                       /\ Disturb(IF k = j + 1 THEN "retry" ELSE "again")
                       /\ Enqueue(k)
    /\ UNCHANGED <<up, proc, out, cancelReq, purged, calls, spared>>

Target(j) == IF job[j].workerPid THEN "worker" ELSE IF job[j].pid THEN "sup" ELSE "none"

\* (mutant) A finished job may be cancelled.
CancelAnything(j) ==
    /\ up /\ job[j].status \in ACTIVE \cup TERMINAL
    /\ Disturb("cancel")
    /\ cancelReq' = cancelReq \cup {j}
    /\ job' = [job EXCEPT ![j].status = IF Target(j) = "none" THEN "cancelled" ELSE "cancelling"]
    /\ UNCHANGED <<up, proc, out, thread, purged, calls, spared>>

\* cancel, inside the lock.  The signals are sent after it.
Cancel(j) ==
    /\ up /\ job[j].status \in ACTIVE
    /\ Disturb("cancel")
    /\ cancelReq' = cancelReq \cup {j}
    /\ IF Target(j) = "none"
       THEN /\ job' = [job EXCEPT ![j].status = "cancelled"]
            /\ UNCHANGED calls
       ELSE /\ job' = [job EXCEPT ![j].status = "cancelling"]
            /\ calls' = calls \cup {[job |-> j, op |-> "cancel", stage |-> "term",
                                     target |-> Target(j), paused |-> job[j].status = "paused",
                                     delete |-> FALSE, popen |-> FALSE]}
    /\ UNCHANGED <<up, proc, out, thread, purged, spared>>

\* pause: SIGSTOP to the group of a running job.
Pause(j) ==
    /\ up /\ job[j].status = "running" /\ Present(j, Target(j))
    /\ Disturb("pause")
    /\ proc' = [proc EXCEPT ![j].frozen = TRUE]
    /\ job' = [job EXCEPT ![j].status = "paused"]
    /\ UNCHANGED <<up, out, thread, cancelReq, purged, calls, spared>>

\* resume: SIGCONT, and a SIGTERM that was held back arrives.
Resume(j) ==
    /\ up /\ job[j].status = "paused" /\ Present(j, Target(j))
    /\ \E p \in IF proc[j].held THEN Terminated(proc[j])
               ELSE {[proc[j] EXCEPT !.frozen = FALSE]} : proc' = [proc EXCEPT ![j] = p]
    /\ job' = [job EXCEPT ![j].status = "running"]
    /\ UNCHANGED <<up, out, thread, cancelReq, purged, calls, spared, used>>

\* purge, inside the lock: the record is gone.
Purge(j) ==
    /\ up /\ job[j].status \in ACTIVE \cup TERMINAL
    /\ Disturb("purge")
    /\ cancelReq' = cancelReq \cup {j} /\ purged' = purged \cup {j}
    /\ \E delete \in BOOLEAN :
         calls' = calls \cup {[job |-> j, op |-> "purge", stage |-> "term",
                               target |-> Target(j), paused |-> job[j].status = "paused",
                               delete |-> delete /\ job[j].owned,
                               popen |-> thread[j].follow = "popen"
                                         /\ thread[j].pc \in {"register", "kill", "watch"}]}
    /\ job' = [job EXCEPT ![j].status = "purged"]
    /\ UNCHANGED <<up, proc, out, thread, spared>>

-----------------------------------------------------------------------------
(* terminate_tree, called outside the lock by cancel, purge and _run *)

Signals(c) ==
    /\ up /\ c.stage = "term"
    /\ \E p \in SignalGroup(c.job, c.target, c.paused) : proc' = [proc EXCEPT ![c.job] = p]
    /\ calls' = (calls \ {c}) \cup {[c EXCEPT !.stage = "kill"]}
    /\ UNCHANGED <<up, job, out, thread, cancelReq, purged, spared, used>>

\* The call is over and leaves p of the job's processes.
Leaves(c, p) ==
    /\ proc' = [proc EXCEPT ![c.job] = p]
    /\ calls' = calls \ {c}
    /\ spared' = IF p.worker = "running" THEN spared \cup {c.job} ELSE spared

\* cancel returns.
CancelEnds(c) ==
    /\ up /\ c.op = "cancel" /\ c.stage = "kill"
    /\ \E p \in KillFamily(proc[c.job], c.target) : Leaves(c, p)
    /\ UNCHANGED <<up, job, out, thread, cancelReq, purged, used>>

\* _run goes on to _supervise: a cancel that came before Popen was carried out.
RunKillEnds(c) ==
    /\ up /\ c.op = "run" /\ c.stage = "kill"
    /\ \E p \in KillFamily(proc[c.job], c.target) : Leaves(c, p)
    /\ thread' = [thread EXCEPT ![c.job].pc = "watch"]
    /\ UNCHANGED <<up, job, out, cancelReq, purged, used>>

\* purge goes on: the Popen killed when it outlives the signals, the log and status
\* file, the owned output.
PurgeEnds(c) ==
    /\ up /\ c.op = "purge" /\ c.stage = "kill"
    /\ \E p \in KillFamily(proc[c.job], c.target) :
         Leaves(c, [p EXCEPT !.sup = IF c.popen /\ @ # "none" THEN "gone" ELSE @,
                             !.file = "none"])
    /\ out' = IF c.delete THEN 0 ELSE out
    /\ UNCHANGED <<up, job, thread, cancelReq, purged, used>>

-----------------------------------------------------------------------------
(* The thread of a job: _run *)

\* _update leaves a purged job alone.
Updated(j, r) == IF j \in purged THEN job ELSE [job EXCEPT ![j] = r]
Goto(j, pc) == thread' = [thread EXCEPT ![j].pc = pc]
End(j) == thread' = [thread EXCEPT ![j] = NoThread]

RunCheck(j) ==
    /\ up /\ thread[j].pc = "check"
    /\ IF job[j].status = "purged" \/ j \in cancelReq \/ job[j].status = "cancelled"
       THEN End(j) ELSE Goto(j, "begin")
    /\ UNCHANGED <<up, job, proc, out, cancelReq, purged, calls, spared, used>>

RunBegin(j) ==
    /\ up /\ thread[j].pc = "begin"
    /\ job' = Updated(j, [job[j] EXCEPT !.status = "starting"])
    /\ Goto(j, "baseline")
    /\ UNCHANGED <<up, proc, out, cancelReq, purged, calls, spared, used>>

\* The stale status file is removed and the baseline taken again.
RunBaseline(j) ==
    /\ up /\ thread[j].pc = "baseline"
    /\ proc' = [proc EXCEPT ![j].file = "none"]
    /\ job' = Updated(j, [job[j] EXCEPT !.base = out])
    /\ Goto(j, "spawn")
    /\ UNCHANGED <<up, out, cancelReq, purged, calls, spared, used>>

\* Popen, inside the lock.
RunSpawn(j) ==
    /\ up /\ thread[j].pc = "spawn"
    /\ IF j \in purged
       THEN End(j) /\ UNCHANGED proc
       ELSE /\ proc' = [proc EXCEPT ![j].sup = "starting"]
            /\ thread' = [thread EXCEPT ![j] = [pc |-> "register", cancelled |-> j \in cancelReq,
                                                follow |-> "popen"]]
    /\ UNCHANGED <<up, job, out, cancelReq, purged, calls, spared, used>>

\* Popen raises.
RunSpawnFails(j) ==
    /\ up /\ thread[j].pc = "spawn" /\ j \notin purged
    /\ job' = [job EXCEPT ![j].status = "failed"]
    /\ End(j)
    /\ UNCHANGED <<up, proc, out, cancelReq, purged, calls, spared, used>>

\* A cancel that came before Popen is carried out now.
RunRegister(j) ==
    /\ up /\ thread[j].pc = "register"
    /\ job' = Updated(j, [job[j] EXCEPT !.status = "running", !.pid = TRUE])
    /\ IF thread[j].cancelled
       THEN /\ Goto(j, "kill")
            /\ calls' = calls \cup {[job |-> j, op |-> "run", stage |-> "term", target |-> "sup",
                                     paused |-> FALSE, delete |-> FALSE, popen |-> FALSE]}
       ELSE Goto(j, "watch") /\ UNCHANGED calls
    /\ UNCHANGED <<up, proc, out, cancelReq, purged, spared, used>>

-----------------------------------------------------------------------------
(* _supervise and _finalize *)

WatchPurged(j) ==
    /\ up /\ thread[j].pc = "watch" /\ j \in purged
    /\ End(j)
    /\ UNCHANGED <<up, job, proc, out, cancelReq, purged, calls, spared, used>>

\* The worker's PID appears in the status file.
WatchWorker(j) ==
    /\ up /\ thread[j].pc = "watch" /\ j \notin purged
    /\ proc[j].file # "none" /\ proc[j].worker # "none" /\ ~job[j].workerPid
    /\ job' = [job EXCEPT ![j].workerPid = TRUE, ![j].workerStartTicks = Present(j, "worker")]
    /\ UNCHANGED <<up, proc, out, thread, cancelReq, purged, calls, spared, used>>

\* (mutant) The loop ends as soon as there is a status file.
EndedOnReport(j) == proc[j].file # "none"

Ended(j) == IF thread[j].follow = "worker" THEN proc[j].worker = "done"
            ELSE proc[j].sup = "gone"

\* What is followed has ended; the cancel flag is read under the lock.
WatchEnds(j) ==
    /\ up /\ thread[j].pc = "watch" /\ Ended(j)
    /\ thread' = IF j \in purged THEN [thread EXCEPT ![j] = NoThread]
                 ELSE [thread EXCEPT ![j].pc = "finish", ![j].cancelled = j \in cancelReq]
    /\ UNCHANGED <<up, job, proc, out, cancelReq, purged, calls, spared, used>>

\* _resolve_exit_code: the status file, else the return code of the Popen (the
\* supervisor was killed), else nothing.
ExitCode(j) == IF proc[j].file = "exited" THEN proc[j].code ELSE "error"

\* (mutant) Any output that is there counts as evidence.
VerdictAnyOutput(j) ==
    CASE thread[j].cancelled -> "cancelled"
      [] ~thread[j].cancelled /\ ExitCode(j) = "ok" ->
            IF out # 0 THEN "succeeded" ELSE "failed"
      [] ~thread[j].cancelled /\ ExitCode(j) \in {"rejected", "blocked"} -> ExitCode(j)
      [] OTHER -> "failed"

\* _finalize: success needs an output that is there and differs from the baseline.
Verdict(j) ==
    CASE thread[j].cancelled -> "cancelled"
      [] ~thread[j].cancelled /\ ExitCode(j) = "ok" ->
            IF out # 0 /\ out # job[j].base THEN "succeeded" ELSE "failed"
      [] ~thread[j].cancelled /\ ExitCode(j) \in {"rejected", "blocked"} -> ExitCode(j)
      [] OTHER -> "failed"

Finalize(j) ==
    /\ up /\ thread[j].pc = "finish"
    /\ job' = Updated(j, [job[j] EXCEPT !.status = Verdict(j)])
    /\ End(j)
    /\ UNCHANGED <<up, proc, out, cancelReq, purged, calls, spared, used>>

-----------------------------------------------------------------------------
(* Death of the API and _load *)

\* Signals were sent to the job, and the call that sent them is not over.
Signalled(j) == \E c \in calls : c.job = j /\ c.stage = "kill"

Crash ==
    /\ up /\ Disturb("restart")
    /\ up' = FALSE
    /\ thread' = [j \in Jobs |-> NoThread]
    /\ cancelReq' = {} /\ purged' = {} /\ calls' = {}
    /\ spared' = spared \cup {j \in Jobs : Signalled(j) /\ proc[j].worker = "running"}
    /\ UNCHANGED <<job, proc, out>>

WorkerKnown(j) == job[j].workerPid \/ (proc[j].file = "running" /\ proc[j].worker # "none")
SupervisorAlive(j) == job[j].pid /\ proc[j].sup \in {"starting", "spawned", "waiting"}
WorkerAlive(j) == WorkerKnown(j) /\ job[j].workerStartTicks /\ proc[j].worker = "running"

\* Which half of the pair _recover goes on following.
Followed(j) == IF SupervisorAlive(j) THEN "sup"
               ELSE IF WorkerAlive(j) THEN "worker" ELSE "none"

\* _recover, the record: a recorded exit makes it running until _finalize, a live
\* process keeps its status, a verdict in the log is kept, the rest is failed.
Recovered(j) ==
    IF proc[j].file = "exited" THEN [job[j] EXCEPT !.status = "running"]
    ELSE IF Followed(j) # "none" THEN [job[j] EXCEPT !.workerPid = WorkerKnown(j)]
    ELSE [job[j] EXCEPT !.workerPid = WorkerKnown(j),
                        !.status = IF proc[j].worker = "done"
                                      /\ proc[j].code \in {"rejected", "blocked"}
                                   THEN proc[j].code ELSE "failed"]

\* (mutant) A recorded exit starts no _finalize.
RecoveredThreadIfAlive(j) ==
    IF proc[j].file # "exited" /\ Followed(j) # "none"
    THEN [NoThread EXCEPT !.pc = "watch", !.follow = Followed(j)] ELSE NoThread

\* _recover, the thread: _finalize, _supervise or none.
RecoveredThread(j) ==
    IF proc[j].file = "exited" THEN [NoThread EXCEPT !.pc = "finish"]
    ELSE IF Followed(j) # "none" THEN [NoThread EXCEPT !.pc = "watch", !.follow = Followed(j)]
    ELSE NoThread

Load ==
    /\ ~up /\ up' = TRUE
    /\ job' = [j \in Jobs |-> IF job[j].status \in ACTIVE THEN Recovered(j) ELSE job[j]]
    /\ thread' = [j \in Jobs |-> IF job[j].status \in ACTIVE THEN RecoveredThread(j)
                                 ELSE NoThread]
    /\ UNCHANGED <<proc, out, cancelReq, purged, calls, spared, used>>

-----------------------------------------------------------------------------

ThreadStep(j) ==
    \/ RunCheck(j) \/ RunBegin(j) \/ RunBaseline(j) \/ RunSpawn(j) \/ RunSpawnFails(j)
    \/ RunRegister(j)
    \/ WatchPurged(j) \/ WatchWorker(j) \/ WatchEnds(j) \/ Finalize(j)

ProcessStep(j) ==
    \/ SupervisorSpawns(j) \/ SupervisorReports(j) \/ SupervisorEnds(j)
    \/ WorkerWrites(j) \/ WorkerEnds(j)

CallStep == \E c \in calls : Signals(c) \/ CancelEnds(c) \/ PurgeEnds(c) \/ RunKillEnds(c)

Next ==
    \/ Submit \/ Crash \/ Load \/ CallStep
    \/ \E j \in Jobs :
         \/ Retry(j) \/ Cancel(j) \/ Pause(j) \/ Resume(j) \/ Purge(j)
         \/ ThreadStep(j) \/ ProcessStep(j) \/ SupervisorDies(j)

Spec == Init /\ [][Next]_vars

\* Threads and processes are scheduled, a worker that is not stopped ends, the
\* API is started again.  Nothing is assumed of the operator.
Fairness ==
    /\ WF_vars(Load) /\ WF_vars(CallStep)
    /\ \A j \in Jobs : /\ WF_vars(ThreadStep(j))
                       /\ WF_vars(ProcessStep(j))

FairSpec == Spec /\ Fairness

-----------------------------------------------------------------------------
(* Properties *)

\* No supervisor was killed on its own (Intact), and the API did not die either.
Intact == used.kill = 0
Uninterrupted == Intact /\ used.restart = 0

\* Besides, no attempt was cancelled or retried twice: attempts follow one another.
OneByOne == Uninterrupted /\ used.cancel = 0 /\ used.again = 0

\* A job whose process was registered is reported at its end, cancelled, failed or
\* purged, only once its worker has stopped, also when the API died on the way
\* (cancel; _recover: "a workstation that declared that training dead would be lying";
\* purge: "Stop a job").  A cancelled job may be reported while its signals are under
\* way, and signals that failed, or that the API's death cut short, may spare a worker:
\* no record ever says so, and this property is about the jobs they did not spare.
EndedMeansStopped ==
    \A j \in Jobs :
        /\ job[j].pid /\ Intact /\ j \notin spared /\ ~Signalled(j)
        /\ \/ job[j].status \in {"cancelled", "failed"}
           \/ job[j].status = "purged" /\ Uninterrupted /\ \A c \in calls : c.job # j
        => proc[j].worker # "running"

\* A job that succeeded wrote the output its success rests on, not an earlier
\* attempt (outputEvidenceBaseline); attempts that ended by themselves, each retried
\* once at most, never overlap.
SucceededWrote == \A j \in Jobs : job[j].status = "succeeded" /\ OneByOne => proc[j].wrote

\* A job that ended other than by cancellation keeps its verdict, whatever calls, late
\* threads and restarts follow (_update itself never looks at the status), and the
\* evidence of a success is not overwritten while its record stands (RETRYABLE_STATUSES).
FinishedIsFinal ==
    [][\A j \in Jobs :
         /\ job[j].status \in TERMINAL \ {"cancelled"} =>
              job'[j].status \in {job[j].status, "purged"}
         /\ job[j].status = "succeeded" /\ job'[j].status = "succeeded" /\ out = j
              /\ OneByOne /\ used.purge = 0 => out' = j]_vars

\* Every submitted job ends or is purged unless a pause holds its processes, through
\* deaths of the API and of supervisors at any step and whether or not a signal does what
\* it should: again and again no job is active but stopped ones (_supervise, _recover).
JobsEnd == []<>(\A j \in Jobs : job[j].status \in ACTIVE => proc[j].frozen)

\* While the API lives no job stays in "cancelling", one that was paused included
\* (terminate_tree continues a stopped group first), also when no SIGKILL arrives.
CancellationEnds == []<>(used.restart > 0 \/ \A j \in Jobs : job[j].status # "cancelling")

=============================================================================
