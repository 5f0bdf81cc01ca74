----------------------------- MODULE WriterLock -----------------------------
(***************************************************************************)
(* The single-writer contract of the paper-order service                   *)
(* (services/quant_api/services/paper_orders.py): an flock on writer.lock, *)
(* which excludes processes of one host, and the occupancy record inside   *)
(* that file, whose heartbeat is meant to refuse a writer on another host. *)
(* Only an economic call refreshes the heartbeat, when it starts, and it   *)
(* truncates the file before it writes.  The lock is asked for once in the *)
(* life of an instance, when it is constructed.  The names of the          *)
(* specification do not clash with those of AccountLock, so that one       *)
(* module may reason about both locks.                                     *)
(***************************************************************************)
EXTENDS Integers

CONSTANTS
    Processes,
    HostOf,     \* the host each process runs on
    Stale       \* WRITER_HEARTBEAT_STALE_SECONDS, in ticks of the clock

ASSUME StaleAssumption == Stale \in Nat

VARIABLES
    phase,      \* where each process is
    lockedBy,   \* processes that hold the flock, one per host
    exists,     \* writer.lock exists
    record      \* the occupancy record in it, {} or one, and the age of its heartbeat

writerVars == <<phase, lockedBy, exists, record>>

Occupancies == [process : Processes, age : 0..Stale]

\* "down", the steps of _acquire_writer_lock, then a writer, the steps of an economic
\* call, or a read-only instance.
WriterTypeOK ==
    /\ phase \in [Processes -> {"down", "open", "create", "lock", "inspect", "truncate",
                                "publish", "writer", "beat", "writing", "readonly"}]
    /\ lockedBy \subseteq Processes
    /\ exists \in BOOLEAN
    /\ record \subseteq Occupancies

WriterInit ==
    /\ phase = [p \in Processes |-> "down"]
    /\ lockedBy = {} /\ exists = FALSE /\ record = {}

Goto(p, s) == phase' = [phase EXCEPT ![p] = s]
Mine(p) == [process |-> p, age |-> 0]

-----------------------------------------------------------------------------
(* _acquire_writer_lock *)

Start(p) ==
    /\ phase[p] = "down"
    /\ Goto(p, IF exists THEN "open" ELSE "create")
    /\ UNCHANGED <<lockedBy, exists, record>>

\* Mode "r+" keeps the record, mode "w+" truncates it, also when another process
\* has created the file since it was looked for.
OpenFile(p) ==
    /\ phase[p] \in {"open", "create"}
    /\ record' = IF phase[p] = "create" THEN {} ELSE record
    /\ exists' = TRUE
    /\ Goto(p, "lock")
    /\ UNCHANGED <<lockedBy>>

\* (mutant) The result of flock is ignored.
FlockAlways(p) ==
    /\ phase[p] = "lock"
    /\ lockedBy' = lockedBy \cup {p}
    /\ Goto(p, "inspect")
    /\ UNCHANGED <<exists, record>>

\* flock without waiting: another process of the host may hold it.
Flock(p) ==
    /\ phase[p] = "lock"
    /\ IF \E q \in lockedBy : HostOf[q] = HostOf[p]
       THEN Goto(p, "readonly") /\ UNCHANGED lockedBy
       ELSE lockedBy' = lockedBy \cup {p} /\ Goto(p, "inspect")
    /\ UNCHANGED <<exists, record>>

\* (mutant) A record of another host refuses whatever its age.
OccupiedForEver(p) == \E r \in record : HostOf[r.process] # HostOf[p]

\* A record of another host refuses while its heartbeat is fresh.
Occupied(p) == \E r \in record : HostOf[r.process] # HostOf[p] /\ r.age < Stale

Inspect(p) ==
    /\ phase[p] = "inspect"
    /\ IF Occupied(p)
       THEN Goto(p, "readonly") /\ lockedBy' = lockedBy \ {p}
       ELSE Goto(p, "truncate") /\ UNCHANGED lockedBy
    /\ UNCHANGED <<exists, record>>

\* _write_occupancy truncates the file ...
Truncate(p) ==
    /\ phase[p] = "truncate"
    /\ record' = {}
    /\ Goto(p, "publish")
    /\ UNCHANGED <<lockedBy, exists>>

\* ... and then writes the record.
Publish(p) ==
    /\ phase[p] = "publish"
    /\ record' = {Mine(p)}
    /\ Goto(p, "writer")
    /\ UNCHANGED <<lockedBy, exists>>

-----------------------------------------------------------------------------
(* submit, drain, recover, cancel; close; death *)

\* _require_writer looks at its own handle and refreshes the heartbeat: it truncates ...
BeginWrite(p) ==
    /\ phase[p] = "writer"
    /\ record' = {}
    /\ Goto(p, "beat")
    /\ UNCHANGED <<lockedBy, exists>>

\* ... and writes.  Calls of other threads of the process may do so at the same time,
\* and two records one behind the other are not read as one.
Heartbeat(p) ==
    /\ phase[p] = "beat"
    /\ record' \in {{Mine(p)}, {}}
    /\ Goto(p, "writing")
    /\ UNCHANGED <<lockedBy, exists>>

EndWrite(p) ==
    /\ phase[p] = "writing"
    /\ Goto(p, "writer")
    /\ UNCHANGED <<lockedBy, exists, record>>

\* close clears the record, then gives the flock back.
Close(p) ==
    /\ phase[p] \in {"writer", "readonly"}
    /\ Goto(p, "down")
    /\ record' = IF phase[p] = "writer" THEN {} ELSE record
    /\ lockedBy' = lockedBy \ {p}
    /\ UNCHANGED <<exists>>

\* The kernel drops the flock, the record stays.  The end of a read-only instance is Close.
HolderDies(p) ==
    /\ phase[p] \notin {"down", "readonly"}
    /\ Goto(p, "down")
    /\ lockedBy' = lockedBy \ {p}
    /\ UNCHANGED <<exists, record>>

\* Time passes; a heartbeat that is stale only gets staler.
Tick ==
    /\ record' = {[r EXCEPT !.age = IF @ < Stale THEN @ + 1 ELSE @] : r \in record}
    /\ UNCHANGED <<phase, lockedBy, exists>>

\* The constructor, once it runs.
Acquire(p) == OpenFile(p) \/ Flock(p) \/ Inspect(p) \/ Truncate(p) \/ Publish(p)

WriterNext ==
    \/ \E p \in Processes :
         \/ Start(p) \/ Acquire(p) \/ BeginWrite(p) \/ Heartbeat(p) \/ EndWrite(p)
         \/ Close(p) \/ HolderDies(p)
    \/ Tick

WriterSpec == WriterInit /\ [][WriterNext]_writerVars

\* A constructor that runs comes to its end, a read-only instance is closed in the end,
\* and time passes.
WriterFairSpec ==
    /\ WriterSpec
    /\ \A p \in Processes : /\ WF_writerVars(Acquire(p))
                            /\ WF_writerVars(phase[p] = "readonly" /\ Close(p))
    /\ WF_writerVars(Tick)

-----------------------------------------------------------------------------

Writer(p) == phase[p] \in {"truncate", "publish", "writer", "beat", "writing"}

\* At most one process of a host takes itself for the writer of the account, whatever
\* the lock file and its record hold (WriterLockUnavailable: "single host, single writer").
SingleWriter ==
    \A p, q \in Processes : Writer(p) /\ Writer(q) /\ HostOf[p] = HostOf[q] => p = q

\* An account is never held hostage by a writer that is gone.  When every other instance
\* is down for good, one that is started again and again, and dies no more, becomes the
\* writer again and again, whatever record the others left in the file and whatever
\* they were doing when they died (WRITER_HEARTBEAT_STALE_SECONDS, close).
AccountIsTakenOver ==
    \A q \in Processes :
        /\ <>[](\A p \in Processes \ {q} : phase[p] = "down")
        /\ []<>(phase[q] # "down") /\ <>[][~HolderDies(q)]_writerVars
        => []<>Writer(q)

=============================================================================
