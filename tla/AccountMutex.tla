---------------------------- MODULE AccountMutex ----------------------------
(***************************************************************************)
(* What the paper-account lock promises its callers                        *)
(* (src/quantagent/paper/account_lock.py): one process at a time is inside *)
(* the critical section of an account, and the section is left by an       *)
(* ordinary exit, by an exception or by the death of the process.          *)
(***************************************************************************)

CONSTANTS
    Procs,      \* processes that orchestrate the paper account
    NoProc      \* "nobody", not a process

VARIABLE owner  \* the process inside the critical section, or NoProc

Init == owner = NoProc

Acquire(p) ==
    /\ owner = NoProc
    /\ owner' = p

Release(p) ==
    /\ owner = p
    /\ owner' = NoProc

Next == \E p \in Procs : Acquire(p) \/ Release(p)

Spec == Init /\ [][Next]_owner

=============================================================================
