-------------------------- MODULE IdempotencyStore --------------------------
(***************************************************************************)
(* The durable claim-once registry (src/quantagent/domain/idempotency.py). *)
(*                                                                         *)
(* Several store objects, in one process or in several, share one          *)
(* append-only file.  claim and resolve hold the lock file while they fold *)
(* in what others appended, decide, and append; a thread may also refresh  *)
(* its store without the lock, as PaperOrderService.pending does beside a  *)
(* resolve of the same store.  A store may lose its process at any step    *)
(* and be opened again.                                                    *)
(*                                                                         *)
(* The file is the sequence of its complete lines, one per record, and a   *)
(* flag for a tail without its newline.  Record lengths are one unit, so   *)
(* _read_offset counts lines.                                              *)
(***************************************************************************)
EXTENDS Integers, Sequences

CONSTANTS
    Keys, Stores, Threads,
    StoreOf,        \* the store object each thread works with
    ClaimsOf,       \* the keys each store's callers claim and resolve
    Refreshers,     \* threads that refresh their store without the lock
    NoThread,
    MaxLines,       \* bound: lines of the file
    MaxDeaths       \* bound: deaths of a process

ASSUME StoreOfAssumption == StoreOf \in [Threads -> Stores]
ASSUME NoThreadAssumption == NoThread \notin Threads
ASSUME MaxLinesAssumption == MaxLines \in Nat
ASSUME KeysAssumption == Keys # {}
ASSUME MaxDeathsAssumption == MaxDeaths \in Nat
ASSUME RefreshersAssumption == Refreshers \subseteq Threads
ASSUME ClaimsOfAssumption == ClaimsOf \in [Stores -> SUBSET Keys]

\* The keys of a store that is refreshed without the lock are claimed through no other
\* one: requests (req_...) through the paper order service alone, intents (idem_...)
\* through the order managers of every process.
ASSUME RefreshedKeysAssumption ==
    \A t \in Refreshers : \A s \in Stores \ {StoreOf[t]} :
        ClaimsOf[s] \cap ClaimsOf[StoreOf[t]] = {}

VARIABLES
    file,       \* complete lines: the key each record is about
    torn,       \* the file ends in a tail without newline
    lock,       \* holder of the lock file
    cache,      \* _claims of each store
    offset,     \* _read_offset of each store
    pc, op, key,    \* the call of each thread and its arguments
    unread,     \* the lines a thread read and has not folded in yet
    granted,    \* how many callers were told they won a key
    open,       \* the stores whose process runs
    raced,      \* history: the open stores of which two reads overlapped
    deaths

vars == <<file, torn, lock, cache, offset, pc, op, key, unread, granted, open,
          raced, deaths>>
durable == <<file, torn>>

Operations == {"claim", "resolve", "refresh"}
Steps == {"idle", "read", "fold", "decide", "append"}
AnyKey == CHOOSE k \in Keys : TRUE

\* The file holds records, the caches keys, the calls their arguments.
TypeOK ==
    /\ file \in Seq(Keys)
    /\ torn \in BOOLEAN
    /\ lock \in Threads \cup {NoThread}
    /\ cache \in [Stores -> SUBSET Keys]
    /\ offset \in [Stores -> Nat]
    /\ pc \in [Threads -> Steps]
    /\ op \in [Threads -> Operations]
    /\ key \in [Threads -> Keys]
    /\ unread \in [Threads -> Seq(Keys)]
    /\ granted \in [Keys -> Nat]
    /\ open \subseteq Stores /\ raced \subseteq open
    /\ deaths \in Nat

KeysOf(lines) == {lines[i] : i \in DOMAIN lines}
Claimed == KeysOf(file)

Init ==
    /\ file = <<>> /\ torn = FALSE /\ lock = NoThread
    /\ cache = [s \in Stores |-> {}] /\ offset = [s \in Stores |-> 0]
    /\ pc = [t \in Threads |-> "idle"] /\ op = [t \in Threads |-> "claim"]
    /\ key = [t \in Threads |-> AnyKey] /\ unread = [t \in Threads |-> <<>>]
    /\ granted = [k \in Keys |-> 0] /\ open = {} /\ raced = {} /\ deaths = 0

-----------------------------------------------------------------------------

\* The constructor loads the whole file under the lock, and refuses a torn one.
Open(s) ==
    /\ s \notin open /\ lock = NoThread /\ ~torn
    /\ cache' = [cache EXCEPT ![s] = Claimed]
    /\ offset' = [offset EXCEPT ![s] = Len(file)]
    /\ open' = open \cup {s}
    /\ UNCHANGED <<durable, lock, pc, op, key, unread, granted, raced, deaths>>

Free(t) == IF lock = t THEN NoThread ELSE lock

\* The call ends, by a return or by an exception, and gives the lock back.
End(t) ==
    /\ pc' = [pc EXCEPT ![t] = "idle"]
    /\ lock' = Free(t)
    /\ op' = [op EXCEPT ![t] = "claim"] /\ key' = [key EXCEPT ![t] = AnyKey]
    /\ UNCHANGED unread

\* (mutant) The lock file is not waited for.
CallUnlocked(t, o, k) ==
    /\ pc[t] = "idle" /\ StoreOf[t] \in open /\ k \in ClaimsOf[StoreOf[t]]
    /\ lock' = t
    /\ pc' = [pc EXCEPT ![t] = "read"]
    /\ op' = [op EXCEPT ![t] = o] /\ key' = [key EXCEPT ![t] = k]
    /\ UNCHANGED <<durable, cache, offset, unread, granted, open, raced, deaths>>

\* claim or resolve: take the lock file.
Call(t, o, k) ==
    /\ pc[t] = "idle" /\ StoreOf[t] \in open /\ k \in ClaimsOf[StoreOf[t]]
    /\ lock = NoThread /\ lock' = t
    /\ pc' = [pc EXCEPT ![t] = "read"]
    /\ op' = [op EXCEPT ![t] = o] /\ key' = [key EXCEPT ![t] = k]
    /\ UNCHANGED <<durable, cache, offset, unread, granted, open, raced, deaths>>

\* PaperOrderService.pending calls _load without it.
Refresh(t) ==
    /\ t \in Refreshers /\ pc[t] = "idle" /\ StoreOf[t] \in open
    /\ pc' = [pc EXCEPT ![t] = "read"]
    /\ op' = [op EXCEPT ![t] = "refresh"]
    /\ UNCHANGED <<durable, lock, cache, offset, key, unread, granted, open, raced, deaths>>

\* _load refuses a file shorter than what was read, and a torn tail.
Corrupt(t) == torn \/ Len(file) < offset[StoreOf[t]]

LoadRefused(t) ==
    /\ pc[t] = "read" /\ Corrupt(t)
    /\ End(t)
    /\ UNCHANGED <<durable, cache, offset, granted, open, raced, deaths>>

\* _load reads the bytes behind its offset, which another read may be folding in ...
Overlaps(t) == \E u \in Threads : StoreOf[u] = StoreOf[t] /\ unread[u] # <<>>

LoadRead(t) ==
    /\ pc[t] = "read" /\ ~Corrupt(t)
    /\ unread' = [unread EXCEPT ![t] = SubSeq(file, offset[StoreOf[t]] + 1, Len(file))]
    /\ raced' = IF Overlaps(t) THEN raced \cup {StoreOf[t]} ELSE raced
    /\ pc' = [pc EXCEPT ![t] = "fold"]
    /\ UNCHANGED <<durable, lock, cache, offset, op, key, granted, open, deaths>>

\* (mutant) The offset is moved twice for a line.
LoadFoldTwice(t) ==
    /\ pc[t] = "fold" /\ unread[t] # <<>>
    /\ cache' = [cache EXCEPT ![StoreOf[t]] = @ \cup {Head(unread[t])}]
    /\ offset' = [offset EXCEPT ![StoreOf[t]] = @ + 2]
    /\ unread' = [unread EXCEPT ![t] = Tail(@)]
    /\ UNCHANGED <<durable, lock, pc, op, key, granted, open, raced, deaths>>

\* ... then folds them into the cache line by line, moving the offset by each,
LoadFold(t) ==
    /\ pc[t] = "fold" /\ unread[t] # <<>>
    /\ cache' = [cache EXCEPT ![StoreOf[t]] = @ \cup {Head(unread[t])}]
    /\ offset' = [offset EXCEPT ![StoreOf[t]] = @ + 1]
    /\ unread' = [unread EXCEPT ![t] = Tail(@)]
    /\ UNCHANGED <<durable, lock, pc, op, key, granted, open, raced, deaths>>

\* and returns to claim or resolve; a refresh ends.
Loaded(t) ==
    /\ pc[t] = "fold" /\ unread[t] = <<>>
    /\ pc' = [pc EXCEPT ![t] = IF op[t] = "refresh" THEN "idle" ELSE "decide"]
    /\ UNCHANGED <<durable, lock, cache, offset, op, key, unread, granted, open, raced, deaths>>

Known(t) == key[t] \in cache[StoreOf[t]]

\* A claim on a known key is a duplicate, a resolution of an unknown one an error.
Declined(t) ==
    /\ pc[t] = "decide" /\ (op[t] = "claim") = Known(t)
    /\ End(t)
    /\ UNCHANGED <<durable, cache, offset, granted, open, raced, deaths>>

\* The record enters the cache before it is written.
Accepted(t) ==
    /\ pc[t] = "decide" /\ (op[t] = "claim") # Known(t)
    /\ cache' = [cache EXCEPT ![StoreOf[t]] = @ \cup {key[t]}]
    /\ pc' = [pc EXCEPT ![t] = "append"]
    /\ UNCHANGED <<durable, lock, offset, op, key, unread, granted, open, raced, deaths>>

\* What a write leaves: everything, or what an error or a kill let through.
Written(t, how) ==
    /\ file' = IF how = "line" THEN Append(file, key[t]) ELSE file
    /\ torn' = (torn \/ how = "cut")

Room == Len(file) < MaxLines

\* _append returns: the record is durable, and a claim is reported won.
AppendOk(t) ==
    /\ pc[t] = "append" /\ Room
    /\ Written(t, "line")
    /\ granted' = IF op[t] = "claim" THEN [granted EXCEPT ![key[t]] = @ + 1] ELSE granted
    /\ End(t)
    /\ UNCHANGED <<cache, offset, open, raced, deaths>>

\* _append raises.
AppendFails(t) ==
    /\ pc[t] = "append" /\ Room
    /\ \E how \in {"nothing", "cut", "line"} : Written(t, how)
    /\ End(t)
    /\ UNCHANGED <<cache, offset, granted, open, raced, deaths>>

\* The process of a store dies, in the middle of a write when one is under way.
Die(s) ==
    LET mine == {t \in Threads : StoreOf[t] = s} IN
    /\ s \in open /\ deaths < MaxDeaths
    /\ deaths' = deaths + 1 /\ open' = open \ {s} /\ raced' = raced \ {s}
    /\ \/ UNCHANGED durable
       \/ \E t \in mine : /\ pc[t] = "append" /\ Room
                          /\ \E how \in {"cut", "line"} : Written(t, how)
    /\ lock' = IF lock \in mine THEN NoThread ELSE lock
    /\ pc' = [t \in Threads |-> IF t \in mine THEN "idle" ELSE pc[t]]
    /\ cache' = [cache EXCEPT ![s] = {}]
    /\ offset' = [offset EXCEPT ![s] = 0]
    /\ op' = [t \in Threads |-> IF t \in mine THEN "claim" ELSE op[t]]
    /\ key' = [t \in Threads |-> IF t \in mine THEN AnyKey ELSE key[t]]
    /\ unread' = [t \in Threads |-> IF t \in mine THEN <<>> ELSE unread[t]]
    /\ UNCHANGED granted

Next ==
    \/ \E t \in Threads :
         \/ \E o \in {"claim", "resolve"}, k \in Keys : Call(t, o, k)
         \/ Refresh(t) \/ LoadRefused(t) \/ LoadRead(t) \/ LoadFold(t) \/ Loaded(t)
         \/ Declined(t) \/ Accepted(t) \/ AppendOk(t) \/ AppendFails(t)
    \/ \E s \in Stores : Open(s) \/ Die(s)

Spec == Init /\ [][Next]_vars

-----------------------------------------------------------------------------
(* Properties *)

\* At most one caller is ever told that it won a key, over stores, processes and
\* restarts, and only once the claim is durable (claim), whichever reads overlap.
GrantedOnce ==
    \A k \in Keys : granted[k] <= 1 /\ (granted[k] > 0 => k \in Claimed)

\* _load reports "truncated after it was read" only of a file that was truncated: as
\* long as no two reads of a store overlap (a refresh without the lock and the load of a
\* resolve may), no store has read more than there is.
NoFalseAlarm == \A s \in Stores \ raced : offset[s] <= Len(file)

\* The stores implement the abstract registry, whichever reads overlap.
Abstract == INSTANCE ClaimOnce WITH claimed <- Claimed
RefinesClaimOnce == Abstract!Spec

=============================================================================
