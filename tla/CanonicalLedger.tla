--------------------------- MODULE CanonicalLedger --------------------------
(***************************************************************************)
(* The durable hash-chained ledger and the order book mirrored onto it     *)
(* (src/quantagent/domain/ledger.py), for one writer that may fail or die  *)
(* in the middle of an append and start again.                             *)
(*                                                                         *)
(* The file is a sequence of lines.  An interrupted write leaves nothing,  *)
(* an unparsable fragment, a complete record without its newline, or the   *)
(* whole line; the next append opens the file in mode "a" and so continues *)
(* whatever the last line is.                                              *)
(*                                                                         *)
(* The digest of a record stands for the events it chains, itself included.*)
(* An event is an execution: the one kind a venue re-delivers.             *)
(***************************************************************************)
EXTENDS Integers, Sequences

CONSTANTS
    Events,     \* executions the venue may report
    Junk,       \* a line json.loads refuses
    MaxLines    \* bound: lines the file may grow to

ASSUME MaxLinesAssumption == MaxLines \in Nat
ASSUME JunkAssumption == Junk \notin [prev : Seq(Events), event : Events]

VARIABLES
    file,       \* lines of the ledger file
    tail,       \* how the last line ends
    up,         \* a process has the ledger open
    recs,       \* _records, the cache of the open ledger
    failed,     \* _write_failure is latched
    book,       \* events of the in-memory order book
    acked,      \* executions whose append returned, since ever
    reported    \* executions mirror_event returned for, since the ledger was opened

vars == <<file, tail, up, recs, failed, book, acked, reported>>

-----------------------------------------------------------------------------

Records == [prev : Seq(Events), event : Events]
Tails == {"line", "cut", "whole"}
EventsOf(rs) == {rs[i].event : i \in DOMAIN rs}

\* The file, the cache and the book hold what their readers expect.
TypeOK ==
    /\ file \in Seq(Records \cup {Junk})
    /\ tail \in Tails
    /\ up \in BOOLEAN
    /\ recs \in Seq(Records)
    /\ failed \in BOOLEAN
    /\ book \in Seq(Events)
    /\ acked \subseteq Events
    /\ reported \subseteq Events

\* _load stops at the first line it cannot parse.
LoadLength(f) == CHOOSE n \in 0..Len(f) :
    /\ \A i \in 1..n : f[i] # Junk
    /\ n < Len(f) => f[n + 1] = Junk
Loaded(f) == SubSeq(f, 1, LoadLength(f))

\* (mutant) Only the last line is looked at.
TornTailLastLine(f) == f # <<>> /\ f[Len(f)] = Junk

\* had_torn_tail: some line stopped the load.
TornTail(f) == LoadLength(f) < Len(f)

\* verify: every record chains from the digest of its predecessor.
Chain(rs) == [i \in DOMAIN rs |-> rs[i].event]
Verified(rs) == \A i \in DOMAIN rs : rs[i].prev = [j \in 1..(i - 1) |-> rs[j].event]

\* _head of the open ledger: the digest of the last cached record.
HeadHash == IF recs = <<>> THEN <<>>
            ELSE Append(recs[Len(recs)].prev, recs[Len(recs)].event)

Init ==
    /\ file = <<>> /\ tail = "line"
    /\ up = FALSE /\ recs = <<>> /\ failed = FALSE /\ book = <<>>
    /\ acked = {} /\ reported = {}

-----------------------------------------------------------------------------
(* The file *)

\* (mutant) The file is opened in mode "w".
PutTruncating(r, how) ==
    /\ file' = IF how = "none" THEN <<>> ELSE <<IF how = "cut" THEN Junk ELSE r>>
    /\ tail' = IF how = "none" THEN "line" ELSE how

\* What a write of record r leaves: everything, or what an error or a kill let
\* through.  After an unterminated line the text is glued to it.
Put(r, how) ==
    IF how = "none" THEN UNCHANGED <<file, tail>>
    ELSE /\ file' = IF tail = "line"
                    THEN Append(file, IF how = "cut" THEN Junk ELSE r)
                    ELSE [file EXCEPT ![Len(file)] = Junk]
         /\ tail' = IF how = "line" \/ tail = "line" THEN how ELSE "cut"

Interrupted == {"none", "cut", "whole", "line"}

NewRecord(e) == [prev |-> HeadHash, event |-> e]
InBook(e) == \E i \in DOMAIN book : book[i] = e
Room == Len(file) < MaxLines

-----------------------------------------------------------------------------
(* Operations *)

\* CanonicalLedger(path), and the order book replayed from it (replay_book
\* refuses a chain that does not verify).
Open ==
    /\ ~up
    /\ Verified(Loaded(file))
    /\ up' = TRUE
    /\ recs' = Loaded(file)
    /\ failed' = FALSE
    /\ book' = Chain(Loaded(file))
    /\ reported' = {}
    /\ UNCHANGED <<file, tail, acked>>

\* (mutant) A re-delivered execution is appended again.
MirrorDuplicateAppends(e) ==
    /\ up /\ InBook(e) /\ ~failed /\ Room
    /\ Put(NewRecord(e), "line")
    /\ recs' = Append(recs, NewRecord(e))
    /\ UNCHANGED <<up, failed, book, acked, reported>>

\* mirror_event on an execution the book already holds: absorbed, and reported
\* to the caller as applied.
MirrorDuplicate(e) ==
    /\ up /\ InBook(e)
    /\ reported' = reported \cup {e}
    /\ UNCHANGED <<file, tail, up, recs, failed, book, acked>>

\* (mutant) A failed append does not stop the next one.
MirrorOkUnlatched(e) ==
    /\ up /\ ~InBook(e) /\ Room
    /\ book' = Append(book, e)
    /\ Put(NewRecord(e), "line")
    /\ recs' = Append(recs, NewRecord(e))
    /\ acked' = acked \cup {e}
    /\ reported' = reported \cup {e}
    /\ UNCHANGED <<up, failed>>

\* mirror_event on a new execution: the book first, then the durable append.
MirrorOk(e) ==
    /\ up /\ ~InBook(e) /\ ~failed /\ Room
    /\ book' = Append(book, e)
    /\ Put(NewRecord(e), "line")
    /\ recs' = Append(recs, NewRecord(e))
    /\ acked' = acked \cup {e}
    /\ reported' = reported \cup {e}
    /\ UNCHANGED <<up, failed>>

\* (mutant) The OSError is swallowed: the caller is told that the record is there.
MirrorFailsSwallowed(e, how) ==
    /\ up /\ ~InBook(e) /\ ~failed /\ Room
    /\ book' = Append(book, e)
    /\ Put(NewRecord(e), how)
    /\ failed' = TRUE
    /\ acked' = acked \cup {e}
    /\ UNCHANGED <<up, recs, reported>>

\* The append raises OSError: the ledger latches, the book keeps the event.
MirrorFails(e, how) ==
    /\ up /\ ~InBook(e) /\ ~failed /\ Room
    /\ book' = Append(book, e)
    /\ Put(NewRecord(e), how)
    /\ failed' = TRUE
    /\ UNCHANGED <<up, recs, acked, reported>>

\* LedgerWriteUnavailable: raised after the book has taken the event.
MirrorRefused(e) ==
    /\ up /\ ~InBook(e) /\ failed
    /\ book' = Append(book, e)
    /\ UNCHANGED <<file, tail, up, recs, failed, acked, reported>>

\* The process ends, in the middle of an append or between two.
Close ==
    /\ up' = FALSE /\ recs' = <<>> /\ failed' = FALSE
    /\ book' = <<>> /\ reported' = {}

Dies(e, how) ==
    /\ up /\ ~InBook(e) /\ ~failed /\ Room
    /\ Put(NewRecord(e), how)
    /\ Close
    /\ UNCHANGED acked

Stops ==
    /\ up
    /\ Close
    /\ UNCHANGED <<file, tail, acked>>

Next ==
    \/ Open
    \/ \E e \in Events :
        \/ MirrorDuplicate(e) \/ MirrorOk(e) \/ MirrorRefused(e)
        \/ \E how \in Interrupted : MirrorFails(e, how) \/ Dies(e, how)
    \/ Stops

Spec == Init /\ [][Next]_vars

-----------------------------------------------------------------------------
(* Properties that hold *)

\* Whatever was interrupted, what a restart loads verifies, so the ledger can
\* always be opened and replayed (the latch: a stale head is never chained on).
ChainVerifies == Verified(Loaded(file))

\* An execution is booked at most once on what a restart loads, however often
\* the venue reports it and however often the writer died around it; and while no
\* append has failed on the open ledger, what mirror_event returned for is booked.
\* Behind a failure the book has taken the event and absorbs its retry: only the
\* latch and a restart bring book and ledger together again.
BookedOnce ==
    /\ \A i, j \in DOMAIN Loaded(file) :
        Loaded(file)[i].event = Loaded(file)[j].event => i = j
    /\ up /\ ~failed => reported \subseteq EventsOf(recs)

\* What terminal receipts rely on (canonical_receipt._verified_ledger): if the
\* reopened file shows no torn tail then it holds every execution that was ever
\* acknowledged, and the open ledger's cache is a prefix of it.
CertifiedIsComplete ==
    ~TornTail(file) =>
        /\ acked \subseteq EventsOf(Loaded(file))
        /\ Len(recs) <= Len(file) /\ \A i \in DOMAIN recs : file[i] = recs[i]

\* Append-only: a record a restart could read stays readable, except one whose
\* newline never reached the disk.
TerminatedRecordsStay ==
    [][ \A i \in DOMAIN Loaded(file) :
            i < Len(file) \/ tail = "line" =>
                i \in DOMAIN Loaded(file)' /\ Loaded(file)'[i] = file[i] ]_vars

\* What a restart would read implements the abstract log: it grows by executions it
\* does not hold, until the file is torn; from then on it is frozen, and only an
\* unterminated, never acknowledged last record can be lost, by tearing the file.
Log == INSTANCE AppendOnlyLedger WITH log <- Chain(Loaded(file)), torn <- TornTail(file)
RefinesAppendOnlyLedger == Log!Spec

-----------------------------------------------------------------------------
(* What the documentation claims and the code does not keep *)

\* "A restart re-reads the file honestly, skips a torn tail, and continues from
\* what is actually there": what was acknowledged stays on the ledger.
AcknowledgedSurvives == acked \subseteq EventsOf(Loaded(file))

=============================================================================
