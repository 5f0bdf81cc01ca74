------------------------ MODULE CanonicalLedgerProofs ------------------------
(***************************************************************************)
(* The canonical ledger, for any set of executions and any file length:    *)
(* what a restart loads verifies and books an execution once, a file       *)
(* without a torn tail is complete, terminated records stay, and what is   *)
(* readable implements the abstract append-only log.                       *)
(***************************************************************************)
EXTENDS CanonicalLedger, SequenceTheorems, TLAPS

Lines == Records \cup {Junk}

\* _load takes the first n lines of f and no more.
LoadsTo(f, n) == (\A i \in 1..n : f[i] # Junk) /\ (n < Len(f) => f[n + 1] = Junk)

\* The load of the file ends somewhere, and an unterminated line is a line.
Readable ==
    /\ \E n \in 0..Len(file) : LoadsTo(file, n)
    /\ tail # "line" => file # <<>>

Distinct(rs) == \A i, j \in DOMAIN rs : rs[i].event = rs[j].event => i = j

\* The cache of an open ledger is a chain of its own: whatever the file lost, its
\* readable part is a prefix of the cache until an append fails.
Cached ==
    /\ Verified(recs) /\ Distinct(recs)
    /\ ~up => recs = <<>>
    /\ up /\ ~failed =>
        /\ book = Chain(recs)
        /\ LoadLength(file) <= Len(recs)
        /\ \A i \in 1..LoadLength(file) : recs[i] = file[i]
        /\ ~TornTail(file) => Len(recs) = Len(file)

\* A last record whose newline never reached the disk was never acknowledged: the
\* append that returns writes the newline too.
UnfinishedIsUnacknowledged ==
    ~TornTail(file) /\ tail # "line" => file[Len(file)].event \notin acked

IInv ==
    /\ TypeOK /\ Readable /\ Cached /\ ChainVerifies /\ BookedOnce /\ CertifiedIsComplete
    /\ UnfinishedIsUnacknowledged

-----------------------------------------------------------------------------
(* Loading and chaining *)

\* LoadLength is the one number of lines the load can end after.
LEMMA LoadUnique ==
    ASSUME NEW f \in Seq(Lines), NEW n \in 0..Len(f), LoadsTo(f, n)
    PROVE  LoadLength(f) = n
<1>1. Len(f) \in Nat
  BY LenProperties
<1>2. \A m \in 0..Len(f) : LoadsTo(f, m) => m = n
  BY <1>1 DEF LoadsTo
<1>3. LoadLength(f) = CHOOSE m \in 0..Len(f) : LoadsTo(f, m)
  BY DEF LoadLength, LoadsTo
<1>4. (CHOOSE m \in 0..Len(f) : LoadsTo(f, m)) \in {m \in 0..Len(f) : LoadsTo(f, m)}
  OBVIOUS
<1> QED
  BY <1>2, <1>3, <1>4

\* What is loaded are the first lines of the file, records all of them.
LEMMA LoadedLines ==
    ASSUME NEW f \in Seq(Lines), NEW n \in 0..Len(f), LoadsTo(f, n)
    PROVE  /\ LoadLength(f) = n
           /\ Loaded(f) \in Seq(Records)
           /\ Len(Loaded(f)) = n /\ DOMAIN Loaded(f) = 1..n
           /\ \A i \in 1..n : Loaded(f)[i] = f[i] /\ f[i] \in Records
           /\ TornTail(f) <=> n < Len(f)
<1>1. LoadLength(f) = n /\ Len(f) \in Nat /\ n \in Int /\ 1 \in Int
  BY LoadUnique, LenProperties
<1>2. \A i \in 1..n : f[i] \in Records
  BY <1>1 DEF LoadsTo, Lines
<1>3. /\ SubSeq(f, 1, n) \in Seq(Records) /\ Len(SubSeq(f, 1, n)) = n
      /\ \A i \in 1..n : SubSeq(f, 1, n)[i] = f[i]
  <2>1. /\ SubSeq(f, 1, n) \in Seq(Records)
        /\ Len(SubSeq(f, 1, n)) = IF 1 <= n THEN n - 1 + 1 ELSE 0
        /\ \A i \in 1..(n - 1 + 1) : SubSeq(f, 1, n)[i] = f[1 + i - 1]
    BY <1>1, <1>2, SubSeqProperties
  <2> QED
    BY <1>1, <2>1
<1> QED
  BY <1>1, <1>2, <1>3, LenProperties DEF Loaded, TornTail

\* A prefix of a chain is a chain, of distinct executions if the chain is.
LEMMA PrefixVerified ==
    ASSUME NEW rs \in Seq(Records), NEW qs \in Seq(Records), Len(qs) <= Len(rs),
           \A i \in 1..Len(qs) : qs[i] = rs[i]
    PROVE  /\ Verified(rs) => Verified(qs)
           /\ Distinct(rs) => Distinct(qs)
<1>1. /\ DOMAIN rs = 1..Len(rs) /\ DOMAIN qs = 1..Len(qs)
      /\ Len(rs) \in Nat /\ Len(qs) \in Nat
  BY LenProperties
<1>2. ASSUME NEW i \in 1..Len(qs)
      PROVE  [j \in 1..(i - 1) |-> qs[j].event] = [j \in 1..(i - 1) |-> rs[j].event]
  <2>1. \A j \in 1..(i - 1) : qs[j] = rs[j]
    BY <1>1
  <2> QED
    BY <2>1
<1>3. ASSUME Verified(rs), NEW i \in 1..Len(qs)
      PROVE  qs[i].prev = [j \in 1..(i - 1) |-> qs[j].event]
  <2>1. i \in DOMAIN rs /\ qs[i] = rs[i]
    BY <1>1
  <2>2. rs[i].prev = [j \in 1..(i - 1) |-> rs[j].event]
    BY <1>3, <2>1 DEF Verified
  <2> QED
    BY <1>2, <2>1, <2>2
<1>4. Verified(rs) => Verified(qs)
  BY <1>1, <1>3 DEF Verified
<1>5. Distinct(rs) => Distinct(qs)
  BY <1>1 DEF Distinct
<1> QED
  BY <1>4, <1>5

\* The next record chains on what the cache holds.
LEMMA NextRecordChains ==
    ASSUME TypeOK, Verified(recs), NEW e \in Events
    PROVE  /\ NewRecord(e) \in Records /\ NewRecord(e) # Junk
           /\ NewRecord(e).event = e
           /\ NewRecord(e).prev = [j \in 1..Len(recs) |-> recs[j].event]
<1>1. /\ recs \in Seq(Records) /\ Len(recs) \in Nat /\ DOMAIN recs = 1..Len(recs)
      /\ \A i \in 1..Len(recs) : recs[i] \in Records
  BY LenProperties DEF TypeOK
<1>2. CASE recs = <<>>
  <2>1. HeadHash = <<>> /\ Len(recs) = 0
    BY <1>2 DEF HeadHash
  <2>2. HeadHash \in Seq(Events) /\ HeadHash = [j \in 1..Len(recs) |-> recs[j].event]
    BY <2>1
  <2> QED
    BY <2>2, JunkAssumption DEF NewRecord, Records
<1>3. CASE recs # <<>>
  <2> DEFINE k == Len(recs)
             p == recs[k].prev
  <2>1. k \in Nat /\ k > 0 /\ recs[k] \in Records
    BY <1>1, <1>3, EmptySeq
  <2>2. p \in Seq(Events) /\ recs[k].event \in Events /\ p = [j \in 1..(k - 1) |-> recs[j].event]
    <3>1. k \in DOMAIN recs
      BY <1>1, <2>1
    <3>2. p = [j \in 1..(k - 1) |-> recs[j].event]
      BY <3>1 DEF Verified
    <3> QED
      BY <2>1, <3>2 DEF Records
  <2>3. Len(p) = k - 1
    <3>1. DOMAIN p = 1..Len(p) /\ Len(p) \in Nat
      <4>1. p \in Seq(Events)
        BY <2>2
      <4> QED
        BY <4>1, LenProperties
    <3>2. DOMAIN p = 1..(k - 1)
      BY <2>2
    <3> QED
      BY <2>1, <3>1, <3>2
  <2>4. /\ HeadHash \in Seq(Events) /\ Len(HeadHash) = k
        /\ \A j \in 1..(k - 1) : HeadHash[j] = p[j]
        /\ HeadHash[k] = recs[k].event
    BY <1>3, <2>1, <2>2, <2>3, AppendProperties DEF HeadHash
  <2>5. HeadHash = [j \in 1..k |-> recs[j].event]
    <3>1. HeadHash \in [1..k -> Events]
      BY <2>4, LenProperties
    <3>2. \A j \in 1..k : HeadHash[j] = recs[j].event
      BY <2>1, <2>2, <2>4
    <3> QED
      BY <3>1, <3>2
  <2> QED
    BY <2>4, <2>5, JunkAssumption DEF NewRecord, Records
<1> QED
  BY <1>2, <1>3

\* A chain extended by its next record is a chain, of distinct executions if that one
\* is not in it yet.
LEMMA ExtendedVerified ==
    ASSUME NEW rs \in Seq(Records), Verified(rs), Distinct(rs), NEW r \in Records,
           r.prev = [j \in 1..Len(rs) |-> rs[j].event],
           \A i \in 1..Len(rs) : rs[i].event # r.event
    PROVE  /\ Append(rs, r) \in Seq(Records) /\ Len(Append(rs, r)) = Len(rs) + 1
           /\ Verified(Append(rs, r)) /\ Distinct(Append(rs, r))
           /\ EventsOf(Append(rs, r)) = EventsOf(rs) \cup {r.event}
<1> DEFINE qs == Append(rs, r)
           n == Len(rs)
<1>1. /\ qs \in Seq(Records) /\ Len(qs) = n + 1 /\ n \in Nat
      /\ \A i \in 1..n : qs[i] = rs[i]
      /\ qs[n + 1] = r
      /\ DOMAIN rs = 1..n /\ DOMAIN qs = 1..(n + 1)
  BY AppendProperties, LenProperties
<1> HIDE DEF qs, n
<1>2. \A i \in 1..(n + 1) : \A j \in 1..(i - 1) : qs[j] = rs[j]
  BY <1>1
<1>3. ASSUME NEW i \in 1..(n + 1)
      PROVE  [j \in 1..(i - 1) |-> qs[j].event] = [j \in 1..(i - 1) |-> rs[j].event]
  BY <1>2
<1>4. Verified(qs)
  <2> SUFFICES ASSUME NEW i \in 1..(n + 1)
               PROVE  qs[i].prev = [j \in 1..(i - 1) |-> rs[j].event]
    BY <1>1, <1>3 DEF Verified
  <2>1. CASE i \in 1..n
    BY <1>1, <2>1 DEF Verified
  <2>2. CASE i = n + 1
    <3>1. i - 1 = n
      BY <1>1, <2>2
    <3> QED
      BY <1>1, <2>2, <3>1 DEF n
  <2> QED
    BY <1>1, <2>1, <2>2
<1>5. Distinct(qs)
  BY <1>1 DEF Distinct, n
<1>6. EventsOf(qs) = EventsOf(rs) \cup {r.event}
  BY <1>1 DEF EventsOf
<1> QED
  BY <1>1, <1>4, <1>5, <1>6 DEF qs, n

\* The executions of a record sequence are a sequence, and extend with it.
LEMMA ChainIsSeq ==
    ASSUME NEW rs \in Seq(Records)
    PROVE  Chain(rs) \in Seq(Events) /\ Len(Chain(rs)) = Len(rs)
           /\ \A i \in 1..Len(rs) : Chain(rs)[i] = rs[i].event
<1>1. /\ Len(rs) \in Nat /\ DOMAIN rs = 1..Len(rs)
      /\ \A i \in 1..Len(rs) : rs[i].event \in Events
  <2>1. Len(rs) \in Nat /\ DOMAIN rs = 1..Len(rs) /\ \A i \in 1..Len(rs) : rs[i] \in Records
    BY LenProperties, ElementOfSeq
  <2> QED
    BY <2>1 DEF Records
<1>2. Chain(rs) = [i \in 1..Len(rs) |-> rs[i].event]
  BY <1>1 DEF Chain
<1> QED
  BY <1>1, <1>2

LEMMA ChainExtends ==
    ASSUME NEW rs \in Seq(Records), NEW qs \in Seq(Records), NEW e \in Events,
           Len(qs) = Len(rs) + 1, \A i \in 1..Len(rs) : qs[i] = rs[i],
           qs[Len(rs) + 1].event = e
    PROVE  Chain(qs) = Append(Chain(rs), e)
<1>1. Len(rs) \in Nat
  BY LenProperties
<1>2. /\ Chain(rs) \in Seq(Events) /\ Len(Chain(rs)) = Len(rs)
      /\ \A i \in 1..Len(rs) : Chain(rs)[i] = rs[i].event
      /\ Chain(qs) \in Seq(Events) /\ Len(Chain(qs)) = Len(qs)
      /\ \A i \in 1..Len(qs) : Chain(qs)[i] = qs[i].event
  BY ChainIsSeq
<1>3. /\ Append(Chain(rs), e) \in Seq(Events) /\ Len(Append(Chain(rs), e)) = Len(rs) + 1
      /\ \A i \in 1..Len(rs) : Append(Chain(rs), e)[i] = Chain(rs)[i]
      /\ Append(Chain(rs), e)[Len(rs) + 1] = e
  BY <1>2, AppendProperties
<1>4. \A i \in 1..Len(qs) : Chain(qs)[i] = Append(Chain(rs), e)[i]
  BY <1>1, <1>2, <1>3
<1> QED
  BY <1>2, <1>3, <1>4, SeqEqual

\* What a write does to the readable part of the file: nothing; it grows by the
\* record, on a file without a torn tail that ends in a terminated line; or the file
\* is torn afterwards and at most its unterminated last line has left the readable part.
LEMMA WriteEffect ==
    ASSUME TypeOK, Readable, NEW r \in Records, NEW how \in Interrupted, r # Junk, Put(r, how)
    PROVE  LET n == LoadLength(file) IN
           /\ file' \in Seq(Lines) /\ tail' \in Tails /\ (tail' # "line" => file' # <<>>)
           /\ \/ how = "none" /\ file' = file /\ tail' = tail
              \/ /\ how # "none" /\ n = Len(file) /\ tail = "line"
                 /\ file' = Append(file, r) /\ LoadsTo(file', n + 1)
              \/ /\ how # "none"
                 /\ \E m \in 0..n :
                    /\ m < Len(file') /\ LoadsTo(file', m)
                    /\ \A i \in 1..m : file'[i] = file[i]
                    /\ \/ m = n /\ (n < Len(file) \/ how = "cut")
                       \/ m = Len(file) - 1 /\ tail # "line"
<1> DEFINE n == LoadLength(file)
           k == Len(file)
<1>1. /\ file \in Seq(Lines) /\ k \in Nat /\ n \in 0..k /\ LoadsTo(file, n)
      /\ r \in Lines /\ Junk \in Lines /\ tail \in Tails
      /\ tail # "line" => k > 0
  BY LoadUnique, LenProperties, EmptySeq DEF TypeOK, Readable, Lines
<1> HIDE DEF n
<1>2. CASE how = "none"
  BY <1>1, <1>2 DEF Put, Readable
<1>3. CASE how # "none" /\ tail = "line"
  <2> DEFINE new == IF how = "cut" THEN Junk ELSE r
  <2>1. file' = Append(file, new) /\ tail' = how /\ new \in Lines
    BY <1>1, <1>3 DEF Put
  <2> HIDE DEF new
  <2>2. /\ file' \in Seq(Lines) /\ Len(file') = k + 1
        /\ \A i \in 1..k : file'[i] = file[i]
        /\ file'[k + 1] = new
    BY <1>1, <2>1, AppendProperties
  <2>3. file' # <<>> /\ tail' \in Tails
    BY <1>1, <1>3, <2>1, <2>2, EmptySeq DEF Interrupted, Tails
  <2>4. CASE n = k /\ how # "cut"
    <3>1. LoadsTo(file', n + 1) /\ new = r
      BY <1>1, <2>2, <2>4 DEF LoadsTo, new
    <3> QED
      BY <1>3, <2>1, <2>2, <2>3, <2>4, <3>1 DEF n
  <2>5. CASE n < k \/ how = "cut"
    <3>1. n < Len(file') /\ LoadsTo(file', n) /\ \A i \in 1..n : file'[i] = file[i]
      BY <1>1, <2>2, <2>5 DEF LoadsTo, new
    <3> QED
      BY <1>1, <1>3, <2>2, <2>3, <2>5, <3>1 DEF n
  <2> QED
    BY <1>1, <2>4, <2>5
<1>4. CASE how # "none" /\ tail # "line"
  <2>1. /\ file' = [file EXCEPT ![k] = Junk] /\ k \in 1..k
        /\ tail' = IF how = "line" THEN "line" ELSE "cut"
    BY <1>1, <1>4 DEF Put
  <2>2. /\ file' \in Seq(Lines) /\ Len(file') = k
        /\ \A i \in 1..k : file'[i] = IF i = k THEN Junk ELSE file[i]
    BY <1>1, <2>1, ExceptSeq
  <2>3. file' # <<>> /\ tail' \in Tails
    BY <1>1, <1>4, <2>1, <2>2, EmptySeq DEF Tails
  <2>4. CASE n < k
    <3>1. n < Len(file') /\ LoadsTo(file', n) /\ \A i \in 1..n : file'[i] = file[i]
      BY <1>1, <2>2, <2>4 DEF LoadsTo
    <3> QED
      BY <1>1, <1>4, <2>2, <2>3, <3>1 DEF n
  <2>5. CASE n = k
    <3>1. /\ k - 1 \in 0..n /\ k - 1 < Len(file') /\ LoadsTo(file', k - 1)
          /\ \A i \in 1..(k - 1) : file'[i] = file[i]
      <4>1. /\ k - 1 \in 0..n /\ k - 1 < Len(file')
            /\ \A i \in 1..(k - 1) : file'[i] = file[i] /\ file[i] # Junk
            /\ file'[k] = Junk
        BY <1>1, <1>4, <2>2, <2>5 DEF LoadsTo
      <4>2. k - 1 + 1 = k
        BY <1>1
      <4> QED
        BY <4>1, <4>2 DEF LoadsTo
    <3> QED
      BY <1>4, <2>2, <2>3, <3>1 DEF n
  <2> QED
    BY <1>1, <2>4, <2>5
<1> QED
  BY <1>2, <1>3, <1>4

-----------------------------------------------------------------------------
(* The invariant *)

\* An append on an open ledger that has not failed leaves the readable part a chain of
\* distinct executions.
LEMMA WriteKeepsChain ==
    ASSUME IInv, up, ~failed, NEW e \in Events, ~InBook(e), NEW how \in Interrupted,
           Put(NewRecord(e), how)
    PROVE  LET rs == Append(recs, NewRecord(e)) IN
           /\ rs \in Seq(Records) /\ Verified(rs) /\ Distinct(rs)
           /\ EventsOf(rs) = EventsOf(recs) \cup {e}
           /\ Chain(rs) = Append(Chain(recs), e)
           /\ Len(rs) = Len(recs) + 1 /\ \A i \in 1..Len(recs) : rs[i] = recs[i]
           /\ file' \in Seq(Lines) /\ tail' \in Tails /\ Readable'
           /\ Verified(Loaded(file')) /\ Distinct(Loaded(file'))
           /\ \/ how = "none" /\ file' = file /\ tail' = tail
              \/ /\ how # "none" /\ ~TornTail(file) /\ ~TornTail(file')
                 /\ file' = rs /\ Loaded(file') = rs /\ LoadLength(file') = Len(rs)
                 /\ file = recs /\ Loaded(file) = recs
                 /\ rs[Len(rs)].event = e /\ e \notin EventsOf(recs)
              \/ /\ how # "none" /\ TornTail(file') /\ LoadLength(file') <= LoadLength(file)
                 /\ \A i \in 1..LoadLength(file') : file'[i] = file[i]
                 /\ \/ /\ LoadLength(file') = LoadLength(file)
                       /\ TornTail(file) \/ how = "cut"
                    \/ /\ LoadLength(file') = Len(file) - 1
                       /\ tail # "line"
           /\ \A i \in DOMAIN Loaded(file) :
                 i < Len(file) \/ tail = "line" =>
                     i \in DOMAIN Loaded(file') /\ Loaded(file')[i] = file[i]
<1> DEFINE r == NewRecord(e)
           rs == Append(recs, r)
           n == LoadLength(file)
           k == Len(file)
<1>1. /\ file \in Seq(Lines) /\ k \in Nat /\ n \in 0..k /\ LoadsTo(file, n)
      /\ Loaded(file) \in Seq(Records) /\ Len(Loaded(file)) = n /\ DOMAIN Loaded(file) = 1..n
      /\ \A i \in 1..n : Loaded(file)[i] = file[i] /\ file[i] \in Records
      /\ TornTail(file) <=> n < k
  BY LoadedLines, LoadUnique, LenProperties DEF IInv, TypeOK, Readable, Lines
<1>2. /\ recs \in Seq(Records) /\ Len(recs) \in Nat /\ DOMAIN recs = 1..Len(recs)
      /\ Verified(recs) /\ Distinct(recs)
      /\ n <= Len(recs) /\ \A i \in 1..n : recs[i] = file[i]
      /\ ~TornTail(file) => Len(recs) = k
      /\ \A i \in 1..Len(recs) : recs[i].event # e
  <2>1. recs \in Seq(Records) /\ Len(recs) \in Nat /\ DOMAIN recs = 1..Len(recs)
    BY LenProperties DEF IInv, TypeOK
  <2>2. book = Chain(recs)
    BY DEF IInv, Cached
  <2>3. \A i \in 1..Len(recs) : recs[i].event # e
    BY <2>1, <2>2 DEF InBook, Chain
  <2> QED
    BY <2>1, <2>3 DEF IInv, Cached
<1>3. /\ r \in Records /\ r # Junk /\ r.event = e
      /\ r.prev = [j \in 1..Len(recs) |-> recs[j].event]
  BY <1>2, NextRecordChains DEF IInv
<1>4. /\ rs \in Seq(Records) /\ Len(rs) = Len(recs) + 1 /\ Verified(rs) /\ Distinct(rs)
      /\ EventsOf(rs) = EventsOf(recs) \cup {e}
      /\ \A i \in 1..Len(recs) : rs[i] = recs[i]
      /\ Chain(rs) = Append(Chain(recs), e)
      /\ rs[Len(rs)].event = e /\ e \notin EventsOf(recs)
  <2>1. /\ rs \in Seq(Records) /\ Len(rs) = Len(recs) + 1 /\ Verified(rs) /\ Distinct(rs)
        /\ EventsOf(rs) = EventsOf(recs) \cup {e}
    BY <1>2, <1>3, ExtendedVerified
  <2>2. /\ \A i \in 1..Len(recs) : rs[i] = recs[i]
        /\ rs[Len(recs) + 1] = r
    BY <1>2, <1>3, AppendProperties
  <2>3. Chain(rs) = Append(Chain(recs), e)
    <3>1. recs \in Seq(Records) /\ e \in Events /\ rs[Len(recs) + 1].event = e
      BY <1>2, <1>3, <2>2
    <3> HIDE DEF rs, r
    <3> QED
      BY <2>1, <2>2, <3>1, ChainExtends
  <2>4. rs[Len(rs)].event = e /\ e \notin EventsOf(recs)
    BY <1>2, <1>3, <2>1, <2>2 DEF EventsOf
  <2> QED
    BY <2>1, <2>2, <2>3, <2>4
<1>5. Verified(Loaded(file)) /\ Distinct(Loaded(file))
  BY <1>1, <1>2, PrefixVerified
<1>6. /\ file' \in Seq(Lines) /\ tail' \in Tails /\ (tail' # "line" => file' # <<>>)
      /\ \/ how = "none" /\ file' = file /\ tail' = tail
         \/ /\ n = k /\ tail = "line" /\ file' = Append(file, r) /\ LoadsTo(file', n + 1)
            /\ how # "none"
         \/ /\ how # "none"
            /\ \E m \in 0..n :
               /\ m < Len(file') /\ LoadsTo(file', m)
               /\ \A i \in 1..m : file'[i] = file[i]
               /\ \/ m = n /\ (n < k \/ how = "cut")
                  \/ m = k - 1 /\ tail # "line"
  BY <1>3, WriteEffect DEF IInv
<1> HIDE DEF r, rs, n, k
<1>7. CASE how = "none" /\ file' = file /\ tail' = tail
  <2>1. Readable'
    BY <1>6, <1>7 DEF IInv, Readable
  <2>2. \A i \in DOMAIN Loaded(file) : Loaded(file)[i] = file[i]
    BY <1>1
  <2> QED
    BY <1>4, <1>5, <1>6, <1>7, <2>1, <2>2 DEF rs, r
<1>8. CASE /\ n = k /\ tail = "line" /\ file' = Append(file, r) /\ LoadsTo(file', n + 1)
           /\ how # "none"
  <2>1. recs = file
    <3>1. recs \in Seq(Lines) /\ Len(recs) = Len(file) /\ \A i \in 1..Len(recs) : recs[i] = file[i]
      <4>1. recs \in Seq(Lines)
        BY <1>2, SeqMonotonic DEF Lines
      <4>2. Len(recs) = k
        <5>1. ~TornTail(file)
          BY <1>1, <1>8
        <5> QED
          BY <1>2, <5>1
      <4> QED
        BY <1>2, <1>8, <4>1, <4>2 DEF k
    <3> QED
      BY <1>1, <3>1, SeqEqual
  <2>2. file' = rs /\ Len(file') = n + 1
    BY <1>4, <1>8, <2>1 DEF rs, k
  <2>3. /\ LoadLength(file') = n + 1 /\ Loaded(file') \in Seq(Records)
        /\ Len(Loaded(file')) = n + 1 /\ DOMAIN Loaded(file') = 1..(n + 1)
        /\ \A i \in 1..(n + 1) : Loaded(file')[i] = file'[i]
        /\ ~TornTail(file')
    <3>1. n + 1 \in 0..Len(file')
      BY <1>1, <2>2
    <3> QED
      BY <1>1, <1>6, <1>8, <2>2, <3>1, LoadedLines
  <2>4. Loaded(file') = rs
    BY <1>4, <2>2, <2>3, SeqEqual
  <2>5. Readable'
    <3>1. n + 1 \in 0..Len(file')
      BY <1>1, <2>2
    <3> QED
      BY <1>6, <1>8, <3>1 DEF Readable
  <2>6. \A i \in 1..n : file'[i] = file[i]
    BY <1>1, <1>3, <1>8, AppendProperties DEF k, Lines
  <2>7. ~TornTail(file) /\ Loaded(file) = recs
    <3>1. ~TornTail(file)
      BY <1>1, <1>8
    <3>2. Len(recs) = n /\ \A i \in 1..n : Loaded(file)[i] = recs[i]
      BY <1>1, <1>2, <1>8, <3>1
    <3>3. Loaded(file) = recs
      BY <1>1, <1>2, <3>2, SeqEqual
    <3> QED
      BY <3>1, <3>3
  <2>8. \A i \in DOMAIN Loaded(file) :
            i \in DOMAIN Loaded(file') /\ Loaded(file')[i] = file[i]
    BY <1>1, <2>3, <2>6
  <2> QED
    BY <1>4, <1>6, <1>8, <2>1, <2>2, <2>3, <2>4, <2>5, <2>7, <2>8 DEF rs, r
<1>9. ASSUME how # "none", NEW m \in 0..n, m < Len(file'), LoadsTo(file', m),
             \A i \in 1..m : file'[i] = file[i], m = n \/ (m = k - 1 /\ tail # "line")
      PROVE  /\ Readable' /\ Verified(Loaded(file')) /\ Distinct(Loaded(file'))
             /\ TornTail(file') /\ LoadLength(file') = m
             /\ \A i \in DOMAIN Loaded(file) :
                   i < Len(file) \/ tail = "line" =>
                       i \in DOMAIN Loaded(file') /\ Loaded(file')[i] = file[i]
  <2>1. m \in 0..Len(file') /\ Len(file') \in Nat
    BY <1>1, <1>6, <1>9, LenProperties
  <2>2. /\ LoadLength(file') = m /\ Loaded(file') \in Seq(Records)
        /\ Len(Loaded(file')) = m /\ DOMAIN Loaded(file') = 1..m
        /\ \A i \in 1..m : Loaded(file')[i] = file'[i]
        /\ TornTail(file')
    BY <1>6, <1>9, <2>1, LoadedLines
  <2>3. Readable'
    BY <1>6, <1>9, <2>1 DEF Readable
  <2>4. Verified(Loaded(file')) /\ Distinct(Loaded(file'))
    <3>1. m <= n /\ \A i \in 1..m : Loaded(file')[i] = Loaded(file)[i]
      BY <1>1, <1>9, <2>2
    <3> QED
      BY <1>1, <1>5, <2>2, <3>1, PrefixVerified
  <2>5. \A i \in 1..n : i < k \/ tail = "line" => i \in 1..m
    BY <1>1, <1>9
  <2> QED
    BY <1>1, <1>9, <2>2, <2>3, <2>4, <2>5 DEF k
<1>10. CASE /\ how # "none"
            /\ \E m \in 0..n :
               /\ m < Len(file') /\ LoadsTo(file', m)
               /\ \A i \in 1..m : file'[i] = file[i]
               /\ \/ m = n /\ (n < k \/ how = "cut")
                  \/ m = k - 1 /\ tail # "line"
  <2>1. PICK m \in 0..n : /\ m < Len(file') /\ LoadsTo(file', m)
                          /\ \A i \in 1..m : file'[i] = file[i]
                          /\ \/ m = n /\ (n < k \/ how = "cut")
                             \/ m = k - 1 /\ tail # "line"
    BY <1>10
  <2>2. m <= n
    BY <1>1
  <2>4. \/ m = n /\ (TornTail(file) \/ how = "cut")
        \/ m = Len(file) - 1 /\ tail # "line"
    BY <1>1, <2>1 DEF k
  <2>3. /\ Readable' /\ Verified(Loaded(file')) /\ Distinct(Loaded(file'))
        /\ TornTail(file') /\ LoadLength(file') = m
        /\ \A i \in DOMAIN Loaded(file) :
              i < Len(file) \/ tail = "line" =>
                  i \in DOMAIN Loaded(file') /\ Loaded(file')[i] = file[i]
    BY <1>9, <1>10, <2>1
  <2> QED
    BY <1>4, <1>6, <1>10, <2>1, <2>2, <2>3, <2>4 DEF n, rs, r
<1> QED
  BY <1>6, <1>7, <1>8, <1>10

LEMMA InitInvariant == Init => IInv
<1> SUFFICES ASSUME Init PROVE IInv
  OBVIOUS
<1>1. /\ file = <<>> /\ recs = <<>> /\ book = <<>> /\ tail = "line" /\ up = FALSE
      /\ failed = FALSE /\ acked = {} /\ reported = {}
  BY DEF Init
<1>2. <<>> \in Seq(Lines) /\ <<>> \in Seq(Records) /\ <<>> \in Seq(Events) /\ Len(<<>>) = 0
  BY EmptySeq
<1>3. TypeOK
  BY <1>1, <1>2 DEF TypeOK, Tails, Lines
<1>4. LoadsTo(file, 0) /\ 0 \in 0..Len(file)
  BY <1>1, <1>2 DEF LoadsTo
<1>5. /\ LoadLength(file) = 0 /\ Loaded(file) \in Seq(Records)
      /\ DOMAIN Loaded(file) = 1..0 /\ ~TornTail(file)
  <2>1. file \in Seq(Lines) /\ Len(file) = 0 /\ 0 \in 0..0
    BY <1>1, <1>2
  <2>2. /\ LoadLength(file) = 0 /\ Loaded(file) \in Seq(Records)
        /\ DOMAIN Loaded(file) = 1..0 /\ (TornTail(file) <=> 0 < Len(file))
    BY <1>4, <2>1, LoadedLines
  <2> QED
    BY <2>1, <2>2
<1>6. DOMAIN recs = 1..0
  BY <1>1
<1> QED
  BY <1>1, <1>2, <1>3, <1>4, <1>5, <1>6
  DEF IInv, Readable, Cached, Verified, Distinct, ChainVerifies, BookedOnce, CertifiedIsComplete,
      UnfinishedIsUnacknowledged

\* No step of the writer, however it is interrupted, disturbs the invariant.
LEMMA StepInvariant == ASSUME IInv, [Next]_vars PROVE IInv'
<1>1. PICK n \in 0..Len(file) : LoadsTo(file, n)
  BY DEF IInv, Readable
<1>2. /\ LoadLength(file) = n /\ Loaded(file) \in Seq(Records)
      /\ Len(Loaded(file)) = n /\ DOMAIN Loaded(file) = 1..n
      /\ \A i \in 1..n : Loaded(file)[i] = file[i]
      /\ TornTail(file) <=> n < Len(file)
      /\ Len(file) \in Nat
  BY <1>1, LoadedLines, LenProperties DEF IInv, TypeOK, Lines
<1>3. /\ recs \in Seq(Records) /\ Len(recs) \in Nat /\ DOMAIN recs = 1..Len(recs)
      /\ book \in Seq(Events)
  BY LenProperties DEF IInv, TypeOK
<1>4. <<>> \in Seq(Records) /\ Len(<<>>) = 0 /\ <<>> \in Seq(Events) /\ DOMAIN <<>> = {}
      /\ Verified(<<>>) /\ Distinct(<<>>)
  BY DEF Verified, Distinct
<1>5. ASSUME Open PROVE IInv'
  <2>1. /\ UNCHANGED <<file, tail, acked>> /\ recs' = Loaded(file) /\ failed' = FALSE
        /\ book' = Chain(Loaded(file)) /\ reported' = {} /\ up' = TRUE
        /\ Verified(Loaded(file))
    BY <1>5 DEF Open
  <2>2. Distinct(Loaded(file))
    BY DEF IInv, BookedOnce, Distinct
  <2>3. TypeOK'
    BY <1>2, <2>1, ChainIsSeq DEF IInv, TypeOK
  <2>4. Cached'
    BY <1>2, <2>1, <2>2 DEF Cached
  <2>5. CertifiedIsComplete'
    BY <1>2, <2>1 DEF IInv, CertifiedIsComplete
  <2> QED
    BY <2>1, <2>3, <2>4, <2>5
    DEF IInv, Readable, ChainVerifies, BookedOnce, UnfinishedIsUnacknowledged
<1>6. ASSUME NEW e \in Events, MirrorDuplicate(e) PROVE IInv'
  <2>1. /\ UNCHANGED <<file, tail, up, recs, failed, book, acked>> /\ up /\ InBook(e)
        /\ reported' = reported \cup {e}
    BY <1>6 DEF MirrorDuplicate
  <2>2. ~failed => e \in EventsOf(recs)
    BY <1>3, <2>1 DEF IInv, Cached, InBook, Chain, EventsOf
  <2>3. BookedOnce'
    BY <2>1, <2>2 DEF IInv, BookedOnce
  <2> QED
    BY <2>1, <2>3 DEF IInv, TypeOK, Readable, Cached, ChainVerifies, CertifiedIsComplete,
                      UnfinishedIsUnacknowledged
<1>7. ASSUME NEW e \in Events, up, ~failed, ~InBook(e), NEW how \in Interrupted,
             Put(NewRecord(e), how)
      PROVE  /\ file' \in Seq(Lines) /\ tail' \in Tails /\ Readable' /\ ChainVerifies'
             /\ Distinct(Loaded(file'))
             /\ ~TornTail(file') => /\ acked \subseteq EventsOf(Loaded(file'))
                                   /\ Len(recs) <= Len(file')
                                   /\ \A i \in DOMAIN recs : file'[i] = recs[i]
             /\ ~TornTail(file') /\ tail' # "line" => file'[Len(file')].event \notin acked
  <2> DEFINE rs == Append(recs, NewRecord(e))
  <2>1. /\ EventsOf(rs) = EventsOf(recs) \cup {e}
        /\ Len(rs) = Len(recs) + 1 /\ \A i \in 1..Len(recs) : rs[i] = recs[i]
        /\ file' \in Seq(Lines) /\ tail' \in Tails /\ Readable'
        /\ Verified(Loaded(file')) /\ Distinct(Loaded(file'))
        /\ \/ how = "none" /\ file' = file /\ tail' = tail
           \/ /\ ~TornTail(file) /\ file' = rs /\ Loaded(file') = rs /\ Loaded(file) = recs
              /\ rs[Len(rs)].event = e /\ e \notin EventsOf(recs)
           \/ TornTail(file')
    BY <1>7, WriteKeepsChain
  <2> HIDE DEF rs
  <2>2. CASE file' = file /\ tail' = tail
    BY <2>1, <2>2 DEF IInv, CertifiedIsComplete, ChainVerifies, UnfinishedIsUnacknowledged
  <2>3. CASE /\ ~TornTail(file) /\ file' = rs /\ Loaded(file') = rs /\ Loaded(file) = recs
             /\ rs[Len(rs)].event = e /\ e \notin EventsOf(recs)
    <3>1. acked \subseteq EventsOf(rs)
      BY <2>1, <2>3 DEF IInv, CertifiedIsComplete
    <3>2. e \notin acked
      BY <2>3 DEF IInv, CertifiedIsComplete
    <3> QED
      BY <1>3, <2>1, <2>3, <3>1, <3>2 DEF ChainVerifies
  <2>4. CASE TornTail(file')
    BY <2>1, <2>4 DEF ChainVerifies
  <2> QED
    BY <2>1, <2>2, <2>3, <2>4
<1>8. ASSUME NEW e \in Events, MirrorOk(e) PROVE IInv'
  <2> DEFINE rs == Append(recs, NewRecord(e))
  <2>1. /\ up /\ ~InBook(e) /\ ~failed /\ Put(NewRecord(e), "line")
        /\ book' = Append(book, e) /\ recs' = rs
        /\ acked' = acked \cup {e} /\ reported' = reported \cup {e}
        /\ up' = up /\ failed' = failed /\ "line" \in Interrupted /\ tail' = "line"
    BY <1>8 DEF MirrorOk, Interrupted, Put
  <2>2. /\ rs \in Seq(Records) /\ Verified(rs) /\ Distinct(rs)
        /\ EventsOf(rs) = EventsOf(recs) \cup {e}
        /\ Chain(rs) = Append(Chain(recs), e)
        /\ Len(rs) = Len(recs) + 1 /\ \A i \in 1..Len(recs) : rs[i] = recs[i]
        /\ file' \in Seq(Lines) /\ tail' \in Tails /\ Readable'
        /\ Verified(Loaded(file')) /\ Distinct(Loaded(file'))
        /\ \/ /\ ~TornTail(file) /\ ~TornTail(file')
              /\ file' = rs /\ Loaded(file') = rs /\ LoadLength(file') = Len(rs)
              /\ file = recs /\ Loaded(file) = recs
           \/ /\ TornTail(file') /\ LoadLength(file') <= LoadLength(file)
              /\ \A i \in 1..LoadLength(file') : file'[i] = file[i]
    BY <2>1, WriteKeepsChain
  <2>3. book = Chain(recs) /\ n <= Len(recs) /\ \A i \in 1..n : recs[i] = file[i]
    BY <1>2, <2>1 DEF IInv, Cached
  <2> HIDE DEF rs
  <2>4. TypeOK'
    <3>1. book' \in Seq(Events)
      BY <1>3, <2>1, AppendProperties
    <3> QED
      BY <2>1, <2>2, <3>1 DEF IInv, TypeOK, Lines
  <2>5. LoadLength(file') \in Nat
    <3>1. PICK m \in 0..Len(file') : LoadsTo(file', m)
      BY <2>2 DEF Readable
    <3> QED
      BY <2>2, <3>1, LoadUnique, LenProperties
  <2>6. /\ LoadLength(file') <= Len(rs)
        /\ \A i \in 1..LoadLength(file') : rs[i] = file'[i]
        /\ ~TornTail(file') => Len(rs) = Len(file')
    BY <1>1, <1>2, <1>3, <2>2, <2>3, <2>5
  <2>7. Cached'
    BY <2>1, <2>2, <2>3, <2>6 DEF Cached
  <2>8. ChainVerifies' /\ BookedOnce'
    BY <2>1, <2>2 DEF IInv, ChainVerifies, BookedOnce, Distinct
  <2>9. CertifiedIsComplete'
    <3>1. CASE TornTail(file')
      BY <3>1 DEF CertifiedIsComplete
    <3>2. CASE ~TornTail(file) /\ file' = rs /\ Loaded(file') = rs /\ Loaded(file) = recs
      <4>1. acked' \subseteq EventsOf(rs)
        BY <2>1, <2>2, <3>2 DEF IInv, CertifiedIsComplete
      <4> QED
        BY <1>3, <2>1, <2>2, <3>2, <4>1 DEF CertifiedIsComplete
    <3> QED
      BY <2>2, <3>1, <3>2
  <2> QED
    BY <2>1, <2>2, <2>4, <2>7, <2>8, <2>9 DEF IInv, UnfinishedIsUnacknowledged
<1>9. ASSUME NEW e \in Events, NEW how \in Interrupted, MirrorFails(e, how) PROVE IInv'
  <2>1. /\ up /\ ~InBook(e) /\ ~failed /\ Put(NewRecord(e), how)
        /\ book' = Append(book, e) /\ failed' = TRUE /\ UNCHANGED <<up, recs, acked, reported>>
    BY <1>9 DEF MirrorFails
  <2>2. /\ file' \in Seq(Lines) /\ tail' \in Tails /\ Readable' /\ ChainVerifies'
        /\ Distinct(Loaded(file')) /\ CertifiedIsComplete' /\ UnfinishedIsUnacknowledged'
    BY <1>7, <2>1 DEF CertifiedIsComplete, UnfinishedIsUnacknowledged
  <2>3. book' \in Seq(Events)
    BY <1>3, <2>1, AppendProperties
  <2>4. TypeOK'
    BY <2>1, <2>2, <2>3 DEF IInv, TypeOK, Lines
  <2>5. Cached' /\ BookedOnce'
    BY <2>1, <2>2 DEF IInv, Cached, BookedOnce, Distinct
  <2> QED
    BY <2>2, <2>4, <2>5 DEF IInv
<1>10. ASSUME NEW e \in Events, MirrorRefused(e) PROVE IInv'
  <2>1. /\ failed /\ book' = Append(book, e)
        /\ UNCHANGED <<file, tail, up, recs, failed, acked, reported>>
    BY <1>10 DEF MirrorRefused
  <2>2. book' \in Seq(Events)
    BY <1>3, <2>1, AppendProperties
  <2> QED
    BY <2>1, <2>2 DEF IInv, TypeOK, Readable, Cached, ChainVerifies, BookedOnce,
                      CertifiedIsComplete, UnfinishedIsUnacknowledged
<1>11. ASSUME Close, acked' = acked, file' \in Seq(Lines), tail' \in Tails, Readable',
              ChainVerifies', Distinct(Loaded(file')),
              ~TornTail(file') => acked \subseteq EventsOf(Loaded(file')),
              ~TornTail(file') /\ tail' # "line" => file'[Len(file')].event \notin acked
       PROVE  IInv'
  <2>1. /\ up' = FALSE /\ recs' = <<>> /\ failed' = FALSE /\ book' = <<>> /\ reported' = {}
    BY <1>11 DEF Close
  <2>2. Len(file') \in Nat
    BY <1>11, LenProperties
  <2>3. TypeOK'
    BY <1>4, <1>11, <2>1 DEF IInv, TypeOK, Lines
  <2>4. Cached'
    BY <1>4, <2>1 DEF Cached
  <2>5. BookedOnce'
    BY <1>11, <2>1 DEF BookedOnce, Distinct
  <2>6. CertifiedIsComplete'
    BY <1>4, <1>11, <2>1, <2>2 DEF CertifiedIsComplete
  <2> QED
    BY <1>11, <2>3, <2>4, <2>5, <2>6 DEF IInv, UnfinishedIsUnacknowledged
<1>12. ASSUME NEW e \in Events, NEW how \in Interrupted, Dies(e, how) PROVE IInv'
  BY <1>7, <1>11, <1>12 DEF Dies
<1>13. ASSUME Stops PROVE IInv'
  <2>1. Distinct(Loaded(file))
    BY DEF IInv, BookedOnce, Distinct
  <2>2. /\ Close /\ UNCHANGED <<file, tail, acked>>
    BY <1>13 DEF Stops
  <2>3. /\ file' \in Seq(Lines) /\ tail' \in Tails /\ Readable' /\ ChainVerifies'
        /\ ~TornTail(file') => acked \subseteq EventsOf(Loaded(file'))
        /\ ~TornTail(file') /\ tail' # "line" => file'[Len(file')].event \notin acked
    BY <2>2 DEF IInv, TypeOK, Lines, Readable, ChainVerifies, CertifiedIsComplete,
                UnfinishedIsUnacknowledged
  <2> QED
    BY <1>11, <2>1, <2>2, <2>3
<1>14. CASE UNCHANGED vars
  BY <1>14 DEF vars, IInv, TypeOK, Readable, Cached, ChainVerifies, BookedOnce,
               CertifiedIsComplete, UnfinishedIsUnacknowledged
<1> QED
  BY <1>5, <1>6, <1>8, <1>9, <1>10, <1>12, <1>13, <1>14 DEF Next

LEMMA LedgerInvariant == Spec => []IInv
<1>1. IInv /\ [Next]_vars => IInv'
  BY StepInvariant
<1> QED
  BY InitInvariant, <1>1, PTL DEF Spec

\* Whatever was interrupted, what a restart loads is one hash chain.
THEOREM LoadedChainVerifies == Spec => []ChainVerifies
BY LedgerInvariant, PTL DEF IInv

\* A restart never loads an execution twice, and until an append fails what
\* mirror_event returned for is booked.
THEOREM ExecutionsBookedOnce == Spec => []BookedOnce
BY LedgerInvariant, PTL DEF IInv

\* A ledger that shows no torn tail holds every execution ever acknowledged.
THEOREM CertifiedLedgerIsComplete == Spec => []CertifiedIsComplete
BY LedgerInvariant, PTL DEF IInv

\* No step changes or hides a terminated record that a restart could read.
THEOREM TerminatedRecordsAreKept == Spec => TerminatedRecordsStay
<1> DEFINE Kept == \A i \in DOMAIN Loaded(file) :
             i < Len(file) \/ tail = "line" =>
                 i \in DOMAIN Loaded(file)' /\ Loaded(file)'[i] = file[i]
<1>1. IInv /\ [Next]_vars => [Kept]_vars
  <2> SUFFICES ASSUME IInv, Next PROVE Kept
    OBVIOUS
  <2>1. ASSUME NEW e \in Events, NEW how \in Interrupted,
               up, ~failed, ~InBook(e), Put(NewRecord(e), how)
        PROVE  Kept
    BY <2>1, WriteKeepsChain
  <2>2. CASE file' = file
    <3>1. PICK n \in 0..Len(file) : LoadsTo(file, n)
      BY DEF IInv, Readable
    <3> QED
      BY <2>2, <3>1, LoadedLines DEF IInv, TypeOK, Lines
  <2>3. file' = file \/ \E e \in Events, how \in Interrupted :
            up /\ ~failed /\ ~InBook(e) /\ Put(NewRecord(e), how)
    BY DEF Next, Open, MirrorDuplicate, MirrorOk, MirrorFails, MirrorRefused, Dies, Stops,
           Interrupted
  <2> QED
    BY <2>1, <2>2, <2>3
<1> QED
  BY <1>1, LedgerInvariant, PTL DEF Spec, TerminatedRecordsStay

-----------------------------------------------------------------------------
(* The abstract log *)

\* What a load of f reads, as the abstract log sees it.
LEMMA LogOfLines ==
    ASSUME NEW f \in Seq(Lines), \E n \in 0..Len(f) : LoadsTo(f, n)
    PROVE  LET log == Chain(Loaded(f)) IN
           /\ log \in Seq(Events) /\ Len(log) = LoadLength(f)
           /\ LoadLength(f) \in 0..Len(f) /\ Len(f) \in Nat /\ LoadLength(f) \in Nat
           /\ TornTail(f) <=> LoadLength(f) < Len(f)
           /\ DOMAIN log = 1..LoadLength(f)
           /\ \A i \in 1..LoadLength(f) : log[i] = f[i].event
<1>1. PICK n \in 0..Len(f) : LoadsTo(f, n)
  OBVIOUS
<1>2. /\ LoadLength(f) = n /\ Loaded(f) \in Seq(Records) /\ Len(Loaded(f)) = n
      /\ \A i \in 1..n : Loaded(f)[i] = f[i]
      /\ TornTail(f) <=> n < Len(f)
      /\ Len(f) \in Nat /\ n \in Nat
  BY <1>1, LoadedLines, LenProperties
<1>3. /\ Chain(Loaded(f)) \in Seq(Events) /\ Len(Chain(Loaded(f))) = n
      /\ \A i \in 1..n : Chain(Loaded(f))[i] = Loaded(f)[i].event
  BY <1>2, ChainIsSeq
<1>4. DOMAIN Chain(Loaded(f)) = 1..n
  BY <1>3, LenProperties
<1> QED
  BY <1>1, <1>2, <1>3, <1>4

\* An execution the book does not hold is not readable either, while no append failed.
LEMMA NewToLog ==
    ASSUME IInv, up, ~failed, NEW e \in Events, ~InBook(e)
    PROVE  e \notin Log!Held
<1>1. /\ book = Chain(recs) /\ LoadLength(file) <= Len(recs)
      /\ \A i \in 1..LoadLength(file) : recs[i] = file[i]
  BY DEF IInv, Cached
<1>2. DOMAIN recs = 1..Len(recs) /\ Len(recs) \in Nat
  BY LenProperties DEF IInv, TypeOK
<1>3. \A i \in 1..Len(recs) : recs[i].event # e
  BY <1>1, <1>2 DEF InBook, Chain
<1>4. /\ LoadLength(file) \in Nat /\ DOMAIN Chain(Loaded(file)) = 1..LoadLength(file)
      /\ \A i \in 1..LoadLength(file) : Chain(Loaded(file))[i] = file[i].event
  BY LogOfLines DEF IInv, TypeOK, Readable, Lines
<1>5. \A i \in 1..LoadLength(file) : Chain(Loaded(file))[i] # e
  BY <1>1, <1>2, <1>3, <1>4
<1> QED
  BY <1>4, <1>5 DEF Log!Held

\* However an append ends, the abstract log records the execution, is cut off, loses
\* its unfinished last event, loses an acknowledgement it could not keep, or stutters.
LEMMA WriteIsALogStep ==
    ASSUME IInv, up, ~failed, NEW e \in Events, ~InBook(e), NEW how \in Interrupted,
           Put(NewRecord(e), how),
           acked' = acked \/ (how = "line" /\ acked' = acked \cup {e})
    PROVE  [Log!Next]_(Log!vars)
<1> DEFINE rs == Append(recs, NewRecord(e))
           n == LoadLength(file)
           log == Chain(Loaded(file))
           after == Chain(Loaded(file'))
<1>1. /\ Chain(rs) = Append(Chain(recs), e)
      /\ \/ how = "none" /\ file' = file
         \/ ~TornTail(file) /\ ~TornTail(file') /\ Loaded(file') = rs /\ Loaded(file) = recs
         \/ /\ TornTail(file') /\ LoadLength(file') <= n
            /\ \A i \in 1..LoadLength(file') : file'[i] = file[i]
            /\ \/ LoadLength(file') = n /\ (TornTail(file) \/ how = "cut")
               \/ LoadLength(file') = Len(file) - 1 /\ tail # "line"
  BY WriteKeepsChain
<1>2. /\ log \in Seq(Events) /\ Len(log) = n /\ n \in 0..Len(file) /\ Len(file) \in Nat
      /\ TornTail(file) <=> n < Len(file)
      /\ \A i \in 1..n : log[i] = file[i].event
  BY LogOfLines DEF IInv, TypeOK, Readable, Lines
<1>3. /\ after \in Seq(Events) /\ Len(after) = LoadLength(file')
      /\ LoadLength(file') \in Nat
      /\ \A i \in 1..LoadLength(file') : after[i] = file'[i].event
  <2>1. file' \in Seq(Lines) /\ \E m \in 0..Len(file') : LoadsTo(file', m)
    BY WriteKeepsChain DEF Readable
  <2> QED
    BY <2>1, LogOfLines
<1>4. /\ TornTail(file) \in BOOLEAN /\ TornTail(file') \in BOOLEAN
      /\ acked' \in {acked, acked \cup {e}}
      /\ e \notin Log!Held
  BY NewToLog DEF TornTail
<1> HIDE DEF n, rs
<1>5. CASE how = "none" /\ file' = file
  <2>1. acked' = acked
    BY <1>5
  <2> QED
    BY <1>5, <2>1 DEF Log!vars
<1>6. CASE ~TornTail(file) /\ ~TornTail(file') /\ Loaded(file') = rs /\ Loaded(file) = recs
  <2>1. after = Append(log, e)
    BY <1>1, <1>6
  <2>2. Log!Record(e)
    BY <1>4, <1>6, <2>1 DEF Log!Record
  <2> QED
    BY <2>2 DEF Log!Next
<1>7. CASE /\ TornTail(file') /\ LoadLength(file') = n /\ (TornTail(file) \/ how = "cut")
           /\ \A i \in 1..LoadLength(file') : file'[i] = file[i]
  <2>1. after = log
    <3>1. Len(after) = Len(log) /\ \A i \in 1..Len(log) : after[i] = log[i]
      BY <1>2, <1>3, <1>7
    <3> QED
      BY <1>2, <1>3, <3>1, SeqEqual
  <2>2. CASE TornTail(file) /\ acked' = acked
    BY <1>4, <1>7, <2>1, <2>2 DEF Log!vars
  <2>3. CASE TornTail(file) /\ acked' = acked \cup {e}
    <3>1. Log!Lost(e)
      BY <1>4, <1>7, <2>1, <2>3 DEF Log!Lost
    <3> QED
      BY <3>1 DEF Log!Next
  <2>4. CASE ~TornTail(file)
    <3>1. Log!Cut
      BY <1>4, <1>7, <2>1, <2>4 DEF Log!Cut
    <3> QED
      BY <3>1 DEF Log!Next
  <2> QED
    BY <1>4, <2>2, <2>3, <2>4
<1>8. CASE /\ TornTail(file') /\ LoadLength(file') = Len(file) - 1 /\ tail # "line"
           /\ ~TornTail(file)
           /\ \A i \in 1..LoadLength(file') : file'[i] = file[i]
  <2>1. n = Len(file) /\ n \in Nat /\ n > 0 /\ LoadLength(file') = n - 1
    BY <1>2, <1>3, <1>8 DEF n
  <2>2. after = SubSeq(log, 1, Len(log) - 1)
    <3>1. Len(after) = n - 1 /\ \A i \in 1..(n - 1) : after[i] = log[i]
      BY <1>2, <1>3, <1>8, <2>1
    <3>2. /\ SubSeq(log, 1, n - 1) \in Seq(Events) /\ Len(SubSeq(log, 1, n - 1)) = n - 1
          /\ \A i \in 1..(n - 1) : SubSeq(log, 1, n - 1)[i] = log[i]
      <4>1. \A i \in 1..(n - 1) : log[i] \in Events
        BY <1>2, <2>1, ElementOfSeq
      <4> HIDE DEF log
      <4>2. /\ SubSeq(log, 1, n - 1) \in Seq(Events)
            /\ Len(SubSeq(log, 1, n - 1)) = IF 1 <= n - 1 THEN (n - 1) - 1 + 1 ELSE 0
            /\ \A i \in 1..((n - 1) - 1 + 1) : SubSeq(log, 1, n - 1)[i] = log[1 + i - 1]
        BY <1>2, <2>1, <4>1, SubSeqProperties
      <4> QED
        BY <2>1, <4>2
    <3> HIDE DEF log, after
    <3> QED
      BY <1>2, <1>3, <3>1, <3>2, SeqEqual
  <2>3. log # <<>> /\ log[Len(log)] \notin acked
    <3>1. log[n] = file[n].event
      BY <1>2, <2>1
    <3>2. file[Len(file)].event \notin acked
      BY <1>8 DEF IInv, UnfinishedIsUnacknowledged
    <3>3. log # <<>>
      BY <1>2, <2>1, EmptySeq
    <3> QED
      BY <1>2, <2>1, <3>1, <3>2, <3>3
  <2>4. Log!Glue(e)
    BY <1>4, <1>8, <2>2, <2>3 DEF Log!Glue
  <2> QED
    BY <2>4 DEF Log!Next
<1>9. TornTail(file) /\ LoadLength(file') = Len(file) - 1 => LoadLength(file') = n
  BY <1>1, <1>2 DEF n
<1> QED
  BY <1>1, <1>5, <1>6, <1>7, <1>8, <1>9

\* The file, read as a restart reads it, implements the abstract append-only log: it
\* only grows, by executions it does not hold; once torn it is frozen and shows it; and
\* the only event ever lost was the last one, unterminated and never acknowledged.
THEOREM LedgerRefinesAppendOnlyLedger == Spec => RefinesAppendOnlyLedger
<1>1. Init => Log!Init
  <2> SUFFICES ASSUME Init PROVE Log!Init
    OBVIOUS
  <2>1. IInv /\ Len(file) = 0 /\ acked = {}
    BY InitInvariant DEF Init
  <2>2. LoadLength(file) = 0 /\ ~TornTail(file) /\ Chain(Loaded(file)) = <<>>
    <3>1. file \in Seq(Lines) /\ \E n \in 0..Len(file) : LoadsTo(file, n)
      BY <2>1 DEF IInv, TypeOK, Readable, Lines
    <3>2. /\ Chain(Loaded(file)) \in Seq(Events)
          /\ Len(Chain(Loaded(file))) = LoadLength(file) /\ LoadLength(file) \in 0..Len(file)
          /\ TornTail(file) <=> LoadLength(file) < Len(file)
      BY <3>1, LogOfLines
    <3> QED
      BY <2>1, <3>2, EmptySeq
  <2> QED
    BY <2>1, <2>2 DEF Log!Init, TornTail
<1>2. IInv /\ [Next]_vars => [Log!Next]_(Log!vars)
  <2> SUFFICES ASSUME IInv, [Next]_vars PROVE [Log!Next]_(Log!vars)
    OBVIOUS
  <2>1. CASE UNCHANGED <<file, acked>>
    BY <2>1 DEF Log!vars
  <2>2. \/ UNCHANGED <<file, acked>>
        \/ \E e \in Events, how \in Interrupted :
            /\ up /\ ~failed /\ ~InBook(e) /\ Put(NewRecord(e), how)
            /\ acked' = acked \/ (how = "line" /\ acked' = acked \cup {e})
    BY DEF Next, vars, Open, MirrorDuplicate, MirrorOk, MirrorFails, MirrorRefused, Dies, Stops,
           Interrupted
  <2> QED
    BY <2>1, <2>2, WriteIsALogStep
<1> QED
  BY <1>1, <1>2, LedgerInvariant, PTL DEF Spec, RefinesAppendOnlyLedger, Log!Spec

=============================================================================
