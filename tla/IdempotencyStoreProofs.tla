----------------------- MODULE IdempotencyStoreProofs -----------------------
(***************************************************************************)
(* The claim-once registry, for any number of stores, threads and keys and *)
(* any number of deaths, whichever threads refresh their store without the *)
(* lock, as long as no other store claims the keys of a refreshed one.     *)
(*                                                                         *)
(* Overlapping reads of a store leave nothing true of its offset, so two   *)
(* arguments are needed for a claim: an open store of which no reads       *)
(* overlapped knows every line at its decisions (CaughtUp, CacheCovers),   *)
(* and a refreshed one has known its own keys since it was opened, because *)
(* nobody else writes them (KnowsItsOwn).                                  *)
(***************************************************************************)
EXTENDS IdempotencyStore, SequenceTheorems, TLAPS

Busy(t) == pc[t] # "idle"
Refreshed == {StoreOf[t] : t \in Refreshers}
OwnKeys(s) == Claimed \cap ClaimsOf[s]

\* A call other than a refresh is made under the lock, and a refresh by a refresher, on an
\* open store; a refresh neither decides nor appends, and a call is about an own key.
Exclusive ==
    \A t \in Threads :
        /\ Busy(t) => StoreOf[t] \in open
        /\ Busy(t) /\ op[t] # "refresh" => lock = t /\ key[t] \in ClaimsOf[StoreOf[t]]
        /\ Busy(t) /\ op[t] = "refresh" => t \in Refreshers
        /\ pc[t] \in {"decide", "append"} => op[t] # "refresh"
        /\ pc[t] # "fold" => unread[t] = <<>>

\* Reads overlap on a refreshed store only, and nowhere else are two of them under way.
OneReader ==
    /\ raced \subseteq Refreshed
    /\ \A t, u \in Threads :
         t # u /\ StoreOf[t] = StoreOf[u] /\ StoreOf[t] \notin raced =>
             unread[t] = <<>> \/ unread[u] = <<>>

\* A cache holds the key of every line its store has read.
CacheCovers == \A s \in Stores \ raced : \A i \in 1..offset[s] : file[i] \in cache[s]

\* A refreshed store knows its own claimed keys.
KnowsItsOwn == \A s \in Refreshed \cap open : OwnKeys(s) \subseteq cache[s]

\* The lines a thread has read are those behind the offset of its store: all of them
\* when it holds the lock.
UnreadFollows ==
    \A t \in Threads : pc[t] = "fold" /\ StoreOf[t] \notin raced =>
        /\ offset[StoreOf[t]] + Len(unread[t]) <= Len(file)
        /\ op[t] # "refresh" => offset[StoreOf[t]] + Len(unread[t]) = Len(file)
        /\ \A i \in 1..Len(unread[t]) : unread[t][i] = file[offset[StoreOf[t]] + i]

\* A decision is taken on the whole file, and a claim is appended for a new key only,
\* which the store has taken into its cache.
CaughtUp ==
    \A t \in Threads : pc[t] \in {"decide", "append"} =>
        /\ StoreOf[t] \notin raced => offset[StoreOf[t]] = Len(file)
        /\ pc[t] = "append" => key[t] \in cache[StoreOf[t]]
        /\ pc[t] = "append" /\ op[t] = "claim" => key[t] \notin Claimed

IInv ==
    /\ TypeOK /\ NoFalseAlarm /\ GrantedOnce
    /\ Exclusive /\ OneReader /\ CacheCovers /\ KnowsItsOwn /\ UnreadFollows /\ CaughtUp

\* What a store reads behind its offset.
LEMMA Unread ==
    ASSUME NEW s \in Seq(Keys), NEW k \in Nat, k <= Len(s)
    PROVE  /\ SubSeq(s, k + 1, Len(s)) \in Seq(Keys)
           /\ Len(SubSeq(s, k + 1, Len(s))) = Len(s) - k
           /\ \A i \in 1..(Len(s) - k) : SubSeq(s, k + 1, Len(s))[i] = s[k + i]
<1> DEFINE n == Len(s)
<1>1. n \in Nat /\ \A i \in 1..n : s[i] \in Keys
  BY LenProperties
<1> HIDE DEF n
<1>2. k + 1 \in Int /\ n \in Int /\ k <= n /\ \A i \in (k + 1)..n : s[i] \in Keys
  BY <1>1 DEF n
<1>3. /\ SubSeq(s, k + 1, n) \in Seq(Keys)
      /\ Len(SubSeq(s, k + 1, n)) = IF k + 1 <= n THEN n - (k + 1) + 1 ELSE 0
      /\ \A i \in 1..(n - (k + 1) + 1) : SubSeq(s, k + 1, n)[i] = s[(k + 1) + i - 1]
  BY <1>2, SubSeqProperties
<1>4. n - (k + 1) + 1 = n - k /\ \A i \in 1..(n - k) : (k + 1) + i - 1 = k + i
  BY <1>1
<1>5. Len(SubSeq(s, k + 1, n)) = n - k
  BY <1>1, <1>2, <1>3
<1>6. \A i \in 1..(n - k) : SubSeq(s, k + 1, n)[i] = s[k + i]
  BY <1>3, <1>4
<1> QED
  BY <1>3, <1>5, <1>6 DEF n

\* What is in the file stays where it is, whatever a write leaves.
LEMMA WriteExtends ==
    ASSUME TypeOK, NEW t \in Threads, NEW how, Written(t, how)
    PROVE  /\ file' \in Seq(Keys) /\ torn' \in BOOLEAN
           /\ Len(file) <= Len(file')
           /\ \A i \in 1..Len(file) : file'[i] = file[i]
           /\ Claimed \subseteq Claimed'
           /\ Claimed' \subseteq Claimed \cup {key[t]}
           /\ how = "line" => key[t] \in Claimed'
<1>1. file \in Seq(Keys) /\ key[t] \in Keys /\ Len(file) \in Nat /\ torn \in BOOLEAN
  BY DEF TypeOK
<1>2. CASE how = "line"
  <2>1. file' = Append(file, key[t])
    BY <1>2 DEF Written
  <2>2. /\ file' \in Seq(Keys) /\ Len(file') = Len(file) + 1
        /\ \A i \in 1..Len(file) : file'[i] = file[i]
        /\ file'[Len(file) + 1] = key[t]
        /\ DOMAIN file = 1..Len(file) /\ DOMAIN file' = 1..(Len(file) + 1)
    BY <1>1, <2>1, AppendProperties, LenProperties
  <2>3. Claimed' = Claimed \cup {key[t]}
    BY <1>1, <2>2 DEF Claimed, KeysOf
  <2> QED
    BY <1>1, <1>2, <2>2, <2>3 DEF Written
<1>3. CASE how # "line"
  BY <1>1, <1>3 DEF Written, Claimed
<1> QED
  BY <1>2, <1>3

\* A thread that is about to decide on its own key finds it in the cache of its store if
\* it is claimed.
LEMMA DecisionKnowsKey ==
    ASSUME IInv, NEW t \in Threads, pc[t] = "decide", key[t] \in Claimed
    PROVE  Known(t)
<1>1. /\ key[t] \in ClaimsOf[StoreOf[t]] /\ StoreOf[t] \in open /\ StoreOf[t] \in Stores
  BY StoreOfAssumption DEF IInv, Exclusive, Busy
<1>2. CASE StoreOf[t] \in raced
  BY <1>1, <1>2 DEF IInv, OneReader, KnowsItsOwn, OwnKeys, Known
<1>3. CASE StoreOf[t] \notin raced
  <2>1. offset[StoreOf[t]] = Len(file) /\ DOMAIN file = 1..Len(file)
    BY <1>3 DEF IInv, TypeOK, CaughtUp
  <2> QED
    BY <1>1, <1>3, <2>1 DEF IInv, CacheCovers, Claimed, KeysOf, Known
<1> QED
  BY <1>2, <1>3

LEMMA InitInvariant == Init => IInv
<1> SUFFICES ASSUME Init PROVE IInv
  OBVIOUS
<1>1. AnyKey \in Keys
  BY KeysAssumption DEF AnyKey
<1>2. TypeOK
  <2>1. <<>> \in Seq(Keys)
    OBVIOUS
  <2>2. unread \in [Threads -> Seq(Keys)]
    BY <2>1 DEF Init
  <2> QED
    BY <1>1, <2>1, <2>2 DEF Init, TypeOK, Steps, Operations
<1>3. /\ Exclusive /\ CacheCovers /\ UnreadFollows /\ CaughtUp /\ NoFalseAlarm /\ GrantedOnce
      /\ KnowsItsOwn /\ OneReader
  BY <1>1 DEF Init, Exclusive, Busy, CacheCovers, UnreadFollows, CaughtUp, NoFalseAlarm,
              GrantedOnce, KnowsItsOwn, OneReader
<1> QED
  BY <1>2, <1>3 DEF IInv

\* Every step of every thread, every opening and every death preserve the invariant.
LEMMA StepInvariant ==
    ASSUME IInv, [Next]_vars
    PROVE  IInv'
<1>0. /\ AnyKey \in Keys /\ StoreOf \in [Threads -> Stores]
      /\ NoThread \notin Threads /\ Refreshers \subseteq Threads
      /\ ClaimsOf \in [Stores -> SUBSET Keys]
  BY KeysAssumption, StoreOfAssumption, NoThreadAssumption, RefreshersAssumption,
     ClaimsOfAssumption DEF AnyKey
<1>t. TypeOK /\ \A t \in Threads : unread[t] \in Seq(Keys) /\ Len(unread[t]) \in Nat
      /\ Len(file) \in Nat
  BY DEF IInv, TypeOK
<1> USE <1>0, <1>t
<1>1. ASSUME NEW t \in Threads, NEW o \in {"claim", "resolve"}, NEW k \in Keys, Call(t, o, k)
      PROVE  IInv'
  <2>1. /\ pc[t] = "idle" /\ StoreOf[t] \in open /\ k \in ClaimsOf[StoreOf[t]]
        /\ lock = NoThread /\ lock' = t
        /\ pc' = [pc EXCEPT ![t] = "read"]
        /\ op' = [op EXCEPT ![t] = o] /\ key' = [key EXCEPT ![t] = k]
        /\ UNCHANGED <<file, torn, cache, offset, unread, granted, open, raced, deaths>>
    BY <1>1 DEF Call, durable
  <2>2. TypeOK'
    BY <2>1 DEF TypeOK, Steps, Operations
  <2>3. Exclusive'
    BY <2>1 DEF IInv, TypeOK, Exclusive, Busy
  <2>4. OneReader'
    BY <2>1 DEF IInv, OneReader
  <2>5. UnreadFollows'
    BY <2>1 DEF IInv, TypeOK, UnreadFollows
  <2>6. CaughtUp'
    BY <2>1 DEF IInv, TypeOK, CaughtUp, Claimed
  <2> QED
    BY <2>1, <2>2, <2>3, <2>4, <2>5, <2>6 DEF IInv, NoFalseAlarm, GrantedOnce, CacheCovers, KnowsItsOwn, OwnKeys,
                            Claimed
<1>2. ASSUME NEW t \in Threads, Refresh(t) PROVE IInv'
  <2>1. /\ t \in Refreshers /\ pc[t] = "idle" /\ StoreOf[t] \in open
        /\ pc' = [pc EXCEPT ![t] = "read"] /\ op' = [op EXCEPT ![t] = "refresh"]
        /\ UNCHANGED <<file, torn, lock, cache, offset, key, unread, granted, open, raced, deaths>>
    BY <1>2 DEF Refresh, durable
  <2>2. TypeOK'
    BY <2>1 DEF TypeOK, Steps, Operations
  <2>3. Exclusive'
    BY <2>1 DEF IInv, TypeOK, Exclusive, Busy
  <2>4. OneReader'
    BY <2>1 DEF IInv, OneReader
  <2>5. UnreadFollows'
    BY <2>1 DEF IInv, TypeOK, UnreadFollows
  <2>6. CaughtUp'
    BY <2>1 DEF IInv, TypeOK, CaughtUp, Claimed
  <2> QED
    BY <2>1, <2>2, <2>3, <2>4, <2>5, <2>6 DEF IInv, NoFalseAlarm, GrantedOnce, CacheCovers, KnowsItsOwn, OwnKeys,
                            Claimed
<1>3. ASSUME NEW t \in Threads, LoadRefused(t) \/ Declined(t) PROVE IInv'
  <2>1. End(t) /\ UNCHANGED <<file, torn, cache, offset, granted, open, raced, deaths>>
        /\ unread[t] = <<>>
    BY <1>3 DEF LoadRefused, Declined, durable, IInv, Exclusive
  <2>2. TypeOK'
    BY <2>1 DEF End, Free, TypeOK, Steps, Operations
  <2>3. Exclusive' /\ OneReader' /\ UnreadFollows' /\ CaughtUp'
    BY <2>1 DEF End, Free, IInv, TypeOK, Exclusive, OneReader, Busy, UnreadFollows, CaughtUp,
                Claimed
  <2> QED
    BY <2>1, <2>2, <2>3 DEF End, IInv, NoFalseAlarm, GrantedOnce, CacheCovers, KnowsItsOwn,
                            OwnKeys, Claimed
<1>4. ASSUME NEW t \in Threads, LoadRead(t) PROVE IInv'
  <2> DEFINE s == StoreOf[t]
             lines == SubSeq(file, offset[s] + 1, Len(file))
  <2>1. /\ pc[t] = "read" /\ offset[s] <= Len(file) /\ offset[s] \in Nat /\ s \in Stores
        /\ unread' = [unread EXCEPT ![t] = lines]
        /\ raced' = IF Overlaps(t) THEN raced \cup {s} ELSE raced
        /\ pc' = [pc EXCEPT ![t] = "fold"]
        /\ UNCHANGED <<file, torn, lock, cache, offset, op, key, granted, open, deaths>>
    BY <1>4 DEF LoadRead, Corrupt, durable, TypeOK
  <2>2. /\ lines \in Seq(Keys) /\ Len(lines) = Len(file) - offset[s]
        /\ \A i \in 1..(Len(file) - offset[s]) : lines[i] = file[offset[s] + i]
    BY <2>1, Unread DEF TypeOK
  <2>3. /\ lines \in Seq(Keys) /\ Len(lines) = Len(file) - offset[s]
        /\ \A i \in 1..Len(lines) : lines[i] = file[offset[s] + i]
    BY <2>2
  <2> HIDE DEF lines
  <2>4. raced \subseteq raced' /\ raced' \subseteq raced \cup {s} /\ s \in open
    BY <2>1 DEF IInv, Exclusive, Busy
  <2>5. TypeOK'
    BY <2>1, <2>3, <2>4 DEF TypeOK, Steps
  <2>6. Exclusive'
    BY <2>1 DEF IInv, TypeOK, Exclusive, Busy
  <2>7. OneReader'
    <3>1. Overlaps(t) => s \in Refreshed
      BY <2>1 DEF Overlaps, IInv, Exclusive, Busy, Refreshed
    <3>2. s \notin raced' => \A u \in Threads : StoreOf[u] = s => unread[u] = <<>>
      BY <2>1 DEF Overlaps
    <3> QED
      BY <2>1, <2>4, <3>1, <3>2 DEF IInv, TypeOK, OneReader
  <2>8. UnreadFollows'
    <3> SUFFICES ASSUME NEW u \in Threads, pc'[u] = "fold", StoreOf[u] \notin raced'
                 PROVE  /\ offset[StoreOf[u]] + Len(unread'[u]) <= Len(file)
                        /\ op[u] # "refresh" => offset[StoreOf[u]] + Len(unread'[u]) = Len(file)
                        /\ \A i \in 1..Len(unread'[u]) :
                             unread'[u][i] = file[offset[StoreOf[u]] + i]
      BY <2>1 DEF UnreadFollows
    <3>1. CASE u = t
      <4>1. unread'[u] = lines
        BY <2>1, <3>1 DEF TypeOK
      <4> QED
        BY <2>1, <2>3, <3>1, <4>1
    <3>2. CASE u # t
      BY <2>1, <2>4, <3>2 DEF IInv, TypeOK, UnreadFollows
    <3> QED
      BY <3>1, <3>2
  <2>9. CaughtUp'
    BY <2>1, <2>4 DEF IInv, TypeOK, CaughtUp, Claimed
  <2> QED
    BY <2>1, <2>4, <2>5, <2>6, <2>7, <2>8, <2>9
       DEF IInv, NoFalseAlarm, GrantedOnce, CacheCovers, KnowsItsOwn, OwnKeys, Claimed
<1>5. ASSUME NEW t \in Threads, LoadFold(t) PROVE IInv'
  <2> DEFINE s == StoreOf[t]
             line == Head(unread[t])
             rest == Tail(unread[t])
  <2>1. /\ pc[t] = "fold" /\ unread[t] # <<>> /\ s \in Stores
        /\ cache' = [cache EXCEPT ![s] = @ \cup {line}]
        /\ offset' = [offset EXCEPT ![s] = @ + 1]
        /\ unread' = [unread EXCEPT ![t] = rest]
        /\ UNCHANGED <<file, torn, lock, pc, op, key, granted, open, raced, deaths>>
    BY <1>5 DEF LoadFold, durable
  <2>2. /\ line \in Keys /\ rest \in Seq(Keys) /\ line = unread[t][1]
        /\ Len(unread[t]) >= 1 /\ Len(rest) = Len(unread[t]) - 1
        /\ \A i \in 1..Len(rest) : rest[i] = unread[t][i + 1]
    BY <2>1, HeadTailProperties
  <2> HIDE DEF line, rest
  <2>3. /\ offset[s] \in Nat /\ offset'[s] = offset[s] + 1
        /\ cache'[s] = cache[s] \cup {line} /\ unread'[t] = rest
        /\ \A r \in Stores : r # s => offset'[r] = offset[r] /\ cache'[r] = cache[r]
        /\ \A u \in Threads : u # t => unread'[u] = unread[u]
    BY <2>1 DEF TypeOK
  <2>4. s \notin raced =>
          /\ offset[s] + Len(unread[t]) <= Len(file) /\ offset[s] < Len(file)
          /\ op[t] # "refresh" => offset[s] + Len(unread[t]) = Len(file)
          /\ \A i \in 1..Len(unread[t]) : unread[t][i] = file[offset[s] + i]
          /\ line = file[offset[s] + 1]
          /\ \A u \in Threads : u # t /\ StoreOf[u] = s => unread[u] = <<>>
    BY <2>1, <2>2, <2>3 DEF IInv, UnreadFollows, OneReader
  <2>5. TypeOK'
    BY <2>1, <2>2, <2>3 DEF TypeOK
  <2>6. NoFalseAlarm'
    BY <2>1, <2>3, <2>4 DEF IInv, TypeOK, NoFalseAlarm
  <2>7. CacheCovers'
    <3> SUFFICES ASSUME NEW r \in Stores, r \notin raced, NEW i \in 1..offset'[r]
                 PROVE  file[i] \in cache'[r]
      BY <2>1 DEF CacheCovers
    <3>1. CASE r # s
      BY <2>3, <3>1 DEF IInv, CacheCovers
    <3>2. CASE r = s
      <4>1. i \in 1..offset[s] \/ i = offset[s] + 1
        BY <2>3, <3>2
      <4> QED
        BY <2>3, <2>4, <3>2, <4>1 DEF IInv, CacheCovers
    <3> QED
      BY <3>1, <3>2
  <2>8. KnowsItsOwn'
    BY <2>1, <2>3 DEF IInv, KnowsItsOwn, OwnKeys, Claimed
  <2>9. UnreadFollows'
    <3> SUFFICES ASSUME NEW u \in Threads, pc[u] = "fold", StoreOf[u] \notin raced
                 PROVE  /\ offset'[StoreOf[u]] + Len(unread'[u]) <= Len(file)
                        /\ op[u] # "refresh" => offset'[StoreOf[u]] + Len(unread'[u]) = Len(file)
                        /\ \A i \in 1..Len(unread'[u]) :
                             unread'[u][i] = file[offset'[StoreOf[u]] + i]
      BY <2>1 DEF UnreadFollows
    <3>1. CASE u = t
      <4>1. Len(rest) \in Nat /\ Len(unread[t]) = Len(rest) + 1
        BY <2>2
      <4>a. \A m, k \in Nat :
              /\ k + 1 + m = k + (m + 1)
              /\ \A i \in 1..m : i + 1 \in 1..(m + 1) /\ k + (i + 1) = (k + 1) + i
        OBVIOUS
      <4>2. \A i \in 1..Len(rest) : i + 1 \in 1..Len(unread[t])
                                   /\ offset[s] + (i + 1) = (offset[s] + 1) + i
        <5>1. offset[s] \in Nat
          BY <2>3
        <5> QED
          BY ONLY <4>1, <4>a, <5>1
      <4>3. \A i \in 1..Len(rest) : rest[i] = file[(offset[s] + 1) + i]
        <5> SUFFICES ASSUME NEW i \in 1..Len(rest) PROVE rest[i] = file[(offset[s] + 1) + i]
          OBVIOUS
        <5>1. rest[i] = unread[t][i + 1]
          BY <2>2
        <5>2. unread[t][i + 1] = file[offset[s] + (i + 1)]
          BY <2>4, <3>1, <4>2
        <5> QED
          BY <4>2, <5>1, <5>2
      <4>4. offset[s] + 1 + Len(rest) = offset[s] + Len(unread[t])
        <5>1. offset[s] \in Nat
          BY <2>3
        <5> QED
          BY ONLY <4>1, <4>a, <5>1
      <4>5. /\ offset[s] + 1 + Len(rest) <= Len(file)
            /\ op[t] # "refresh" => offset[s] + 1 + Len(rest) = Len(file)
        BY <2>4, <3>1, <4>4
      <4>6. offset'[StoreOf[u]] = offset[s] + 1 /\ unread'[u] = rest /\ op[u] = op[t]
        BY <2>3, <3>1
      <4> QED
        BY <4>3, <4>5, <4>6
    <3>2. CASE u # t /\ StoreOf[u] # s
      BY <2>3, <3>2 DEF IInv, UnreadFollows
    <3>3. CASE u # t /\ StoreOf[u] = s
      <4>1. unread[u] = <<>> /\ Len(unread[u]) = 0 /\ unread'[u] = unread[u]
        BY <2>3, <2>4, <3>3
      <4>2. op[u] = "refresh"
        BY <2>3, <2>4, <3>3, <4>1 DEF IInv, UnreadFollows
      <4> QED
        BY <2>3, <2>4, <3>3, <4>1, <4>2
    <3> QED
      BY <3>1, <3>2, <3>3
  <2>10. CaughtUp'
    BY <2>1, <2>3, <2>4 DEF IInv, TypeOK, CaughtUp, Claimed
  <2>11. OneReader'
    <3>1. \A u \in Threads : unread[u] = <<>> => unread'[u] = <<>>
      BY <2>1, <2>3
    <3> QED
      BY <2>1, <3>1 DEF IInv, OneReader
  <2>12. Exclusive'
    BY <2>1, <2>3 DEF IInv, TypeOK, Exclusive, Busy
  <2>13. GrantedOnce'
    BY <2>1 DEF IInv, GrantedOnce, Claimed
  <2> QED
    BY <2>5, <2>6, <2>7, <2>8, <2>9, <2>10, <2>11, <2>12, <2>13 DEF IInv
<1>6. ASSUME NEW t \in Threads, Loaded(t) PROVE IInv'
  <2>1. /\ pc[t] = "fold" /\ unread[t] = <<>> /\ Len(unread[t]) = 0
        /\ pc' = [pc EXCEPT ![t] = IF op[t] = "refresh" THEN "idle" ELSE "decide"]
        /\ UNCHANGED <<file, torn, lock, cache, offset, op, key, unread, granted, open, raced, deaths>>
    BY <1>6 DEF Loaded, durable
  <2>2. op[t] # "refresh" /\ StoreOf[t] \notin raced => offset[StoreOf[t]] = Len(file)
    BY <2>1 DEF IInv, TypeOK, UnreadFollows
  <2>3. TypeOK'
    BY <2>1 DEF TypeOK, Steps
  <2>4. Exclusive' /\ OneReader'
    BY <2>1 DEF IInv, TypeOK, Exclusive, OneReader, Busy
  <2>5. UnreadFollows'
    BY <2>1 DEF IInv, TypeOK, UnreadFollows
  <2>6. CaughtUp'
    BY <2>1, <2>2 DEF IInv, TypeOK, CaughtUp, Claimed
  <2> QED
    BY <2>1, <2>3, <2>4, <2>5, <2>6 DEF IInv, NoFalseAlarm, GrantedOnce, CacheCovers, KnowsItsOwn,
                                  OwnKeys, Claimed
<1>7. ASSUME NEW t \in Threads, Accepted(t) PROVE IInv'
  <2>1. /\ pc[t] = "decide" /\ pc' = [pc EXCEPT ![t] = "append"]
        /\ (op[t] = "claim") # Known(t)
        /\ cache' = [cache EXCEPT ![StoreOf[t]] = @ \cup {key[t]}]
        /\ UNCHANGED <<file, torn, lock, offset, op, key, unread, granted, open, raced, deaths>>
    BY <1>7 DEF Accepted, durable
  <2>2. op[t] = "claim" => key[t] \notin Claimed
    BY <2>1, DecisionKnowsKey
  <2>3. /\ key[t] \in Keys /\ StoreOf[t] \in Stores /\ key[t] \in cache'[StoreOf[t]]
        /\ \A r \in Stores : cache[r] \subseteq cache'[r]
    BY <2>1 DEF TypeOK
  <2>4. CaughtUp'
    BY <2>1, <2>2, <2>3 DEF IInv, TypeOK, CaughtUp, Claimed
  <2>5. TypeOK'
    BY <2>1, <2>3 DEF TypeOK, Steps
  <2>6. NoFalseAlarm' /\ GrantedOnce'
    BY <2>1 DEF IInv, NoFalseAlarm, GrantedOnce, Claimed
  <2>7. Exclusive' /\ OneReader'
    BY <2>1 DEF IInv, TypeOK, Exclusive, OneReader, Busy
  <2>8. CacheCovers'
    BY <2>1, <2>3 DEF IInv, CacheCovers
  <2>9. UnreadFollows'
    BY <2>1 DEF IInv, TypeOK, UnreadFollows
  <2>10. KnowsItsOwn'
    <3> SUFFICES ASSUME NEW r \in Refreshed \cap open PROVE OwnKeys(r) \subseteq cache'[r]
      BY <2>1 DEF KnowsItsOwn, OwnKeys, Claimed
    <3> QED
      BY <2>3 DEF IInv, KnowsItsOwn, Refreshed
  <2> QED
    BY <2>4, <2>5, <2>6, <2>7, <2>8, <2>9, <2>10 DEF IInv
\* A write is made by the thread that holds the lock, about an own key that its store
\* knows: whatever it leaves, the other reads stay sound and no other refreshed store is
\* concerned.
<1>8. ASSUME NEW t \in Threads, NEW how, pc[t] = "append", Written(t, how)
      PROVE  /\ file' \in Seq(Keys) /\ torn' \in BOOLEAN
             /\ Len(file') \in Nat /\ Len(file) <= Len(file')
             /\ Claimed \subseteq Claimed' /\ (how = "line" => key[t] \in Claimed')
             /\ op[t] = "claim" => granted[key[t]] = 0
             /\ \A u \in Threads : u # t /\ Busy(u) =>
                  op[u] = "refresh" /\ pc[u] \notin {"decide", "append"}
             /\ \A s \in Stores \ raced : \A i \in 1..offset[s] : file'[i] \in cache[s]
             /\ \A s \in Refreshed \cap open : OwnKeys(s)' \subseteq cache[s]
             /\ \A u \in Threads : u # t /\ pc[u] = "fold" /\ StoreOf[u] \notin raced =>
                  /\ offset[StoreOf[u]] + Len(unread[u]) <= Len(file')
                  /\ \A i \in 1..Len(unread[u]) : unread[u][i] = file'[offset[StoreOf[u]] + i]
  <2>1. /\ file' \in Seq(Keys) /\ torn' \in BOOLEAN
        /\ Len(file') \in Nat /\ Len(file) <= Len(file')
        /\ \A i \in 1..Len(file) : file'[i] = file[i]
        /\ Claimed \subseteq Claimed' /\ Claimed' \subseteq Claimed \cup {key[t]}
        /\ how = "line" => key[t] \in Claimed'
    BY <1>8, WriteExtends
  <2>2. /\ Busy(t) /\ op[t] # "refresh" /\ lock = t /\ key[t] \in ClaimsOf[StoreOf[t]]
        /\ StoreOf[t] \in Stores /\ key[t] \in Keys
    BY <1>8 DEF IInv, TypeOK, Exclusive, Busy
  <2>3. /\ key[t] \in cache[StoreOf[t]]
        /\ op[t] = "claim" => key[t] \notin Claimed /\ granted[key[t]] = 0
    BY <1>8, <2>2 DEF IInv, TypeOK, CaughtUp, GrantedOnce
  <2>4. \A u \in Threads : u # t /\ Busy(u) =>
                  op[u] = "refresh" /\ pc[u] \notin {"decide", "append"}
    BY <2>2 DEF IInv, Exclusive, Busy
  <2>5. ASSUME NEW s \in Stores, s \notin raced, NEW i \in 1..offset[s]
        PROVE  file'[i] \in cache[s]
    <3>1. offset[s] \in Nat /\ offset[s] <= Len(file) /\ file[i] \in cache[s]
      BY <2>5 DEF IInv, TypeOK, NoFalseAlarm, CacheCovers
    <3> QED
      BY <2>1, <3>1
  <2>6. ASSUME NEW s \in Refreshed \cap open PROVE OwnKeys(s)' \subseteq cache[s]
    <3>1. OwnKeys(s)' = Claimed' \cap ClaimsOf[s]
      BY DEF OwnKeys
    <3>2. OwnKeys(s) \subseteq cache[s] /\ OwnKeys(s) = Claimed \cap ClaimsOf[s]
      BY DEF IInv, KnowsItsOwn, OwnKeys
    <3>3. CASE s = StoreOf[t]
      BY <2>1, <2>3, <3>1, <3>2, <3>3
    <3>4. CASE s # StoreOf[t]
      <4>1. ClaimsOf[StoreOf[t]] \cap ClaimsOf[s] = {}
        BY <2>2, <3>4, RefreshedKeysAssumption DEF Refreshed
      <4> QED
        BY <2>1, <2>2, <3>1, <3>2, <4>1
    <3> QED
      BY <3>3, <3>4
  <2>7. ASSUME NEW u \in Threads, u # t, pc[u] = "fold", StoreOf[u] \notin raced
        PROVE  /\ offset[StoreOf[u]] + Len(unread[u]) <= Len(file')
               /\ \A i \in 1..Len(unread[u]) : unread[u][i] = file'[offset[StoreOf[u]] + i]
    <3>1. /\ offset[StoreOf[u]] + Len(unread[u]) <= Len(file)
          /\ \A i \in 1..Len(unread[u]) : unread[u][i] = file[offset[StoreOf[u]] + i]
          /\ offset[StoreOf[u]] \in Nat /\ Len(unread[u]) \in Nat
      BY <2>7 DEF IInv, TypeOK, UnreadFollows
    <3>2. \A i \in 1..Len(unread[u]) : offset[StoreOf[u]] + i \in 1..Len(file)
      BY <3>1
    <3>3. \A i \in 1..Len(unread[u]) : unread[u][i] = file'[offset[StoreOf[u]] + i]
      BY <2>1, <3>1, <3>2
    <3> QED
      BY <2>1, <3>1, <3>3
  <2> QED
    BY <2>1, <2>3, <2>4, <2>5, <2>6, <2>7
<1>9. ASSUME NEW t \in Threads, AppendOk(t) \/ AppendFails(t) PROVE IInv'
  <2>1. PICK how : Written(t, how) /\ (AppendOk(t) => how = "line")
    BY <1>9 DEF AppendOk, AppendFails
  <2>2. /\ pc[t] = "append" /\ unread[t] = <<>>
        /\ End(t) /\ UNCHANGED <<cache, offset, open, raced, deaths>>
        /\ \/ granted' = granted
           \/ AppendOk(t) /\ op[t] = "claim" /\ granted' = [granted EXCEPT ![key[t]] = @ + 1]
    BY <1>9 DEF AppendOk, AppendFails, IInv, Exclusive
  <2>3. /\ file' \in Seq(Keys) /\ torn' \in BOOLEAN
        /\ Len(file') \in Nat /\ Len(file) <= Len(file')
        /\ Claimed \subseteq Claimed' /\ (AppendOk(t) => key[t] \in Claimed')
        /\ op[t] = "claim" => granted[key[t]] = 0
        /\ \A u \in Threads : u # t /\ Busy(u) =>
             op[u] = "refresh" /\ pc[u] \notin {"decide", "append"}
        /\ \A s \in Stores \ raced : \A i \in 1..offset[s] : file'[i] \in cache[s]
        /\ \A s \in Refreshed \cap open : OwnKeys(s)' \subseteq cache[s]
        /\ \A u \in Threads : u # t /\ pc[u] = "fold" /\ StoreOf[u] \notin raced =>
             /\ offset[StoreOf[u]] + Len(unread[u]) <= Len(file')
             /\ \A i \in 1..Len(unread[u]) : unread[u][i] = file'[offset[StoreOf[u]] + i]
    BY <1>8, <2>1, <2>2
  <2>4. /\ pc' = [pc EXCEPT ![t] = "idle"] /\ lock' = Free(t) /\ unread' = unread
        /\ op' = [op EXCEPT ![t] = "claim"] /\ key' = [key EXCEPT ![t] = AnyKey]
    BY <2>2 DEF End
  <2>5. TypeOK'
    <3>1. granted' \in [Keys -> Nat]
      <4>1. granted \in [Keys -> Nat] /\ key[t] \in Keys /\ granted[key[t]] + 1 \in Nat
        BY DEF TypeOK
      <4> QED
        BY <2>2, <4>1
    <3>2. /\ pc' \in [Threads -> Steps] /\ op' \in [Threads -> Operations]
          /\ key' \in [Threads -> Keys] /\ lock' \in Threads \cup {NoThread}
      BY <2>4 DEF TypeOK, Free, Steps, Operations
    <3> QED
      BY <2>2, <2>3, <2>4, <3>1, <3>2 DEF TypeOK
  <2>6. NoFalseAlarm'
    <3>1. \A s \in Stores \ raced : offset[s] \in Nat /\ offset[s] <= Len(file)
      BY DEF IInv, TypeOK, NoFalseAlarm
    <3> QED
      BY <2>2, <2>3, <3>1 DEF NoFalseAlarm
  <2>7. GrantedOnce'
    <3>1. granted \in [Keys -> Nat] /\ key[t] \in Keys
          /\ \A k \in Keys : granted[k] <= 1 /\ (granted[k] > 0 => k \in Claimed)
      BY DEF IInv, TypeOK, GrantedOnce
    <3>2. CASE granted' = granted
      BY <2>3, <3>1, <3>2 DEF GrantedOnce
    <3>3. CASE AppendOk(t) /\ op[t] = "claim" /\ granted' = [granted EXCEPT ![key[t]] = @ + 1]
      BY <2>3, <3>1, <3>3 DEF GrantedOnce
    <3> QED
      BY <2>2, <3>2, <3>3
  <2>8. Exclusive' /\ OneReader'
    BY <2>2, <2>4 DEF IInv, TypeOK, Exclusive, OneReader, Busy, Free
  <2>9. CacheCovers' /\ KnowsItsOwn'
    BY <2>2, <2>3 DEF CacheCovers, KnowsItsOwn
  <2>10. \A u \in Threads : pc'[u] # "idle" =>
            u # t /\ pc'[u] = pc[u] /\ op'[u] = op[u] /\ op[u] = "refresh"
    BY <2>3, <2>4 DEF TypeOK, Busy
  <2>11. UnreadFollows' /\ CaughtUp'
    <3>1. \A u \in Threads : pc'[u] \notin {"decide", "append"}
      BY <2>3, <2>10 DEF Busy
    <3>2. CaughtUp'
      BY <3>1 DEF CaughtUp
    <3> SUFFICES ASSUME NEW u \in Threads, pc'[u] = "fold", StoreOf[u] \notin raced
                 PROVE  /\ offset[StoreOf[u]] + Len(unread[u]) <= Len(file')
                        /\ op'[u] # "refresh" =>
                             offset[StoreOf[u]] + Len(unread[u]) = Len(file')
                        /\ \A i \in 1..Len(unread[u]) :
                             unread[u][i] = file'[offset[StoreOf[u]] + i]
      BY <2>2, <2>4, <3>2 DEF UnreadFollows
    <3> QED
      BY <2>3, <2>10
  <2> QED
    BY <2>5, <2>6, <2>7, <2>8, <2>9, <2>11 DEF IInv
<1>10. ASSUME NEW s \in Stores, Die(s) PROVE IInv'
  <2> DEFINE mine == {t \in Threads : StoreOf[t] = s}
  <2>1. /\ s \in open /\ open' = open \ {s} /\ raced' = raced \ {s}
        /\ lock' = IF lock \in mine THEN NoThread ELSE lock
        /\ pc' = [t \in Threads |-> IF t \in mine THEN "idle" ELSE pc[t]]
        /\ cache' = [cache EXCEPT ![s] = {}]
        /\ offset' = [offset EXCEPT ![s] = 0]
        /\ op' = [t \in Threads |-> IF t \in mine THEN "claim" ELSE op[t]]
        /\ key' = [t \in Threads |-> IF t \in mine THEN AnyKey ELSE key[t]]
        /\ unread' = [t \in Threads |-> IF t \in mine THEN <<>> ELSE unread[t]]
        /\ granted' = granted /\ deaths' = deaths + 1
    BY <1>10 DEF Die
  <2>2. \/ UNCHANGED durable
        \/ \E t \in mine, how \in {"cut", "line"} : pc[t] = "append" /\ Written(t, how)
    BY <1>10 DEF Die
  <2>3. /\ \A t \in Threads : StoreOf[t] = s <=> t \in mine
        /\ \A t \in mine : pc'[t] = "idle" /\ op'[t] = "claim" /\ unread'[t] = <<>>
        /\ \A t \in Threads \ mine :
             /\ pc'[t] = pc[t] /\ op'[t] = op[t] /\ key'[t] = key[t] /\ unread'[t] = unread[t]
             /\ offset'[StoreOf[t]] = offset[StoreOf[t]] /\ cache'[StoreOf[t]] = cache[StoreOf[t]]
        /\ offset'[s] = 0
        /\ \A r \in Stores \ {s} : offset'[r] = offset[r] /\ cache'[r] = cache[r]
    BY <2>1 DEF TypeOK
  \* The threads of the other stores see a file that was not written, or one that was
  \* written by the holder of the lock.
  <2>4. /\ file' \in Seq(Keys) /\ torn' \in BOOLEAN
        /\ Len(file') \in Nat /\ Len(file) <= Len(file') /\ Claimed \subseteq Claimed'
        /\ \A r \in Stores \ raced : \A i \in 1..offset[r] : file'[i] \in cache[r]
        /\ \A r \in Refreshed \cap open : OwnKeys(r)' \subseteq cache[r]
        /\ \A u \in Threads : u \notin mine /\ pc[u] = "fold" /\ StoreOf[u] \notin raced =>
             /\ offset[StoreOf[u]] + Len(unread[u]) <= Len(file')
             /\ op[u] # "refresh" => offset[StoreOf[u]] + Len(unread[u]) = Len(file')
             /\ \A i \in 1..Len(unread[u]) : unread[u][i] = file'[offset[StoreOf[u]] + i]
        /\ \A u \in Threads : u \notin mine /\ pc[u] \in {"decide", "append"} => UNCHANGED file
    <3>1. CASE UNCHANGED durable
      <4>1. UNCHANGED <<file, torn, Claimed>> /\ \A r : UNCHANGED OwnKeys(r)
        BY <3>1 DEF durable, Claimed, OwnKeys
      <4> QED
        BY <4>1 DEF IInv, TypeOK, CacheCovers, KnowsItsOwn, UnreadFollows
    <3>2. CASE \E t \in mine, how \in {"cut", "line"} : pc[t] = "append" /\ Written(t, how)
      <4>1. PICK t \in mine, how \in {"cut", "line"} : pc[t] = "append" /\ Written(t, how)
        BY <3>2
      <4>2. t \in Threads /\ Busy(t) /\ \A u \in Threads : u \notin mine => u # t
        BY <4>1 DEF Busy
      <4> QED
        BY <1>8, <4>1, <4>2 DEF Busy
    <3> QED
      BY <2>2, <3>1, <3>2
  <2>5. TypeOK'
    BY <2>1, <2>4 DEF TypeOK, Steps, Operations
  <2>6. NoFalseAlarm' /\ CacheCovers'
    <3>1. \A r \in Stores \ raced : offset[r] \in Nat /\ offset[r] <= Len(file)
      BY DEF IInv, TypeOK, NoFalseAlarm
    <3> QED
      BY <2>1, <2>3, <2>4, <3>1 DEF NoFalseAlarm, CacheCovers
  <2>7. KnowsItsOwn'
    <3> SUFFICES ASSUME NEW r \in Refreshed \cap open, r # s PROVE OwnKeys(r)' \subseteq cache'[r]
      BY <2>1 DEF KnowsItsOwn
    <3> QED
      BY <2>3, <2>4 DEF Refreshed
  <2>8. GrantedOnce'
    BY <2>1, <2>4 DEF IInv, TypeOK, GrantedOnce
  <2>9. Exclusive'
    BY <2>1, <2>3 DEF IInv, TypeOK, Exclusive, Busy
  <2>10. OneReader'
    BY <2>1, <2>3 DEF IInv, OneReader
  <2>11. UnreadFollows'
    <3> SUFFICES ASSUME NEW u \in Threads, pc'[u] = "fold", StoreOf[u] \notin raced'
                 PROVE  /\ offset'[StoreOf[u]] + Len(unread'[u]) <= Len(file')
                        /\ op'[u] # "refresh" =>
                             offset'[StoreOf[u]] + Len(unread'[u]) = Len(file')
                        /\ \A i \in 1..Len(unread'[u]) :
                             unread'[u][i] = file'[offset'[StoreOf[u]] + i]
      BY DEF UnreadFollows
    <3>1. u \notin mine /\ pc[u] = "fold" /\ StoreOf[u] \notin raced
      BY <2>1, <2>3
    <3> QED
      BY <2>3, <2>4, <3>1
  <2>12. CaughtUp'
    <3> SUFFICES ASSUME NEW u \in Threads, pc'[u] \in {"decide", "append"}
                 PROVE  /\ StoreOf[u] \notin raced' => offset'[StoreOf[u]] = Len(file')
                        /\ pc'[u] = "append" => key'[u] \in cache'[StoreOf[u]]
                        /\ pc'[u] = "append" /\ op'[u] = "claim" => key'[u] \notin Claimed'
      BY DEF CaughtUp
    <3>1. u \notin mine /\ pc[u] \in {"decide", "append"} /\ UNCHANGED <<file, Claimed>>
      BY <2>3, <2>4 DEF Claimed
    <3> QED
      BY <2>1, <2>3, <3>1 DEF IInv, CaughtUp
  <2> QED
    BY <2>5, <2>6, <2>7, <2>8, <2>9, <2>10, <2>11, <2>12 DEF IInv
<1>11. ASSUME NEW s \in Stores, Open(s) PROVE IInv'
  <2>1. /\ s \notin open /\ lock = NoThread /\ open' = open \cup {s}
        /\ cache' = [cache EXCEPT ![s] = Claimed] /\ offset' = [offset EXCEPT ![s] = Len(file)]
        /\ UNCHANGED <<file, torn, lock, pc, op, key, unread, granted, raced, deaths>>
    BY <1>11 DEF Open, durable
  <2>2. /\ \A t \in Threads : Busy(t) => StoreOf[t] # s
        /\ cache'[s] = Claimed /\ offset'[s] = Len(file)
        /\ \A r \in Stores \ {s} : offset'[r] = offset[r] /\ cache'[r] = cache[r]
    BY <2>1 DEF IInv, TypeOK, Exclusive
  <2>3. /\ DOMAIN file = 1..Len(file) /\ \A i \in 1..Len(file) : file[i] \in Claimed
        /\ Claimed \subseteq Keys
    <3>1. DOMAIN file = 1..Len(file) /\ \A i \in 1..Len(file) : file[i] \in Keys
      BY LenProperties DEF TypeOK
    <3> QED
      BY <3>1 DEF Claimed, KeysOf
  <2>4. TypeOK'
    BY <2>1, <2>3 DEF TypeOK
  <2>5. NoFalseAlarm' /\ CacheCovers'
    BY <2>1, <2>2, <2>3 DEF IInv, NoFalseAlarm, CacheCovers
  <2>6. KnowsItsOwn'
    <3> SUFFICES ASSUME NEW r \in Refreshed \cap open' PROVE OwnKeys(r) \subseteq cache'[r]
      BY <2>1 DEF KnowsItsOwn, OwnKeys, Claimed
    <3> QED
      BY <2>1, <2>2 DEF IInv, KnowsItsOwn, OwnKeys, Refreshed
  <2>7. UnreadFollows' /\ CaughtUp'
    BY <2>1, <2>2 DEF IInv, UnreadFollows, CaughtUp, Claimed, Busy
  <2>8. Exclusive' /\ OneReader' /\ GrantedOnce'
    BY <2>1 DEF IInv, Exclusive, OneReader, GrantedOnce, Busy, Claimed
  <2> QED
    BY <2>4, <2>5, <2>6, <2>7, <2>8 DEF IInv
<1>12. CASE UNCHANGED vars
  BY <1>12 DEF vars, IInv, TypeOK, NoFalseAlarm, GrantedOnce, Exclusive, Busy, CacheCovers,
               UnreadFollows, CaughtUp, Claimed, OneReader, KnowsItsOwn, OwnKeys
<1> QED
  BY <1>1, <1>2, <1>3, <1>4, <1>5, <1>6, <1>7, <1>9, <1>10, <1>11, <1>12 DEF Next

LEMMA StoreInvariant == Spec => []IInv
<1>1. IInv /\ [Next]_vars => IInv'
  BY StepInvariant
<1> QED
  BY InitInvariant, <1>1, PTL DEF Spec

\* However many stores, threads and processes share the file, and wherever one dies,
\* at most one caller is told that it won a key, and only once the claim is durable.
THEOREM WonAtMostOnce == Spec => []GrantedOnce
BY StoreInvariant, PTL DEF IInv

\* A store of which no two reads overlapped does not take the file for truncated.
THEOREM NeverTruncated == Spec => []NoFalseAlarm
BY StoreInvariant, PTL DEF IInv

\* The store implements the abstract registry: a write of a new line is a claim, won by
\* a caller that learns of it or not, and every other step is invisible.
THEOREM StoreRefinesClaimOnce == Spec => RefinesClaimOnce
<1>1. Init => Abstract!Init
  BY DEF Init, Abstract!Init, Claimed, KeysOf
<1>2. IInv /\ [Next]_vars => [Abstract!Next]_<<Claimed, granted>>
  <2> SUFFICES ASSUME IInv, [Next]_vars PROVE [Abstract!Next]_<<Claimed, granted>>
    OBVIOUS
  <2>1. ASSUME NEW t \in Threads, NEW how, pc[t] = "append", Written(t, how),
               \/ granted' = granted
               \/ how = "line" /\ op[t] = "claim" /\ granted' = [granted EXCEPT ![key[t]] = @ + 1]
        PROVE  [Abstract!Next]_<<Claimed, granted>>
    <3>1. /\ key[t] \in Keys /\ Claimed \subseteq Claimed'
          /\ Claimed' \subseteq Claimed \cup {key[t]}
          /\ how = "line" => key[t] \in Claimed'
          /\ op[t] = "claim" => key[t] \notin Claimed
      BY <2>1, WriteExtends DEF IInv, TypeOK, CaughtUp
    <3>2. CASE key[t] \in Claimed
      BY <2>1, <3>1, <3>2
    <3>3. CASE key[t] \notin Claimed /\ key[t] \notin Claimed'
      BY <2>1, <3>1, <3>3
    <3>4. CASE key[t] \notin Claimed /\ key[t] \in Claimed'
      <4>1. Claimed' = Claimed \cup {key[t]}
        BY <3>1, <3>4
      <4>2. granted' \in {granted, [granted EXCEPT ![key[t]] = @ + 1]}
        BY <2>1
      <4>3. Abstract!Claim(key[t])
        BY <3>4, <4>1, <4>2 DEF Abstract!Claim
      <4> QED
        BY <3>1, <4>3 DEF Abstract!Next
    <3> QED
      BY <3>2, <3>3, <3>4
  <2>2. ASSUME NEW t \in Threads, AppendOk(t) \/ AppendFails(t)
        PROVE  [Abstract!Next]_<<Claimed, granted>>
    <3>1. \E how : /\ pc[t] = "append" /\ Written(t, how)
                   /\ \/ granted' = granted
                      \/ /\ how = "line" /\ op[t] = "claim"
                         /\ granted' = [granted EXCEPT ![key[t]] = @ + 1]
      BY <2>2 DEF AppendOk, AppendFails
    <3> QED
      BY <2>1, <3>1
  <2>3. ASSUME NEW s \in Stores, Die(s) PROVE [Abstract!Next]_<<Claimed, granted>>
    <3>1. CASE UNCHANGED durable
      BY <2>3, <3>1 DEF Die, durable, Claimed
    <3>2. CASE ~UNCHANGED durable
      <4>1. \E t \in Threads, how \in {"cut", "line"} :
                pc[t] = "append" /\ Written(t, how) /\ granted' = granted
        BY <2>3, <3>2 DEF Die
      <4> QED
        BY <2>1, <4>1
    <3> QED
      BY <3>1, <3>2
  <2>4. ASSUME NEW t \in Threads,
               \/ \E o \in {"claim", "resolve"}, k \in Keys : Call(t, o, k)
               \/ Refresh(t) \/ LoadRefused(t) \/ LoadRead(t) \/ LoadFold(t) \/ Loaded(t)
               \/ Declined(t) \/ Accepted(t)
        PROVE  UNCHANGED <<Claimed, granted>>
    BY <2>4 DEF Call, Refresh, LoadRefused, LoadRead, LoadFold, Loaded, Declined, Accepted,
                durable, Claimed
  <2>5. ASSUME NEW s \in Stores, Open(s) PROVE UNCHANGED <<Claimed, granted>>
    BY <2>5 DEF Open, durable, Claimed
  <2>6. CASE UNCHANGED vars
    BY <2>6 DEF vars, Claimed
  <2> QED
    BY <2>2, <2>3, <2>4, <2>5, <2>6 DEF Next
<1> QED
  BY <1>1, <1>2, StoreInvariant, PTL DEF Spec, RefinesClaimOnce, Abstract!Spec

=============================================================================
