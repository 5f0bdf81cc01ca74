---------------------------- MODULE EventBusProofs ---------------------------
(***************************************************************************)
(* The event bus, for any events, instants and number of resumptions, each *)
(* from any checkpoint: the order of emission and what the frontier covers *)
(* over a run and the buses it is resumed on.                              *)
(***************************************************************************)
EXTENDS EventBus, SequenceTheorems, TLAPS

\* A digest and a frontier fit: the frontier is the latest instant the digest chains.
Fits(d, t) ==
    /\ \A f \in Range(d) : Time[f] <= t
    /\ t # -1 => \E f \in Range(d) : Time[f] = t

\* Both of the running bus and of its last checkpoint.
DigestFits ==
    /\ Fits(digest, frontier)
    /\ saved # <<>> => Fits(saved[1], saved[2])

\* What the bus adopted lies behind its frontier and behind all it hands out.
BaseIsBehind ==
    /\ \A f \in Range(base) : Time[f] <= frontier
    /\ \A d \in Range(delivered), f \in Range(base) : Time[f] <= Time[d]

\* What waits sorts after the last event that was handled.
HeapIsAhead ==
    /\ last # 0 => last \in seen
    /\ \A f \in heap : last < f

\* The bus has delivered events it has seen, in order, up to the last one.
BusInOrder ==
    /\ \A d \in Range(delivered) : d \in seen /\ d <= last
    /\ Ascending(delivered)

\* Unless the source rewound, the digest extends what the bus adopted by its deliveries
\* and the frontier is the instant of the last event: no event is refused by it.
RunInOrder ==
    ~Rewound =>
        /\ digest = base \o delivered
        /\ last # 0 => frontier = Time[last]
        /\ last = 0 => Fits(base, frontier)

IInv == TypeOK /\ DigestFits /\ BaseIsBehind /\ HeapIsAhead /\ BusInOrder /\ RunInOrder

\* An appended event joins the range, after all that was there.
LEMMA RangeOfAppend ==
    ASSUME NEW s \in Seq(Events), NEW e \in Events
    PROVE  /\ Range(Append(s, e)) = Range(s) \cup {e}
           /\ Ascending(s) /\ (\A f \in Range(s) : f < e) => Ascending(Append(s, e))
<1> DEFINE t == Append(s, e)
<1>1. /\ Len(s) \in Nat /\ DOMAIN s = 1..Len(s)
      /\ t \in Seq(Events) /\ Len(t) = Len(s) + 1 /\ DOMAIN t = 1..Len(t)
      /\ \A i \in 1..Len(s) : t[i] = s[i]
      /\ t[Len(s) + 1] = e
  <2>1. t \in Seq(Events)
    BY AppendProperties
  <2> QED
    BY <2>1, AppendProperties, LenProperties
<1> HIDE DEF t
<1>2. DOMAIN t = DOMAIN s \cup {Len(s) + 1}
  BY <1>1
<1>3. Range(t) = Range(s) \cup {e}
  BY <1>1, <1>2 DEF Range
<1>4. ASSUME Ascending(s), \A f \in Range(s) : f < e PROVE Ascending(t)
  <2> SUFFICES ASSUME NEW i \in DOMAIN t, NEW j \in DOMAIN t, i < j PROVE t[i] < t[j]
    BY DEF Ascending
  <2>1. i \in 1..Len(s) /\ t[i] = s[i] /\ s[i] \in Range(s)
    BY <1>1 DEF Range
  <2>2. CASE j = Len(s) + 1
    BY <1>1, <1>4, <2>1, <2>2
  <2>3. CASE j \in 1..Len(s)
    BY <1>1, <1>4, <2>1, <2>3 DEF Ascending
  <2> QED
    BY <1>1, <2>2, <2>3
<1> QED
  BY <1>3, <1>4 DEF t

LEMMA ConcatOfAppend ==
    ASSUME NEW s \in Seq(Events), NEW t \in Seq(Events), NEW e \in Events
    PROVE  s \o Append(t, e) = Append(s \o t, e)
<1>1. Append(t, e) = t \o <<e>> /\ Append(s \o t, e) = (s \o t) \o <<e>>
  BY ConcatProperties, AppendIsConcat
<1>2. <<e>> \in Seq(Events)
  OBVIOUS
<1> QED
  BY <1>1, <1>2, ConcatAssociative

\* Two ascending sequences, one after the other, when every element of the first lies
\* before every element of the second.
LEMMA ConcatAscends ==
    ASSUME NEW s \in Seq(Events), NEW t \in Seq(Events), Ascending(s), Ascending(t),
           \A d \in Range(t), f \in Range(s) : f < d
    PROVE  Ascending(s \o t)
<1>1. /\ Len(s) \in Nat /\ Len(t) \in Nat
      /\ DOMAIN s = 1..Len(s) /\ DOMAIN t = 1..Len(t)
  BY LenProperties
<1>2. DOMAIN (s \o t) = 1..(Len(s) + Len(t))
  <2>1. s \o t \in Seq(Events) /\ Len(s \o t) = Len(s) + Len(t)
    BY ConcatProperties
  <2> QED
    BY <2>1, LenProperties
<1>3. \A i \in 1..(Len(s) + Len(t)) :
          (s \o t)[i] = IF i <= Len(s) THEN s[i] ELSE t[i - Len(s)]
  BY ConcatProperties
<1> DEFINE c == s \o t
<1> SUFFICES ASSUME NEW i \in DOMAIN c, NEW j \in DOMAIN c, i < j PROVE c[i] < c[j]
  BY DEF Ascending
<1>4. i \in 1..(Len(s) + Len(t)) /\ j \in 1..(Len(s) + Len(t))
  BY <1>2
<1> HIDE DEF c
<1>5. CASE j <= Len(s)
  <2>1. i \in DOMAIN s /\ j \in DOMAIN s /\ c[i] = s[i] /\ c[j] = s[j]
    BY <1>1, <1>3, <1>4, <1>5 DEF c
  <2> QED
    BY <2>1 DEF Ascending
<1>6. CASE i > Len(s)
  <2>1. /\ i - Len(s) \in DOMAIN t /\ j - Len(s) \in DOMAIN t /\ i - Len(s) < j - Len(s)
        /\ c[i] = t[i - Len(s)] /\ c[j] = t[j - Len(s)]
    BY <1>1, <1>3, <1>4, <1>6 DEF c
  <2> QED
    BY <2>1 DEF Ascending
<1>7. CASE i <= Len(s) /\ j > Len(s)
  <2>1. /\ i \in DOMAIN s /\ j - Len(s) \in DOMAIN t
        /\ c[i] = s[i] /\ c[j] = t[j - Len(s)]
    BY <1>1, <1>3, <1>4, <1>7 DEF c
  <2>2. c[i] \in Range(s) /\ c[j] \in Range(t)
    BY <2>1 DEF Range
  <2> QED
    BY <2>2
<1> QED
  BY <1>1, <1>4, <1>5, <1>6, <1>7

LEMMA InitInvariant == Init => IInv
<1> SUFFICES ASSUME Init PROVE IInv
  OBVIOUS
<1>1. <<>> \in Seq(Events) /\ Range(<<>>) = {} /\ Ascending(<<>>)
  BY EmptySeq DEF Range, Ascending
<1>2. TypeOK
  <2>1. /\ digest \in Seq(Events) /\ delivered \in Seq(Events) /\ base \in Seq(Events)
        /\ saved = <<>> /\ resumes \in 0..MaxResumes
    BY <1>1, BoundAssumption DEF Init
  <2> QED
    BY <2>1 DEF Init, TypeOK
<1>3. DigestFits /\ BaseIsBehind /\ HeapIsAhead /\ BusInOrder
  BY <1>1 DEF Init, DigestFits, Fits, BaseIsBehind, HeapIsAhead, BusInOrder
<1>4. RunInOrder
  BY <1>1, ConcatEmptySeq DEF Init, RunInOrder, Fits
<1> QED
  BY <1>2, <1>3, <1>4 DEF IInv

\* An event that may be published sorts after the last one.
LEMMA PublishStep == ASSUME IInv, NEW e \in Events, Publish(e) PROVE IInv'
<1>1. /\ e \notin seen /\ ~(last # 0 /\ e < last)
      /\ seen' = seen \cup {e} /\ heap' = heap \cup {e}
      /\ UNCHANGED <<last, digest, frontier, draining, delivered, base, saved, resumes>>
  BY DEF Publish, Admits
<1>2. TypeOK'
  BY <1>1 DEF IInv, TypeOK
<1>3. DigestFits' /\ BaseIsBehind'
  BY <1>1 DEF IInv, DigestFits, Fits, BaseIsBehind, Range
<1>4. HeapIsAhead'
  BY <1>1, EventsAssumption DEF IInv, TypeOK, HeapIsAhead
<1>5. BusInOrder'
  BY <1>1 DEF IInv, BusInOrder, Ascending, Range
<1>6. RunInOrder'
  BY <1>1 DEF IInv, RunInOrder, Rewound, Fits, Range
<1> QED
  BY <1>2, <1>3, <1>4, <1>5, <1>6 DEF IInv

\* The next event sorts after the last one; so does its instant, unless the source rewound.
LEMMA NextUpIsLater ==
    ASSUME IInv, NEW e \in Events, NextUp(e)
    PROVE  /\ last < e /\ e \in seen
           /\ ~Rewound => Time[e] >= frontier
<1>1. last < e /\ e \in seen
  BY DEF IInv, TypeOK, HeapIsAhead, NextUp
<1>2. ASSUME ~Rewound, last # 0 PROVE Time[e] >= frontier
  BY <1>1, <1>2, TimeAssumption DEF IInv, TypeOK, RunInOrder
<1>3. ASSUME ~Rewound, last = 0, frontier = -1 PROVE Time[e] >= frontier
  BY <1>3, TimeAssumption
<1>4. ASSUME ~Rewound, last = 0, frontier # -1 PROVE Time[e] >= frontier
  <2>1. PICK f \in Range(base) : Time[f] = frontier
    BY <1>4 DEF IInv, RunInOrder, Fits
  <2>2. f \in Events
    BY <2>1, RangeOfSeq DEF IInv, TypeOK
  <2>3. f < e
    BY <1>1, <1>4, <2>1, <2>2, EventsAssumption DEF Rewound
  <2> QED
    BY <2>1, <2>2, <2>3, TimeAssumption
<1> QED
  BY <1>1, <1>2, <1>3, <1>4

LEMMA EmitStep == ASSUME IInv, NEW e \in Events, Emit(e) PROVE IInv'
<1>1. /\ NextUp(e) /\ heap' = heap \ {e} /\ last' = e
      /\ digest' = Append(digest, e) /\ delivered' = Append(delivered, e)
      /\ frontier' = Time[e] /\ Time[e] >= frontier /\ draining' = TRUE
      /\ UNCHANGED <<seen, base, saved, resumes>>
  BY DEF Emit, Rest
<1>2. last < e /\ e \in seen /\ e # 0 /\ e \in Nat /\ last \in Nat
  BY <1>1, NextUpIsLater, EventsAssumption DEF IInv, TypeOK
<1>3. /\ digest \in Seq(Events) /\ delivered \in Seq(Events) /\ base \in Seq(Events)
      /\ digest' \in Seq(Events) /\ delivered' \in Seq(Events)
      /\ Range(digest') = Range(digest) \cup {e}
      /\ Range(delivered') = Range(delivered) \cup {e}
  BY <1>1, AppendProperties, RangeOfAppend DEF IInv, TypeOK
<1>4. /\ Range(digest) \subseteq Events /\ Range(delivered) \subseteq Events
      /\ Range(base) \subseteq Events
  BY <1>3, RangeOfSeq
<1>5. \A f \in Events : Time[f] \in Nat
  BY TimeAssumption
<1>6. frontier \in Int /\ frontier' \in Nat /\ frontier' # -1
  BY <1>1, <1>5 DEF IInv, TypeOK
<1>7. TypeOK'
  BY <1>1, <1>3, <1>6 DEF IInv, TypeOK
<1>8. DigestFits'
  <2>1. Fits(digest, frontier)'
    BY <1>1, <1>3, <1>4, <1>5, <1>6 DEF IInv, DigestFits, Fits
  <2> QED
    BY <1>1, <2>1 DEF IInv, DigestFits, Fits, Range
<1>9. BaseIsBehind'
  <2>1. \A f \in Range(base) : Time[f] <= Time[e]
    BY <1>1, <1>4, <1>5, <1>6 DEF IInv, BaseIsBehind
  <2>2. Range(base') = Range(base)
    BY <1>1
  <2> QED
    BY <1>1, <1>3, <2>1, <2>2 DEF IInv, BaseIsBehind
<1>10. HeapIsAhead'
  BY <1>1, <1>2, EventsAssumption DEF IInv, TypeOK, HeapIsAhead, NextUp
<1>11. BusInOrder'
  <2>1. \A f \in Range(delivered) : f \in Nat /\ f <= last /\ f \in seen
    BY <1>4, EventsAssumption DEF IInv, BusInOrder
  <2>2. \A f \in Range(delivered) : f < e
    BY <1>2, <2>1
  <2>3. Ascending(delivered')
    BY <1>1, <1>3, <2>2, RangeOfAppend DEF IInv, BusInOrder
  <2>4. \A d \in Range(delivered') : d \in seen /\ d <= e
    BY <1>2, <1>3, <2>1, <2>2
  <2> QED
    BY <1>1, <2>3, <2>4 DEF BusInOrder
<1>12. RunInOrder'
  <2>1. Rewound' = Rewound
    BY <1>1 DEF Rewound, Range
  <2>2. ASSUME digest = base \o delivered PROVE digest' = base' \o delivered'
    BY <1>1, <1>3, <2>2, ConcatOfAppend
  <2> QED
    BY <1>1, <1>2, <2>1, <2>2 DEF IInv, RunInOrder
<1> QED
  BY <1>7, <1>8, <1>9, <1>10, <1>11, <1>12 DEF IInv

\* Only the events of a source that rewound are refused by the frontier.
LEMMA EmitRaisesStep == ASSUME IInv, NEW e \in Events, EmitRaises(e) PROVE IInv'
<1>1. /\ NextUp(e) /\ Time[e] < frontier /\ heap' = heap \ {e} /\ last' = e
      /\ digest' = Append(digest, e) /\ draining' = FALSE
      /\ UNCHANGED <<seen, frontier, delivered, base, saved, resumes>>
  BY DEF EmitRaises, Rest
<1>2. last < e /\ e \in seen /\ Rewound
  BY <1>1, NextUpIsLater, TimeAssumption DEF IInv, TypeOK
<1>3. digest' \in Seq(Events) /\ Range(digest') = Range(digest) \cup {e}
  BY <1>1, AppendProperties, RangeOfAppend DEF IInv, TypeOK
<1>4. TypeOK'
  BY <1>1, <1>3 DEF IInv, TypeOK
<1>5. DigestFits'
  <2>1. Time[e] \in Nat /\ frontier \in Int
    BY TimeAssumption DEF IInv, TypeOK
  <2>2. Fits(digest, frontier)'
    BY <1>1, <1>3, <2>1 DEF IInv, DigestFits, Fits
  <2> QED
    BY <1>1, <2>2 DEF IInv, DigestFits, Fits, Range
<1>6. BaseIsBehind'
  BY <1>1 DEF IInv, BaseIsBehind, Range
<1>7. HeapIsAhead'
  BY <1>1, <1>2, EventsAssumption DEF IInv, TypeOK, HeapIsAhead, NextUp
<1>8. BusInOrder'
  <2>1. Range(delivered) \subseteq Events /\ last \in Nat /\ e \in Nat
    BY RangeOfSeq, EventsAssumption DEF IInv, TypeOK
  <2>2. \A d \in Range(delivered) : d \in seen /\ d <= e
    <3>1. \A d \in Range(delivered) : d \in Nat /\ d <= last /\ d \in seen
      BY <2>1, EventsAssumption DEF IInv, BusInOrder
    <3> QED
      BY <1>2, <2>1, <3>1
  <2>3. Range(delivered') = Range(delivered) /\ Ascending(delivered')
    BY <1>1 DEF IInv, BusInOrder
  <2> QED
    BY <1>1, <2>2, <2>3 DEF BusInOrder
<1>9. RunInOrder'
  BY <1>1, <1>2 DEF RunInOrder, Rewound, Range
<1> QED
  BY <1>4, <1>5, <1>6, <1>7, <1>8, <1>9 DEF IInv

LEMMA CheckpointStep == ASSUME IInv, Checkpoint PROVE IInv'
<1>1. /\ saved' = <<digest, frontier>>
      /\ UNCHANGED <<heap, seen, last, digest, frontier, draining, delivered, base, resumes>>
  BY DEF Checkpoint
<1>2. TypeOK'
  BY <1>1 DEF IInv, TypeOK
<1>3. DigestFits'
  BY <1>1 DEF IInv, DigestFits, Fits, Range
<1>4. BaseIsBehind' /\ HeapIsAhead' /\ BusInOrder'
  BY <1>1 DEF IInv, BaseIsBehind, HeapIsAhead, BusInOrder, Ascending, Range
<1>5. RunInOrder'
  BY <1>1 DEF IInv, RunInOrder, Rewound, Fits, Range
<1> QED
  BY <1>2, <1>3, <1>4, <1>5 DEF IInv

\* Whatever the bus that ended had come to, the fresh one starts where its checkpoint is.
LEMMA ResumeStep == ASSUME IInv, Resume PROVE IInv'
<1>1. /\ saved # <<>> /\ resumes < MaxResumes
      /\ heap' = {} /\ seen' = {} /\ last' = 0 /\ draining' = FALSE
      /\ digest' = saved[1] /\ frontier' = saved[2]
      /\ base' = saved[1] /\ delivered' = <<>> /\ resumes' = resumes + 1
      /\ saved' = saved
  BY DEF Resume, Adopt
<1>2. saved[1] \in Seq(Events) /\ saved[2] \in Nat \cup {-1} /\ Fits(saved[1], saved[2])
  BY <1>1 DEF IInv, TypeOK, DigestFits
<1>3. <<>> \in Seq(Events) /\ Range(<<>>) = {} /\ Ascending(<<>>)
  BY EmptySeq DEF Range, Ascending
<1>4. TypeOK'
  <2>1. resumes' \in 0..MaxResumes
    BY <1>1, BoundAssumption DEF IInv, TypeOK
  <2>2. /\ digest' \in Seq(Events) /\ delivered' \in Seq(Events) /\ base' \in Seq(Events)
        /\ frontier' \in Nat \cup {-1}
        /\ saved' # <<>> => saved' \in Seq(Events) \X (Nat \cup {-1})
    BY <1>1, <1>2, <1>3 DEF IInv, TypeOK
  <2> QED
    BY <1>1, <2>1, <2>2 DEF TypeOK
<1>5. DigestFits'
  BY <1>1, <1>2 DEF DigestFits, Fits, Range
<1>6. BaseIsBehind' /\ HeapIsAhead' /\ BusInOrder'
  BY <1>1, <1>2, <1>3 DEF Fits, BaseIsBehind, HeapIsAhead, BusInOrder
<1>7. RunInOrder'
  <2>1. digest' = base' \o delivered'
    BY <1>1, <1>2, ConcatEmptySeq
  <2> QED
    BY <1>1, <1>2, <2>1 DEF RunInOrder, Fits, Range
<1> QED
  BY <1>4, <1>5, <1>6, <1>7 DEF IInv

LEMMA StepInvariant == ASSUME IInv, [Next]_vars PROVE IInv'
<1>1. CASE Return
  <2>1. /\ draining' = FALSE
        /\ UNCHANGED <<heap, seen, last, digest, frontier, delivered, base, saved, resumes>>
    BY <1>1 DEF Return
  <2>2. TypeOK'
    BY <2>1 DEF IInv, TypeOK
  <2>3. DigestFits' /\ BaseIsBehind' /\ HeapIsAhead' /\ BusInOrder'
    BY <2>1 DEF IInv, DigestFits, Fits, BaseIsBehind, HeapIsAhead, BusInOrder, Ascending, Range
  <2>4. RunInOrder'
    BY <2>1 DEF IInv, RunInOrder, Rewound, Fits, Range
  <2> QED
    BY <2>2, <2>3, <2>4 DEF IInv
<1>2. CASE UNCHANGED vars
  BY <1>2 DEF vars, IInv, TypeOK, DigestFits, Fits, BaseIsBehind, HeapIsAhead, BusInOrder,
              RunInOrder, Rewound, Range, Ascending
<1> QED
  BY <1>1, <1>2, PublishStep, EmitStep, EmitRaisesStep, CheckpointStep, ResumeStep DEF Next

LEMMA BusInvariant == Spec => []IInv
<1>1. IInv /\ [Next]_vars => IInv'
  BY StepInvariant
<1> QED
  BY InitInvariant, <1>1, PTL DEF Spec

\* The events of a bus come to its consumers in the total order, each once; a bus resumed
\* from any checkpoint whose source does not rewind extends the checkpoint's digest by
\* exactly these, in the total order (drain, resume_from).
THEOREM EmissionIsOrdered == Spec => []EmittedInOrder
<1>1. IInv => EmittedInOrder
  <2> SUFFICES ASSUME IInv PROVE EmittedInOrder
    OBVIOUS
  <2>1. ASSUME ~Rewound, Ascending(base) PROVE Ascending(base \o delivered)
    <3>1. base \in Seq(Events) /\ delivered \in Seq(Events) /\ Ascending(delivered)
      BY DEF IInv, TypeOK, BusInOrder
    <3>2. /\ Range(base) \subseteq Events /\ Range(delivered) \subseteq Events
          /\ \A d \in Range(delivered) : d \in seen
      BY <3>1, RangeOfSeq DEF IInv, BusInOrder
    <3>3. \A d \in Range(delivered), f \in Range(base) : f < d
      <4>1. \A f \in Events : f \in Nat
        BY EventsAssumption
      <4>2. \A d \in Range(delivered), f \in Range(base) : ~(d <= f) /\ d \in Nat /\ f \in Nat
        BY <2>1, <3>2, <4>1 DEF Rewound
      <4> QED
        BY <4>2
    <3> QED
      BY <2>1, <3>1, <3>3, ConcatAscends
  <2> QED
    BY <2>1 DEF IInv, BusInOrder, RunInOrder, EmittedInOrder
<1> QED
  BY <1>1, BusInvariant, PTL

\* The frontier is never behind the digest, and what a resumed bus hands out never behind
\* what the run it resumes had decided at, whatever its source sends again and however
\* far that run had gone beyond its checkpoint (advanced_to, resume_from).
THEOREM FrontierCoversTheRun == Spec => []FrontierCovers
<1>1. IInv => FrontierCovers
  BY DEF IInv, DigestFits, Fits, BaseIsBehind, FrontierCovers
<1> QED
  BY <1>1, BusInvariant, PTL

=============================================================================
