---------------------------- MODULE EnrichmentProofs ----------------------------
(***************************************************************************)
(* The hand-off of addresses and the enrichment of their rows, for every   *)
(* number of addresses and sources and every size of the batch, the queue  *)
(* and the memory of the tailer: the types and bounds, what is asked       *)
(* about, and that a row only ever learns.                                 *)
(***************************************************************************)
EXTENDS Enrichment, SequenceTheorems, FiniteSetTheorems, TLAPS

-----------------------------------------------------------------------------
(* The inductive invariant *)

\* What a batch was answered: the sources that spoke, by address.
Found == (UNION {[good -> SUBSET Source] : good \in SUBSET Addr}) \cup {<<>>}

StoreTypes ==
    /\ now \in Day
    /\ visits \subseteq Addr /\ archived \subseteq Addr /\ unpurged \in BOOLEAN
    /\ shelf \in [Addr -> Row \cup {None}] /\ intel \in [Addr -> Row \cup {None}]
    /\ events \in 0..MaxEvents

TailerTypes == /\ handing \subseteq Addr /\ seen \subseteq Addr
               /\ order \in Seq(Addr) /\ Len(order) <= SeenMax

QueueTypes == /\ queue \in Seq(Addr) /\ Len(queue) <= QueueMax
              /\ pending \in Seq(Addr) /\ Len(pending) <= BatchSize

WorkerTypes ==
    /\ worker \in [pc : {"idle", "ask", "store"}, batch : SUBSET Addr, day : 0..MaxDay,
                   found : Found, failed : SUBSET Addr]
    /\ Cardinality(worker.batch) <= BatchSize
    /\ worker.pc = "idle" => worker = Idle
    /\ worker.pc = "store" => /\ worker.day \in Day
                              /\ worker.found \in [DOMAIN worker.found -> SUBSET Source]
                              /\ DOMAIN worker.found \cap worker.failed = {}

\* A row was heard of when it was fetched or before, and nothing was fetched in the
\* future.
Aged(row) == row # None => /\ row.fetched <= now
                           /\ \A s \in Source : row.heard[s] <= row.fetched

\* Only the worker writes new rows: while it waits to store, no row is newer than
\* what it holds.
RowsBehind ==
    /\ \A a \in Addr : Aged(intel[a]) /\ Aged(shelf[a])
    /\ worker.pc = "store" =>
         /\ worker.day <= now
         /\ \A a \in Addr : /\ intel[a] # None => intel[a].fetched <= worker.day
                            /\ shelf[a] # None => shelf[a].fetched <= worker.day

EnrichInv ==
    /\ StoreTypes /\ TailerTypes /\ QueueTypes /\ WorkerTypes
    /\ SeenMirrorsOrder /\ RowsBehind /\ NoEarlyQuestion

-----------------------------------------------------------------------------
(* Lemmas on batches and sequences *)

\* Every set of addresses can be counted.
LEMMA FiniteAddr ==
    /\ IsFiniteSet(Addr)
    /\ \A S \in SUBSET Addr : IsFiniteSet(S) /\ Cardinality(S) \in Nat
<1>1. IsFiniteSet(Addr)
  BY EnrichmentAssumption DEF EnrichmentAssumption
<1>2. ASSUME NEW S \in SUBSET Addr PROVE IsFiniteSet(S) /\ Cardinality(S) \in Nat
  BY <1>1, FS_Subset, FS_CardinalityType
<1> QED BY <1>1, <1>2

\* A list holds no more addresses than it is long.
LEMMA RangeBound ==
    ASSUME NEW s \in Seq(Addr)
    PROVE  /\ Range(s) \subseteq Addr /\ Cardinality(Range(s)) <= Len(s)
           /\ Cardinality(Range(s)) \in Nat
<1> DEFINE n == Len(s)
<1>1. n \in Nat /\ s \in [1..n -> Addr] /\ DOMAIN s = 1..n
  BY LenProperties
<1> HIDE DEF n
<1>2. Range(s) \subseteq Addr /\ s \in [1..n -> Range(s)]
      /\ \A a \in Range(s) : \E i \in 1..n : s[i] = a
  BY <1>1 DEF Range
<1>3. s \in Surjection(1..n, Range(s))
  BY <1>2 DEF Surjection
<1>4. IsFiniteSet(1..n) /\ Cardinality(1..n) = n
  BY <1>1, FS_Interval
<1> QED BY <1>2, <1>3, <1>4, FS_Surjection, FiniteAddr DEF n

\* Topped up as _select_batch() does it, a batch is no larger than its limit.
LEMMA BatchFits ==
    ASSUME NEW drained \in Seq(Addr), NEW list \in SUBSET Addr, NEW old \in SUBSET Addr,
           NEW twice, twice = Len(drained) - Cardinality(Range(drained)),
           Cardinality(old) <= Room(list) - twice
    PROVE  /\ Wanted(list \cup old) \subseteq Addr
           /\ Cardinality(Wanted(list \cup old)) <= BatchSize
<1>1. twice \in Int /\ twice >= 0
  BY RangeBound, LenProperties
<1>2. /\ IsFiniteSet(list) /\ IsFiniteSet(old) /\ IsFiniteSet(list \cup old)
      /\ Cardinality(list) \in Nat /\ Cardinality(old) \in Nat
      /\ Cardinality(list \cup old) \in Nat /\ Cardinality(list \cap old) \in Nat
  <2>1. list \cup old \in SUBSET Addr /\ list \cap old \in SUBSET Addr
    OBVIOUS
  <2> QED BY <2>1, FiniteAddr
<1>3. Cardinality(list \cup old) <= Cardinality(list) + Cardinality(old)
  <2>1. Cardinality(list \cup old) =
          Cardinality(list) + Cardinality(old) - Cardinality(list \cap old)
    BY <1>2, FS_Union
  <2> QED BY <1>2, <2>1
<1>4. Cardinality(list \cup old) <= BatchSize
  <2>1. Cardinality(old) <= BatchSize - Cardinality(list) - twice /\ BatchSize \in Nat
    BY EnrichmentAssumption DEF Room, EnrichmentAssumption
  <2> QED BY <1>1, <1>2, <1>3, <2>1
<1>5. Wanted(list \cup old) \subseteq list \cup old
  BY DEF Wanted
<1>6. /\ Cardinality(Wanted(list \cup old)) <= Cardinality(list \cup old)
      /\ Cardinality(Wanted(list \cup old)) \in Nat
  BY <1>2, <1>5, FS_Subset, FS_CardinalityType
<1>7. BatchSize \in Nat
  BY EnrichmentAssumption DEF EnrichmentAssumption
<1>8. Cardinality(Wanted(list \cup old)) <= BatchSize
  BY <1>2, <1>4, <1>6, <1>7
<1> QED BY <1>5, <1>8

\* Draining takes from the front of the queue what fits.
LEMMA Drained ==
    ASSUME QueueTypes,
           NEW n, n = IF Len(queue) < BatchSize - Len(pending) THEN Len(queue)
                      ELSE BatchSize - Len(pending)
    PROVE  /\ pending \o SubSeq(queue, 1, n) \in Seq(Addr)
           /\ Len(pending \o SubSeq(queue, 1, n)) <= BatchSize
           /\ SubSeq(queue, n + 1, Len(queue)) \in Seq(Addr)
           /\ Len(SubSeq(queue, n + 1, Len(queue))) <= QueueMax
<1>1. /\ Len(queue) \in Nat /\ Len(pending) \in Nat /\ Len(queue) <= QueueMax
      /\ \A i \in 1..Len(queue) : queue[i] \in Addr
      /\ BatchSize \in Nat /\ QueueMax \in Nat /\ Len(pending) <= BatchSize
  BY EnrichmentAssumption, LenProperties DEF QueueTypes, EnrichmentAssumption
<1>2. n \in 0..Len(queue) /\ n <= BatchSize - Len(pending)
  BY <1>1
<1>3. SubSeq(queue, 1, n) \in Seq(Addr) /\ Len(SubSeq(queue, 1, n)) = n
  <2>1. \A i \in 1..n : queue[i] \in Addr
    BY <1>1, <1>2
  <2>2. n \in Int /\ 1 \in Int /\ (1 <= n \/ n = 0)
    BY <1>2
  <2> QED BY <2>1, <2>2, SubSeqProperties
<1>4. /\ SubSeq(queue, n + 1, Len(queue)) \in Seq(Addr)
      /\ Len(SubSeq(queue, n + 1, Len(queue))) <= Len(queue)
  <2>1. \A i \in (n + 1)..Len(queue) : queue[i] \in Addr
    BY <1>1, <1>2
  <2>2. n + 1 \in Int /\ Len(queue) \in Int
    BY <1>1, <1>2
  <2>3. /\ SubSeq(queue, n + 1, Len(queue)) \in Seq(Addr)
        /\ Len(SubSeq(queue, n + 1, Len(queue))) =
             IF n + 1 <= Len(queue) THEN Len(queue) - (n + 1) + 1 ELSE 0
    BY <2>1, <2>2, SubSeqProperties
  <2> QED BY <1>1, <1>2, <2>3
<1>5. /\ pending \o SubSeq(queue, 1, n) \in Seq(Addr)
      /\ Len(pending \o SubSeq(queue, 1, n)) = Len(pending) + n
  BY <1>3, ConcatProperties DEF QueueTypes
<1>6. Len(SubSeq(queue, n + 1, Len(queue))) \in Nat
  BY <1>4, LenProperties
<1> QED BY <1>1, <1>2, <1>4, <1>5, <1>6

\* The deque stays bounded and the set goes on mirroring it: what the deque forgets
\* the set forgets (the comment in _queue_new_ips).
LEMMA RememberMirrors ==
    ASSUME TailerTypes, SeenMirrorsOrder, NEW a \in Addr \ seen, Remember(a)
    PROVE  /\ seen' \subseteq Addr /\ order' \in Seq(Addr) /\ Len(order') <= SeenMax
           /\ SeenMirrorsOrder'
<1> DEFINE full == Len(order) = SeenMax
           base == IF full THEN Tail(order) ELSE order
           kept == IF full THEN seen \ {Head(order)} ELSE seen
<1>1. /\ order \in Seq(Addr) /\ Len(order) \in Nat /\ DOMAIN order = 1..Len(order)
      /\ SeenMax \in Nat \ {0} /\ Len(order) <= SeenMax /\ seen \subseteq Addr
      /\ seen = {order[i] : i \in 1..Len(order)}
      /\ \A i, j \in 1..Len(order) : order[i] = order[j] => i = j
  BY EnrichmentAssumption, LenProperties
     DEF TailerTypes, SeenMirrorsOrder, EnrichmentAssumption, Range
<1>2. order' = Append(base, a) /\ seen' = kept \cup {a}
  BY DEF Remember
<1>3. /\ base \in Seq(Addr) /\ Len(base) \in Nat /\ Len(base) < SeenMax
      /\ kept = {base[i] : i \in 1..Len(base)} /\ a \notin kept /\ kept \subseteq Addr
      /\ \A i, j \in 1..Len(base) : base[i] = base[j] => i = j
  <2>1. CASE full
    <3>1. order # <<>>
      BY <1>1, <2>1
    <3>2. /\ base \in Seq(Addr) /\ Len(base) = Len(order) - 1 /\ Len(base) \in Nat
          /\ Head(order) = order[1]
          /\ \A i \in 1..Len(base) : base[i] = order[i + 1]
      BY <1>1, <2>1, <3>1, HeadTailProperties
    <3> HIDE DEF base
    <3>3. \A i, j \in 1..Len(base) : base[i] = base[j] => i = j
      <4> SUFFICES ASSUME NEW i \in 1..Len(base), NEW j \in 1..Len(base), base[i] = base[j]
                   PROVE  i = j
        OBVIOUS
      <4>1. i + 1 \in 1..Len(order) /\ j + 1 \in 1..Len(order) /\ order[i + 1] = order[j + 1]
        BY <1>1, <3>2
      <4> QED BY <1>1, <4>1
    <3>4. seen \ {Head(order)} = {base[i] : i \in 1..Len(base)}
      <4>1. ASSUME NEW x \in seen \ {Head(order)} PROVE x \in {base[i] : i \in 1..Len(base)}
        <5>1. PICK i \in 1..Len(order) : order[i] = x
          BY <1>1
        <5>2. i - 1 \in 1..Len(base) /\ base[i - 1] = x
          BY <1>1, <3>2, <4>1, <5>1
        <5> QED BY <5>2
      <4>2. ASSUME NEW i \in 1..Len(base) PROVE base[i] \in seen \ {Head(order)}
        <5>1. i + 1 \in 1..Len(order) /\ 1 \in 1..Len(order) /\ i + 1 # 1 /\ base[i] = order[i + 1]
          BY <1>1, <3>2
        <5> QED BY <1>1, <3>2, <5>1
      <4> QED BY <4>1, <4>2
    <3> QED BY <1>1, <2>1, <3>2, <3>3, <3>4
  <2>2. CASE ~full
    <3>1. base = order /\ kept = seen
      BY <2>2
    <3>2. Len(order) < SeenMax
      <4>1. Len(order) \in Nat /\ SeenMax \in Nat /\ Len(order) <= SeenMax
        BY <1>1
      <4> HIDE DEF base, kept
      <4> QED BY ONLY <2>2, <4>1 DEF full
    <3> HIDE DEF base, kept
    <3> QED BY <1>1, <3>1, <3>2
  <2> QED BY <2>1, <2>2
<1> HIDE DEF base, kept, full
<1>4. /\ order' \in Seq(Addr) /\ Len(order') = Len(base) + 1 /\ DOMAIN order' = 1..Len(base) + 1
      /\ \A i \in 1..Len(base) : order'[i] = base[i]
      /\ order'[Len(base) + 1] = a
  BY <1>2, <1>3
<1>5. \A i \in DOMAIN order' :
        \/ i \in 1..Len(base) /\ order'[i] = base[i] /\ order'[i] # a
        \/ i = Len(base) + 1 /\ order'[i] = a
  BY <1>3, <1>4
<1>6. seen' = Range(order')
  <2>1. ASSUME NEW x \in seen' PROVE \E i \in DOMAIN order' : order'[i] = x
    <3>1. CASE x = a
      BY <1>3, <1>4, <3>1
    <3>2. CASE x \in kept
      <4>1. PICK i \in 1..Len(base) : base[i] = x
        BY <1>3, <3>2
      <4>2. i \in DOMAIN order' /\ order'[i] = x
        BY <1>3, <1>4, <4>1
      <4> QED BY <4>2
    <3> QED BY <1>2, <2>1, <3>1, <3>2
  <2>2. ASSUME NEW i \in DOMAIN order' PROVE order'[i] \in seen'
    BY <1>2, <1>3, <1>5
  <2> QED BY <2>1, <2>2 DEF Range
<1>7. \A i, j \in DOMAIN order' : order'[i] = order'[j] => i = j
  BY <1>3, <1>5
<1>8. SeenMirrorsOrder'
  BY <1>6, <1>7 DEF SeenMirrorsOrder
<1> QED BY <1>1, <1>2, <1>3, <1>4, <1>8

-----------------------------------------------------------------------------
(* The invariant holds at first *)

\* A worker at rest has an empty batch.
LEMMA IdleFits ==
    /\ Idle \in [pc : {"idle", "ask", "store"}, batch : SUBSET Addr, day : 0..MaxDay,
                 found : Found, failed : SUBSET Addr]
    /\ Idle.pc = "idle" /\ Idle.batch = {} /\ Cardinality(Idle.batch) <= BatchSize
<1>1. MaxDay \in Nat /\ BatchSize \in Nat
  BY EnrichmentAssumption DEF EnrichmentAssumption
<1>2. Idle.batch = {} /\ Cardinality({}) = 0
  BY FS_EmptySet DEF Idle
<1>3. <<>> \in Found
  BY DEF Found
<1>4. 0 \in 0..MaxDay
  BY <1>1
<1> QED BY <1>1, <1>2, <1>3, <1>4 DEF Idle

\* At the start nothing is queued, looked up or archived.
LEMMA EnrichInit == Init => EnrichInv
<1> SUFFICES ASSUME Init PROVE EnrichInv
  OBVIOUS
<1> USE EnrichmentAssumption DEF EnrichmentAssumption, Init
<1>1. StoreTypes
  <2>1. unpurged \in BOOLEAN
    BY Zenon
  <2>2. now \in Day /\ events \in 0..MaxEvents
    BY DEF Day
  <2> QED BY <2>1, <2>2 DEF StoreTypes
<1>2. TailerTypes /\ QueueTypes
  BY DEF TailerTypes, QueueTypes
<1>3. WorkerTypes /\ NoEarlyQuestion
  BY IdleFits DEF WorkerTypes, NoEarlyQuestion
<1>4. SeenMirrorsOrder
  BY DEF SeenMirrorsOrder, Range
<1>5. RowsBehind
  BY IdleFits DEF RowsBehind, Aged
<1> QED BY <1>1, <1>2, <1>3, <1>4, <1>5 DEF EnrichInv

-----------------------------------------------------------------------------
(* The invariant holds after each step *)

\* A worker that has nothing in hand.
LEMMA WorkerRests ==
    ASSUME worker' = Idle
    PROVE  WorkerTypes' /\ NoEarlyQuestion'
BY IdleFits DEF WorkerTypes, NoEarlyQuestion

\* The rows and the day stay and the worker has nothing to store.
LEMMA RowsStay ==
    ASSUME RowsBehind, UNCHANGED <<now, intel, shelf>>, worker'.pc # "store" \/ worker' = worker
    PROVE  RowsBehind'
BY DEF RowsBehind, Aged

\* A commit of the tailer and the hand-off of its addresses.
LEMMA TailerStep ==
    ASSUME EnrichInv, \/ \E ips \in SUBSET Addr : Commit(ips)
                      \/ \E a \in Addr : HandOver(a)
    PROVE  EnrichInv'
<1>0. /\ StoreTypes /\ TailerTypes /\ QueueTypes /\ WorkerTypes
      /\ SeenMirrorsOrder /\ RowsBehind /\ NoEarlyQuestion
      /\ QueueMax \in Nat /\ MaxEvents \in Nat
  BY EnrichmentAssumption DEF EnrichInv, EnrichmentAssumption
<1>1. ASSUME NEW ips \in SUBSET Addr, Commit(ips) PROVE EnrichInv'
  <2>1. /\ visits' = visits \cup ips /\ handing' = ips /\ events' = events + 1 /\ events < MaxEvents
        /\ UNCHANGED <<now, archived, shelf, intel, unpurged, seen, order, queue, pending, worker>>
    BY <1>1 DEF Commit
  <2>2. StoreTypes' /\ TailerTypes' /\ QueueTypes' /\ WorkerTypes' /\ SeenMirrorsOrder'
    BY <1>0, <2>1 DEF StoreTypes, TailerTypes, QueueTypes, WorkerTypes, SeenMirrorsOrder
  <2>3. RowsBehind' /\ NoEarlyQuestion'
    BY <1>0, <2>1, RowsStay DEF NoEarlyQuestion, Stale, Known
  <2> QED BY <2>2, <2>3 DEF EnrichInv
<1>2. ASSUME NEW a \in Addr, HandOver(a) PROVE EnrichInv'
  <2>1. /\ handing' = handing \ {a}
        /\ IF a \in seen THEN UNCHANGED <<seen, order, queue>> ELSE Remember(a) /\ Offer(a)
        /\ UNCHANGED <<now, visits, archived, shelf, intel, unpurged, pending, worker, events>>
    BY <1>2 DEF HandOver, storeVars
  <2>2. StoreTypes' /\ WorkerTypes' /\ RowsBehind' /\ NoEarlyQuestion'
    BY <1>0, <2>1, RowsStay DEF StoreTypes, WorkerTypes, NoEarlyQuestion, Stale, Known
  <2>3. CASE a \in seen
    BY <1>0, <2>1, <2>2, <2>3 DEF EnrichInv, TailerTypes, QueueTypes, SeenMirrorsOrder
  <2>4. CASE a \notin seen
    <3>1. /\ seen' \subseteq Addr /\ order' \in Seq(Addr) /\ Len(order') <= SeenMax
          /\ SeenMirrorsOrder'
      BY <1>0, <2>1, <2>4, RememberMirrors
    <3>2. TailerTypes'
      BY <1>0, <2>1, <3>1 DEF TailerTypes
    <3>3. queue' = queue \/ (queue' = Append(queue, a) /\ Len(queue) < QueueMax)
      BY <2>1, <2>4 DEF Offer
    <3>4. QueueTypes'
      BY <1>0, <2>1, <3>3 DEF QueueTypes
    <3> QED BY <2>2, <3>1, <3>2, <3>4 DEF EnrichInv
  <2> QED BY <2>3, <2>4
<1> QED BY <1>1, <1>2

\* The worker takes a batch from the queue and the backlog, or fails to.
LEMMA SelectStep ==
    ASSUME EnrichInv, Select \/ SelectFails
    PROVE  EnrichInv'
<1>0. /\ StoreTypes /\ TailerTypes /\ QueueTypes /\ WorkerTypes
      /\ SeenMirrorsOrder /\ RowsBehind /\ NoEarlyQuestion /\ MaxEvents \in Nat
  BY EnrichmentAssumption DEF EnrichInv, EnrichmentAssumption
<1> DEFINE n == IF Len(queue) < BatchSize - Len(pending) THEN Len(queue)
                ELSE BatchSize - Len(pending)
           drained == pending \o SubSeq(queue, 1, n)
           twice == Len(drained) - Cardinality(Range(drained))
<1>1. /\ drained \in Seq(Addr) /\ Len(drained) <= BatchSize
      /\ SubSeq(queue, n + 1, Len(queue)) \in Seq(Addr)
      /\ Len(SubSeq(queue, n + 1, Len(queue))) <= QueueMax
  BY <1>0, Drained
<1>2. CASE Select
  <2>1. /\ queue' = SubSeq(queue, n + 1, Len(queue)) /\ pending' = <<>>
        /\ UNCHANGED <<now, visits, archived, shelf, intel, unpurged, handing, seen, order, events>>
    BY <1>2 DEF Select, storeVars, tailerVars
  <2>2. PICK new \in UpTo(Room(Range(drained)) - twice, GetUnenriched) :
          LET list == Range(drained) \cup new
          IN  \E old \in UpTo(Room(list) - twice, Stale) :
                LET batch == Wanted(list \cup old)
                IN  worker' = IF batch = {} THEN Idle
                              ELSE [Idle EXCEPT !.pc = "ask", !.batch = batch]
    BY <1>2 DEF Select
  <2> DEFINE list == Range(drained) \cup new
  <2>3. PICK old \in UpTo(Room(list) - twice, Stale) :
          LET batch == Wanted(list \cup old)
          IN  worker' = IF batch = {} THEN Idle
                        ELSE [Idle EXCEPT !.pc = "ask", !.batch = batch]
    BY <2>2
  <2> DEFINE batch == Wanted(list \cup old)
  <2>4. worker' = Idle \/ worker' = [Idle EXCEPT !.pc = "ask", !.batch = batch]
    BY <2>3
  <2>5. new \in SUBSET Addr /\ old \in SUBSET Addr /\ Cardinality(old) <= Room(list) - twice
    BY <1>0 DEF UpTo, GetUnenriched, Stale, Known, StoreTypes
  <2>6. list \in SUBSET Addr
    BY <1>1, <2>5, RangeBound
  <2> HIDE DEF list, drained
  <2>7. batch \subseteq Addr /\ Cardinality(batch) <= BatchSize
    BY <1>1, <2>5, <2>6, BatchFits
  <2>8. \A a \in batch : intel[a] = None \/ a \in Stale
    BY DEF Wanted
  <2> HIDE DEF batch
  <2>9. worker'.pc # "store"
    <3>1. CASE worker' = Idle
      BY <3>1, IdleFits
    <3>2. CASE worker' = [Idle EXCEPT !.pc = "ask", !.batch = batch]
      BY <3>2 DEF Idle
    <3> QED BY <2>4, <3>1, <3>2
  <2>10. WorkerTypes' /\ NoEarlyQuestion'
    <3>1. CASE worker' = Idle
      BY <3>1, WorkerRests
    <3>2. CASE worker' = [Idle EXCEPT !.pc = "ask", !.batch = batch]
      <4>1. /\ worker' \in [pc : {"idle", "ask", "store"}, batch : SUBSET Addr, day : 0..MaxDay,
                            found : Found, failed : SUBSET Addr]
            /\ worker'.batch = batch /\ worker'.pc = "ask"
        BY <2>7, <3>2, IdleFits DEF Idle
      <4>2. WorkerTypes'
        BY <2>7, <4>1 DEF WorkerTypes
      <4>3. Stale' = Stale /\ intel' = intel
        BY <2>1 DEF Stale, Known
      <4> QED BY <2>8, <4>1, <4>2, <4>3 DEF NoEarlyQuestion
    <3> QED BY <2>4, <3>1, <3>2
  <2>11. StoreTypes' /\ TailerTypes' /\ SeenMirrorsOrder' /\ RowsBehind'
    BY <1>0, <2>1, <2>9, RowsStay DEF StoreTypes, TailerTypes, SeenMirrorsOrder
  <2>12. QueueTypes'
    BY <1>1, <2>1, EmptySeq, EnrichmentAssumption DEF QueueTypes, EnrichmentAssumption
  <2> QED BY <2>10, <2>11, <2>12 DEF EnrichInv
<1>3. CASE SelectFails
  <2>1. /\ queue' = SubSeq(queue, n + 1, Len(queue)) /\ pending' = drained
        /\ events' = events + 1 /\ events < MaxEvents
        /\ UNCHANGED <<now, visits, archived, shelf, intel, unpurged, handing, seen, order, worker>>
    BY <1>3 DEF SelectFails, storeVars, tailerVars
  <2>2. QueueTypes'
    BY <1>1, <2>1 DEF QueueTypes
  <2>3. StoreTypes' /\ TailerTypes' /\ WorkerTypes' /\ SeenMirrorsOrder'
    BY <1>0, <2>1 DEF StoreTypes, TailerTypes, WorkerTypes, SeenMirrorsOrder
  <2>4. RowsBehind' /\ NoEarlyQuestion'
    BY <1>0, <2>1, RowsStay DEF NoEarlyQuestion, Stale, Known
  <2> QED BY <2>2, <2>3, <2>4 DEF EnrichInv
<1> QED BY <1>2, <1>3

\* The answers of a provider, a lookup that fails, a transaction that rolls back.
LEMMA AnswerStep ==
    ASSUME EnrichInv, Answer \/ AskFails \/ PersistFails
    PROVE  EnrichInv'
<1>0. /\ StoreTypes /\ TailerTypes /\ QueueTypes /\ WorkerTypes
      /\ SeenMirrorsOrder /\ RowsBehind /\ NoEarlyQuestion /\ MaxEvents \in Nat /\ MaxDay \in Nat
  BY EnrichmentAssumption DEF EnrichInv, EnrichmentAssumption
<1>1. ASSUME UNCHANGED <<now, visits, archived, shelf, intel, unpurged, handing, seen, order,
                         queue, pending>>,
             events' = events \/ (events' = events + 1 /\ events < MaxEvents)
      PROVE  /\ StoreTypes' /\ TailerTypes' /\ QueueTypes' /\ SeenMirrorsOrder'
             /\ Stale' = Stale /\ intel' = intel /\ shelf' = shelf /\ now' = now
  BY <1>0, <1>1 DEF StoreTypes, TailerTypes, QueueTypes, SeenMirrorsOrder, Stale, Known
<1>2. CASE AskFails \/ PersistFails
  <2>1. /\ worker' = Idle /\ events' = events + 1 /\ events < MaxEvents
        /\ UNCHANGED <<now, visits, archived, shelf, intel, unpurged, handing, seen, order,
                       queue, pending>>
    BY <1>2 DEF AskFails, PersistFails, storeVars, tailerVars
  <2>2. worker'.pc # "store"
    BY <2>1, IdleFits
  <2> QED BY <1>0, <1>1, <2>1, <2>2, WorkerRests, RowsStay DEF EnrichInv
<1>3. CASE Answer
  <2>1. /\ worker.pc = "ask"
        /\ UNCHANGED <<now, visits, archived, shelf, intel, unpurged, handing, seen, order,
                       queue, pending>>
    BY <1>3 DEF Answer, storeVars, tailerVars
  <2>2. PICK items \in Items :
          LET good == Counted(items, "success")
              bad  == Counted(items, "fail")
              all  == worker.batch \subseteq good \cup bad
          IN  /\ all \/ events < MaxEvents
              /\ events' = IF all THEN events ELSE events + 1
              /\ \E found \in [good -> SUBSET Source] :
                   worker' = IF good \cup bad = {} THEN Idle
                             ELSE [worker EXCEPT !.pc = "store", !.day = now,
                                                 !.found = found, !.failed = bad]
    BY <1>3 DEF Answer
  <2> DEFINE good == Counted(items, "success")
             bad == Counted(items, "fail")
  <2>3. PICK found \in [good -> SUBSET Source] :
          worker' = IF good \cup bad = {} THEN Idle
                    ELSE [worker EXCEPT !.pc = "store", !.day = now,
                                        !.found = found, !.failed = bad]
    BY <2>2
  <2>4. events' = events \/ (events' = events + 1 /\ events < MaxEvents)
    BY <2>2
  <2>5. good \subseteq Addr /\ bad \subseteq Addr
    BY <1>0 DEF Counted, WorkerTypes
  \* An address is counted once, so it did not both succeed and fail.
  <2>6. good \cap bad = {}
    <3> SUFFICES ASSUME NEW a \in good, a \in bad PROVE FALSE
      OBVIOUS
    <3>1. PICK i \in DOMAIN items : items[i] = <<a, "success">>
                                    /\ \A j \in 1..i - 1 : items[j][1] # a
      BY DEF Counted
    <3>2. PICK k \in DOMAIN items : items[k] = <<a, "fail">>
                                    /\ \A j \in 1..k - 1 : items[j][1] # a
      BY DEF Counted
    <3>3. \E m \in Nat : DOMAIN items = 1..m
      BY DEF Items
    <3>4. i # k /\ items[i][1] = a /\ items[k][1] = a
      BY <3>1, <3>2
    <3>5. i \in 1..k - 1 \/ k \in 1..i - 1
      BY <3>3, <3>4
    <3> QED BY <3>1, <3>2, <3>4, <3>5
  <2> HIDE DEF good, bad
  <2>7. CASE worker' = Idle
    <3>1. worker'.pc # "store"
      BY <2>7, IdleFits
    <3> QED BY <1>0, <1>1, <2>1, <2>4, <2>7, <3>1, WorkerRests, RowsStay DEF EnrichInv
  <2>8. CASE worker' = [worker EXCEPT !.pc = "store", !.day = now, !.found = found, !.failed = bad]
    <3>1. found \in Found /\ DOMAIN found = good /\ now \in Day /\ now \in 0..MaxDay
      BY <1>0, <2>5 DEF Found, StoreTypes, Day
    <3>2. /\ worker' \in [pc : {"idle", "ask", "store"}, batch : SUBSET Addr, day : 0..MaxDay,
                          found : Found, failed : SUBSET Addr]
          /\ worker'.pc = "store" /\ worker'.batch = worker.batch /\ worker'.day = now
          /\ worker'.found = found /\ worker'.failed = bad
      BY <1>0, <2>5, <2>8, <3>1 DEF WorkerTypes
    <3>3. WorkerTypes'
      BY <1>0, <2>3, <2>6, <3>1, <3>2 DEF WorkerTypes
    <3>4. /\ StoreTypes' /\ TailerTypes' /\ QueueTypes' /\ SeenMirrorsOrder'
          /\ Stale' = Stale /\ intel' = intel /\ shelf' = shelf /\ now' = now
      BY <1>1, <2>1, <2>4
    <3>5. NoEarlyQuestion'
      BY <1>0, <3>2, <3>4 DEF NoEarlyQuestion
    <3>6. RowsBehind'
      BY <1>0, <3>1, <3>2, <3>4 DEF RowsBehind, Aged, Day
    <3> QED BY <3>3, <3>4, <3>5, <3>6 DEF EnrichInv
  <2> QED BY <2>3, <2>7, <2>8
<1> QED BY <1>2, <1>3

\* The answers that are stored are no older than the rows they replace, the day of a
\* failure no older than that of the answers.
LEMMA PersistFits ==
    ASSUME EnrichInv, Persist
    PROVE  /\ intel' \in [Addr -> Row \cup {None}]
           /\ \A a \in Addr :
                \/ intel'[a] = intel[a]
                \/ /\ intel'[a].fetched \in {worker.day, now}
                   /\ \A s \in Source :
                        \/ intel'[a].heard[s] = worker.day
                        \/ intel'[a].heard[s] = IF intel[a] = None THEN 0 ELSE intel[a].heard[s]
<1>1. /\ intel \in [Addr -> Row \cup {None}] /\ worker.day \in Day /\ Day \subseteq 0..MaxDay
      /\ now \in Day
      /\ 0 \in 0..MaxDay
      /\ intel' = [a \in Addr |->
                     IF a \in DOMAIN worker.found THEN Upsert(a, worker.found[a], worker.day)
                     ELSE IF a \in worker.failed THEN MarkFailed(a, now)
                     ELSE intel[a]]
  BY EnrichmentAssumption
     DEF EnrichInv, StoreTypes, WorkerTypes, Persist, Day, EnrichmentAssumption
<1> DEFINE Later(a, row) ==
             /\ row \in Row
             /\ row.fetched \in {worker.day, now}
             /\ \A s \in Source :
                  \/ row.heard[s] = worker.day
                  \/ row.heard[s] = IF intel[a] = None THEN 0 ELSE intel[a].heard[s]
<1>2. ASSUME NEW a \in Addr, NEW heard PROVE Later(a, Upsert(a, heard, worker.day))
  <2>1. CASE intel[a] = None
    BY <1>1, <2>1 DEF Upsert, Row
  <2>2. CASE intel[a] # None
    <3>1. intel[a] \in Row
      BY <1>1, <2>2
    <3>2. intel[a].heard \in [Source -> 0..MaxDay]
      BY <3>1 DEF Row
    <3> QED BY <1>1, <2>2, <3>2 DEF Upsert, Row
  <2> QED BY <2>1, <2>2
<1>3. ASSUME NEW a \in Addr PROVE Later(a, MarkFailed(a, now))
  <2>1. CASE intel[a] = None
    BY <1>1, <2>1 DEF MarkFailed, Row
  <2>2. CASE intel[a] # None
    <3>1. intel[a] \in Row
      BY <1>1, <2>2
    <3> QED BY <1>1, <2>2, <3>1 DEF MarkFailed, Row
  <2> QED BY <2>1, <2>2
<1>4. ASSUME NEW a \in Addr PROVE intel'[a] = intel[a] \/ Later(a, intel'[a])
  <2>1. \/ intel'[a] = Upsert(a, worker.found[a], worker.day)
        \/ intel'[a] = MarkFailed(a, now)
        \/ intel'[a] = intel[a]
    BY <1>1
  <2> HIDE DEF Later
  <2> QED BY <1>2, <1>3, <2>1
<1>5. intel' \in [Addr -> Row \cup {None}]
  <2>1. \A a \in Addr : intel'[a] \in Row \cup {None}
    BY <1>1, <1>4
  <2>2. intel' = [a \in Addr |-> intel'[a]]
    BY <1>1
  <2> QED BY <2>1, <2>2
<1> QED BY <1>4, <1>5

\* The worker stores what it found; its rows are the only new ones.
LEMMA PersistStep ==
    ASSUME EnrichInv, Persist
    PROVE  EnrichInv'
<1>0. /\ StoreTypes /\ TailerTypes /\ QueueTypes /\ WorkerTypes
      /\ SeenMirrorsOrder /\ RowsBehind
  BY DEF EnrichInv
<1>1. /\ worker.pc = "store" /\ worker' = Idle
      /\ UNCHANGED <<now, visits, archived, shelf, unpurged, handing, seen, order, queue,
                     pending, events>>
  BY DEF Persist, tailerVars
<1>2. StoreTypes' /\ TailerTypes' /\ QueueTypes' /\ SeenMirrorsOrder'
  BY <1>0, <1>1, PersistFits DEF StoreTypes, TailerTypes, QueueTypes, SeenMirrorsOrder
<1>3. WorkerTypes' /\ NoEarlyQuestion' /\ worker'.pc # "store"
  BY <1>1, WorkerRests, IdleFits
<1>4. RowsBehind'
  <2>1. worker.day \in Nat /\ now \in Nat /\ worker.day <= now
    BY <1>0, <1>1 DEF RowsBehind, WorkerTypes, StoreTypes, Day
  <2>2. ASSUME NEW a \in Addr, intel'[a] # None
        PROVE  /\ intel'[a].fetched <= now
               /\ \A s \in Source : intel'[a].heard[s] <= intel'[a].fetched
    <3>1. CASE intel'[a] = intel[a]
      BY <1>0, <2>2, <3>1 DEF RowsBehind, Aged
    <3>2. CASE intel'[a] # intel[a]
      <4>1. /\ intel'[a].fetched \in {worker.day, now}
            /\ \A s \in Source :
                 \/ intel'[a].heard[s] = worker.day
                 \/ intel'[a].heard[s] = IF intel[a] = None THEN 0 ELSE intel[a].heard[s]
        BY <3>2, PersistFits
      <4>2. ASSUME NEW s \in Source, intel[a] # None PROVE intel[a].heard[s] <= worker.day
        <5>1. intel[a] \in Row
          BY <1>0, <4>2 DEF StoreTypes
        <5>2. intel[a].heard[s] \in Int /\ intel[a].fetched \in Int
          BY <5>1 DEF Row, Day
        <5>3. intel[a].heard[s] <= intel[a].fetched /\ intel[a].fetched <= worker.day
          BY <1>0, <1>1, <4>2 DEF RowsBehind, Aged
        <5> QED BY <2>1, <5>2, <5>3
      <4>3. intel'[a].fetched <= now /\ worker.day <= intel'[a].fetched
        BY <2>1, <4>1
      <4>4. ASSUME NEW s \in Source PROVE intel'[a].heard[s] <= worker.day
        BY <2>1, <4>1, <4>2
      <4>5. intel'[a].fetched \in Nat /\ \A s \in Source : intel'[a].heard[s] \in Nat
        BY <1>0, <2>2, PersistFits DEF Row, Day
      <4> QED BY <2>1, <4>3, <4>4, <4>5
    <3> QED BY <3>1, <3>2
  <2>3. \A a \in Addr : Aged(shelf[a])'
    BY <1>0, <1>1 DEF RowsBehind, Aged
  <2>4. now' = now
    BY <1>1
  <2>5. \A a \in Addr : Aged(intel[a])'
    BY <2>2, <2>4 DEF Aged
  <2> QED BY <1>3, <2>3, <2>5 DEF RowsBehind
<1> QED BY <1>2, <1>3, <1>4 DEF EnrichInv

\* Archive operations move rows between the table and the archive, or take them away:
\* a row that is there afterwards was there before, in one of the two places.
LEMMA ArchiveMoves ==
    ASSUME EnrichInv, \/ \E a \in Addr : Archive(a) \/ Restore(a) \/ Release(a)
                      \/ PassPurges
    PROVE  /\ visits' \subseteq Addr /\ archived' \subseteq Addr /\ unpurged' \in BOOLEAN
           /\ shelf' \in [Addr -> Row \cup {None}] /\ intel' \in [Addr -> Row \cup {None}]
           /\ \A b \in Addr : /\ intel'[b] \in {intel[b], None}
                                 \/ (intel[b] = None /\ intel'[b] = shelf[b] /\ shelf' = shelf)
                              /\ shelf'[b] = shelf[b]
                                 \/ (shelf'[b] = intel[b] /\ intel'[b] = intel[b])
<1>0. /\ visits \subseteq Addr /\ archived \subseteq Addr /\ unpurged \in BOOLEAN
      /\ shelf \in [Addr -> Row \cup {None}] /\ intel \in [Addr -> Row \cup {None}]
  BY DEF EnrichInv, StoreTypes
<1>1. ASSUME NEW present PROVE /\ Purged(intel, present) \in [Addr -> Row \cup {None}]
                               /\ \A b \in Addr : Purged(intel, present)[b] \in {intel[b], None}
  BY <1>0 DEF Purged
<1>2. ASSUME NEW a \in Addr, Archive(a)
      PROVE  /\ visits' = visits \ {a} /\ archived' = archived \cup {a} /\ unpurged' = TRUE
             /\ shelf' = [shelf EXCEPT ![a] = intel[a]] /\ intel' = intel
  BY <1>2 DEF Archive
<1>3. ASSUME NEW a \in Addr, Restore(a)
      PROVE  /\ visits' = visits \cup {a} /\ UNCHANGED <<archived, unpurged, shelf>>
             /\ intel' = [intel EXCEPT ![a] = IF intel[a] = None THEN shelf[a] ELSE intel[a]]
  BY <1>3 DEF Restore, InsertMissing
<1>4. ASSUME NEW a \in Addr, Release(a)
      PROVE  /\ visits' = visits \ {a} /\ UNCHANGED <<archived, unpurged, shelf>>
             /\ intel' = Purged(intel, visits \ {a})
  BY <1>4 DEF Release
<1>5. ASSUME PassPurges
      PROVE  /\ UNCHANGED <<visits, archived, shelf>> /\ unpurged' = FALSE
             /\ intel' = Purged(intel, visits)
  BY <1>5 DEF PassPurges
<1>6. ASSUME NEW a \in Addr, Archive(a) \/ Restore(a) \/ Release(a)
      PROVE  visits' \subseteq Addr /\ archived' \subseteq Addr /\ unpurged' \in BOOLEAN
  <2>1. CASE Archive(a)
    <3>1. unpurged' \in BOOLEAN
      BY <1>2, <2>1, Zenon
    <3> QED BY <1>0, <1>2, <2>1, <3>1
  <2>2. CASE Restore(a) \/ Release(a)
    BY <1>0, <1>3, <1>4, <2>2
  <2> QED BY <1>6, <2>1, <2>2
<1>7. CASE PassPurges
  <2>1. unpurged' \in BOOLEAN
    BY <1>5, <1>7, Zenon
  <2> QED BY <1>0, <1>1, <1>5, <1>7, <2>1
<1>8. ASSUME NEW a \in Addr, Archive(a) \/ Restore(a) \/ Release(a)
      PROVE  /\ shelf' \in [Addr -> Row \cup {None}] /\ intel' \in [Addr -> Row \cup {None}]
             /\ \A b \in Addr : /\ intel'[b] \in {intel[b], None}
                                   \/ (intel[b] = None /\ intel'[b] = shelf[b] /\ shelf' = shelf)
                                /\ shelf'[b] = shelf[b]
                                   \/ (shelf'[b] = intel[b] /\ intel'[b] = intel[b])
  <2>1. CASE Archive(a)
    BY <1>0, <1>2, <2>1
  <2>2. CASE Restore(a)
    BY <1>0, <1>3, <2>2
  <2>3. CASE Release(a)
    <3>1. intel' = Purged(intel, visits \ {a}) /\ shelf' = shelf
      BY <1>4, <2>3
    <3>2. /\ intel' \in [Addr -> Row \cup {None}]
          /\ \A b \in Addr : intel'[b] \in {intel[b], None}
      BY <1>1, <3>1
    <3> QED BY <1>0, <3>1, <3>2
  <2> QED BY <1>8, <2>1, <2>2, <2>3
<1> QED BY <1>6, <1>7, <1>8

\* Archive operations drop rows and bring back those they shelved.
LEMMA ArchiveStep ==
    ASSUME EnrichInv, \/ \E a \in Addr : Archive(a) \/ Restore(a) \/ Release(a)
                      \/ PassPurges
    PROVE  EnrichInv'
<1>0. /\ StoreTypes /\ TailerTypes /\ QueueTypes /\ WorkerTypes
      /\ SeenMirrorsOrder /\ RowsBehind /\ NoEarlyQuestion /\ MaxEvents \in Nat
  BY EnrichmentAssumption DEF EnrichInv, EnrichmentAssumption
<1>1. /\ UNCHANGED <<now, handing, seen, order, queue, pending, worker>>
      /\ events' = events \/ (events' = events + 1 /\ events < MaxEvents)
  BY DEF Archive, Restore, Release, PassPurges, tailerVars
<1>2. StoreTypes'
  BY <1>0, <1>1, ArchiveMoves DEF StoreTypes
<1>3. TailerTypes' /\ QueueTypes' /\ WorkerTypes' /\ SeenMirrorsOrder'
  BY <1>0, <1>1 DEF TailerTypes, QueueTypes, WorkerTypes, SeenMirrorsOrder
<1>4. \A b \in Addr : /\ intel'[b] \in {intel[b], shelf[b], None}
                      /\ shelf'[b] \in {intel[b], shelf[b]}
  BY ArchiveMoves
<1>5. RowsBehind'
  BY <1>0, <1>1, <1>4 DEF RowsBehind, Aged
<1>6. NoEarlyQuestion'
  <2> SUFFICES ASSUME NEW a \in worker.batch, intel'[a] # None, intel'[a] # shelf'[a]
               PROVE  a \in Stale'
    BY <1>1 DEF NoEarlyQuestion
  <2>1. a \in Addr
    BY <1>0 DEF WorkerTypes
  <2>2. intel'[a] = intel[a] /\ intel[a] # None /\ intel[a] # shelf[a]
    BY <2>1, ArchiveMoves
  <2>3. a \in Stale
    BY <1>0, <2>2 DEF NoEarlyQuestion
  <2> QED BY <1>1, <2>1, <2>2, <2>3 DEF Stale, Known
<1> QED BY <1>2, <1>3, <1>5, <1>6 DEF EnrichInv

\* A restart empties the memory of the process, a day makes every row older.
LEMMA ClockStep ==
    ASSUME EnrichInv, Restart \/ DayPasses
    PROVE  EnrichInv'
<1>0. /\ StoreTypes /\ TailerTypes /\ QueueTypes /\ WorkerTypes
      /\ SeenMirrorsOrder /\ RowsBehind /\ NoEarlyQuestion
      /\ MaxEvents \in Nat /\ SeenMax \in Nat /\ QueueMax \in Nat /\ BatchSize \in Nat
      /\ TTL \in Nat /\ MaxDay \in Nat
  BY EnrichmentAssumption DEF EnrichInv, EnrichmentAssumption
<1>1. CASE Restart
  <2>1. /\ handing' = {} /\ seen' = {} /\ order' = <<>> /\ queue' = <<>> /\ pending' = <<>>
        /\ worker' = Idle /\ unpurged' = FALSE /\ events' = events + 1 /\ events < MaxEvents
        /\ UNCHANGED <<now, visits, archived, shelf, intel>>
    BY <1>1 DEF Restart
  <2>2. unpurged' \in BOOLEAN
    BY <2>1, Zenon
  <2>3. StoreTypes'
    BY <1>0, <2>1, <2>2 DEF StoreTypes
  <2>4. TailerTypes' /\ QueueTypes'
    BY <1>0, <2>1 DEF TailerTypes, QueueTypes
  <2>5. SeenMirrorsOrder'
    BY <2>1 DEF SeenMirrorsOrder, Range
  <2>6. WorkerTypes' /\ NoEarlyQuestion' /\ worker'.pc # "store"
    BY <2>1, WorkerRests, IdleFits
  <2>7. RowsBehind'
    BY <1>0, <2>1, <2>6, RowsStay
  <2> QED BY <2>3, <2>4, <2>5, <2>6, <2>7 DEF EnrichInv
<1>2. CASE DayPasses
  <2>1. /\ now < MaxDay /\ now' = now + 1
        /\ UNCHANGED <<visits, archived, shelf, intel, unpurged, handing, seen, order, queue,
                       pending, worker, events>>
    BY <1>2 DEF DayPasses, storeVars, tailerVars
  <2>2. now \in Nat /\ now' \in Day
    BY <1>0, <2>1 DEF StoreTypes, Day
  <2>3. StoreTypes' /\ TailerTypes' /\ QueueTypes' /\ WorkerTypes' /\ SeenMirrorsOrder'
    BY <1>0, <2>1, <2>2 DEF StoreTypes, TailerTypes, QueueTypes, WorkerTypes, SeenMirrorsOrder
  <2>4. \A row \in Row : row.fetched \in Int
    BY DEF Row, Day
  <2>5. NoEarlyQuestion'
    <3> SUFFICES ASSUME NEW a \in worker.batch, intel[a] # None, intel[a] # shelf[a]
                 PROVE  a \in Stale'
      BY <2>1 DEF NoEarlyQuestion
    <3>1. a \in Stale /\ a \in Addr /\ intel[a] \in Row
      BY <1>0 DEF NoEarlyQuestion, WorkerTypes, StoreTypes
    <3>2. intel[a].fetched + TTL < now + 1
      BY <1>0, <2>2, <2>4, <3>1 DEF Stale
    <3> QED BY <2>1, <3>1, <3>2 DEF Stale, Known
  <2>6. RowsBehind'
    <3>1. ASSUME NEW row \in Row \cup {None}, Aged(row)
          PROVE  row # None => /\ row.fetched <= now'
                               /\ \A s \in Source : row.heard[s] <= row.fetched
      BY <2>1, <2>2, <2>4, <3>1 DEF Aged
    <3>2. \A a \in Addr : Aged(intel[a])' /\ Aged(shelf[a])'
      BY <1>0, <2>1, <3>1 DEF RowsBehind, Aged, StoreTypes
    <3>3. worker.pc = "store" => worker.day \in Int /\ worker.day <= now'
      BY <1>0, <2>1, <2>2 DEF RowsBehind, WorkerTypes, Day
    <3> QED BY <1>0, <2>1, <3>2, <3>3 DEF RowsBehind
  <2> QED BY <2>3, <2>5, <2>6 DEF EnrichInv
<1> QED BY <1>1, <1>2

\* The invariant is inductive.
LEMMA EnrichStep == EnrichInv /\ [Next]_vars => EnrichInv'
<1> SUFFICES ASSUME EnrichInv, [Next]_vars PROVE EnrichInv'
  OBVIOUS
<1>1. CASE UNCHANGED vars
  <2>1. UNCHANGED <<now, visits, archived, shelf, intel, unpurged, handing, seen, order, queue,
                    pending, worker, events>>
    BY <1>1 DEF vars, storeVars, tailerVars
  <2>2. StoreTypes' /\ TailerTypes' /\ QueueTypes' /\ WorkerTypes' /\ SeenMirrorsOrder'
    BY <2>1 DEF EnrichInv, StoreTypes, TailerTypes, QueueTypes, WorkerTypes, SeenMirrorsOrder
  <2>3. RowsBehind' /\ NoEarlyQuestion'
    BY <2>1, RowsStay DEF EnrichInv, NoEarlyQuestion, Stale, Known
  <2> QED BY <2>2, <2>3 DEF EnrichInv
<1> QED BY <1>1, TailerStep, SelectStep, AnswerStep, PersistStep, ArchiveStep, ClockStep DEF Next

\* The invariant always holds.
LEMMA EnrichAlways == Spec => []EnrichInv
BY EnrichInit, EnrichStep, PTL DEF Spec

-----------------------------------------------------------------------------
(* What follows *)

\* Types and bounds, for every size of the batch, the queue and the memory: a batch fits
\* the limit ip-api sets, the queue and the deque never outgrow theirs, and a worker that
\* has nothing in hand is idle (EnrichmentWorker.run, _queue_new_ips).
THEOREM EnrichmentTypes == Spec => []TypeOK
<1>1. EnrichInv => TypeOK
  <2> SUFFICES ASSUME EnrichInv PROVE TypeOK
    OBVIOUS
  <2>1. StoreTypes /\ TailerTypes /\ QueueTypes /\ WorkerTypes
    BY DEF EnrichInv
  <2>2. /\ worker.pc \in {"idle", "ask", "store"}
        /\ worker.batch \subseteq Addr /\ Cardinality(worker.batch) <= BatchSize
        /\ (worker.pc = "idle") <=> (worker = Idle)
    BY <2>1, IdleFits DEF WorkerTypes
  <2>3. worker.pc = "store" => /\ worker.day \in Day
                               /\ worker.found \in [DOMAIN worker.found -> SUBSET Source]
                               /\ DOMAIN worker.found \cap worker.failed = {}
    BY <2>1 DEF WorkerTypes
  <2> QED BY <2>1, <2>2, <2>3 DEF TypeOK, StoreTypes, TailerTypes, QueueTypes
<1> QED BY <1>1, EnrichAlways, PTL

\* No address is kept out of the queue by an entry of the set that the deque no longer
\* holds (the comment in _queue_new_ips).
THEOREM TailerForgetsTogether == Spec => []SeenMirrorsOrder
BY EnrichAlways, PTL DEF EnrichInv

\* Quota is spent only on addresses without a row or with one past its TTL, whatever the
\* archives do while the question is under way (_select_batch).
THEOREM QuotaIsNotWasted == Spec => []NoEarlyQuestion
BY EnrichAlways, PTL DEF EnrichInv

\* Whatever a step does to a row that stays, the row learns or is left alone.
LEMMA RowsLearn ==
    ASSUME EnrichInv, [Next]_vars, NEW a \in Known, intel'[a] # None
    PROVE  /\ intel'[a].fetched >= intel[a].fetched
           /\ \A s \in Source : intel'[a].heard[s] >= intel[a].heard[s]
<1>1. a \in Addr /\ intel[a] # None /\ intel[a] \in Row
  BY DEF EnrichInv, StoreTypes, Known
<1>2. /\ intel[a].fetched \in Int
      /\ \A s \in Source : intel[a].heard[s] \in Int
  BY <1>1 DEF Row, Day
<1>3. CASE Persist
  <2>1. intel[a].fetched <= worker.day /\ \A s \in Source : intel[a].heard[s] <= intel[a].fetched
    BY <1>1, <1>3 DEF EnrichInv, RowsBehind, Aged, Persist
  <2>2. worker.day \in Int /\ now \in Int /\ worker.day <= now
    BY <1>3 DEF EnrichInv, WorkerTypes, StoreTypes, RowsBehind, Day, Persist
  <2>3. \/ intel'[a] = intel[a]
        \/ /\ intel'[a].fetched \in {worker.day, now}
           /\ \A s \in Source : intel'[a].heard[s] = worker.day
                                \/ intel'[a].heard[s] = intel[a].heard[s]
    BY <1>1, <1>3, PersistFits
  <2>4. CASE intel'[a] = intel[a]
    BY <1>2, <2>4
  <2>5. CASE intel'[a] # intel[a]
    <3>1. ASSUME NEW s \in Source PROVE intel'[a].heard[s] >= intel[a].heard[s]
      <4>1. intel[a].heard[s] <= worker.day
        BY <1>2, <2>1, <2>2
      <4> QED BY <1>2, <2>2, <2>3, <2>5, <4>1
    <3> QED BY <1>2, <2>1, <2>2, <2>3, <2>5, <3>1
  <2> QED BY <2>4, <2>5
<1>4. CASE PassPurges \/ \E b \in Addr : Archive(b) \/ Restore(b) \/ Release(b)
  <2>1. intel'[a] = intel[a]
    BY <1>1, <1>4, ArchiveMoves
  <2> QED BY <1>2, <2>1
<1>5. CASE \/ \E ips \in SUBSET Addr : Commit(ips)
           \/ \E b \in Addr : HandOver(b)
           \/ Select \/ SelectFails \/ Answer \/ AskFails \/ PersistFails
           \/ Restart \/ DayPasses \/ UNCHANGED vars
  <2>1. intel' = intel
    BY <1>5 DEF Commit, HandOver, Select, SelectFails, Answer, AskFails, PersistFails, Restart,
                DayPasses, vars, storeVars
  <2> QED BY <1>2, <2>1
<1> QED BY <1>3, <1>4, <1>5 DEF Next

\* What was heard from a source stays until the source is heard again, across failed and
\* partial rounds, stubs, purges and restores (the docstring of upsert_ip_intel).
THEOREM SilenceErasesNothing == Spec => OutageErasesNothing
<1>1. EnrichInv /\ [Next]_vars =>
        [\A a \in Known : intel'[a] # None =>
           \A s \in Source : intel'[a].heard[s] >= intel[a].heard[s]]_vars
  BY RowsLearn
<1> QED BY <1>1, EnrichAlways, PTL DEF Spec, OutageErasesNothing

\* A row never goes back in time: a restore fills gaps only, and no answer is stored that
\* is older than the row it replaces (insert_missing_intel, upsert_ip_intel).
THEOREM RowsNeverGoBack == Spec => RowsOnlyGetFresher
<1>1. EnrichInv /\ [Next]_vars =>
        [\A a \in Known : intel'[a] # None => intel'[a].fetched >= intel[a].fetched]_vars
  BY RowsLearn
<1> QED BY <1>1, EnrichAlways, PTL DEF Spec, RowsOnlyGetFresher
===============================================================================
