----------------------------- MODULE RoundProofs -----------------------------
(***************************************************************************)
(* Theorems about what is counted of a round: by the receiver's counters   *)
(* alone, by one controller's rounds over them, and by rounds of several   *)
(* controllers with everything between them.                               *)
(*                                                                         *)
(* One receiver's counters, for every number of runs, transmitters and     *)
(* subframes, and for every window and wire field that the constructor of  *)
(* FrameCounter accepts.  A step changes at most one bucket (Matched) or   *)
(* replaces a run's buckets by empty ones (SetRun).  So the first part is  *)
(* about buckets: BucketOK is preserved by Forget on an over-full bucket,  *)
(* hence by Admit and Record, and FullMeansNothingForgotten follows from   *)
(* its watermark.                                                          *)
(*                                                                         *)
(* Its rounds under one controller, for every size of a round that         *)
(* SeqAllocator can tell apart.  The counters alone cannot tell a shot     *)
(* from the one a lap of the wire field later.  What keeps them apart is   *)
(* the barrier: everything stored above it was heard since the last        *)
(* answer, and whatever was heard since then belongs to three consecutive  *)
(* rounds at most, which never span the field.  RInv says exactly this.    *)
(*                                                                         *)
(* Four promises of a round, for any number of transmitters, shots, rounds *)
(* and restarts, and whatever the bus and the air lose: what a delivery is *)
(* divided by was on air; a barrier never lies ahead of the instance of the*)
(* receiver's agent it was taken from; what a link is credited with was    *)
(* heard in that round; and, where the nodes keep to their deadlines, what *)
(* was heard in that round is credited.  The last two need the frames the  *)
(* receiver counts to be of one round at a time.  A key tells its round as *)
(* long as the numbers have not come round again; that a frame is counted  *)
(* for its own controller is OwnRun, which holds by itself for a controller*)
(* that is alone, and for several follows from TInv: they take turns, and  *)
(* the receiver has each round before it is fired.                         *)
(***************************************************************************)
EXTENDS Round, CounterRounds, TLAPS, FiniteSetTheorems

USE ModulusAssumption, RunAssumption, BoundAssumption

\* The watermark is at or above every key ever forgotten: what _coverage
\* reads (counter.py:175-176, 180-188).
Watermark(b) == \A w \in b.forgotten : w <= b.evicted

BucketOK(b) == b \in Buckets /\ InStep(b) /\ Watermark(b)

\* No stored ordinal is ahead of the counter.
DatedUpTo(b, o) == \A w \in Wire, i \in Idxs : b.got[w][i] <= o

\* The inductive invariant.
IInv ==
    /\ TypeOK
    /\ RunMemory
    /\ \A r \in Runs, a \in Aps : BucketOK(buckets[r][a]) /\ DatedUpTo(buckets[r][a], ordinal)

---------------------------------------------------------------------------
(* Sequences without repetition.                                           *)

\* Appending an element that is not there keeps a sequence injective.
LEMMA AppendInjective ==
    ASSUME NEW S, NEW s \in Seq(S), NEW e \in S
    PROVE  /\ Append(s, e) \in Seq(S)
           /\ Len(Append(s, e)) = Len(s) + 1
           /\ Range(Append(s, e)) = Range(s) \cup {e}
           /\ IsInjective(s) /\ e \notin Range(s) => IsInjective(Append(s, e))
  <1>1. Append(s, e) \in Seq(S) /\ Len(Append(s, e)) = Len(s) + 1
    OBVIOUS
  <1>2. /\ DOMAIN s = 1 .. Len(s) /\ DOMAIN Append(s, e) = 1 .. Len(s) + 1
        /\ \A k \in 1 .. Len(s) : Append(s, e)[k] = s[k]
        /\ Append(s, e)[Len(s) + 1] = e
        /\ Len(s) \in Nat
    OBVIOUS
  <1>3. Range(Append(s, e)) = Range(s) \cup {e}
    BY <1>2 DEF Range
  <1>4. ASSUME IsInjective(s), e \notin Range(s)
        PROVE  IsInjective(Append(s, e))
    BY <1>2, <1>4 DEF IsInjective, Range
  <1>5. QED
    BY <1>1, <1>3, <1>4

\* Dropping the head of an injective sequence drops exactly that element.
LEMMA TailInjective ==
    ASSUME NEW S, NEW s \in Seq(S), s # <<>>, IsInjective(s)
    PROVE  /\ Tail(s) \in Seq(S)
           /\ Len(Tail(s)) = Len(s) - 1
           /\ IsInjective(Tail(s))
           /\ Head(s) \in S
           /\ Range(Tail(s)) = Range(s) \ {Head(s)}
  <1>1. Tail(s) \in Seq(S) /\ Len(Tail(s)) = Len(s) - 1 /\ Head(s) \in S
    OBVIOUS
  <1>2. /\ Len(s) \in Nat \ {0}
        /\ DOMAIN s = 1 .. Len(s) /\ DOMAIN Tail(s) = 1 .. Len(s) - 1
        /\ \A k \in 1 .. Len(s) - 1 : Tail(s)[k] = s[k + 1]
        /\ Head(s) = s[1]
    OBVIOUS
  <1>3. IsInjective(Tail(s))
    BY <1>2 DEF IsInjective
  <1>4. Range(Tail(s)) = Range(s) \ {Head(s)}
    <2>1. ASSUME NEW x \in Range(Tail(s)) PROVE x \in Range(s) /\ x # Head(s)
      <3>1. PICK k \in 1 .. Len(s) - 1 : x = s[k + 1]
        BY <2>1, <1>2 DEF Range
      <3>2. QED
        BY <3>1, <1>2 DEF Range, IsInjective
    <2>2. ASSUME NEW x \in Range(s), x # Head(s) PROVE x \in Range(Tail(s))
      <3>1. PICK k \in 1 .. Len(s) : x = s[k]
        BY <2>2, <1>2 DEF Range
      <3>2. k # 1 /\ k - 1 \in 1 .. Len(s) - 1 /\ Tail(s)[k - 1] = s[k]
        BY <3>1, <2>2, <1>2
      <3>3. QED
        BY <3>1, <3>2, <1>2 DEF Range
    <2>3. QED
      BY <2>1, <2>2
  <1>5. QED
    BY <1>1, <1>3, <1>4

---------------------------------------------------------------------------
(* Buckets.                                                                *)

\* An empty bucket is in order.
LEMMA EmptyBucketOK ==
    BucketOK(EmptyBucket) /\ \A o \in Nat : DatedUpTo(EmptyBucket, o)
  BY DEF BucketOK, EmptyBucket, Buckets, InStep, Watermark, DatedUpTo, IsInjective, Range,
         NothingYet, Wire

\* What admitting a key leaves: everything BucketOK says except that the new
\* key may still have no subframe of its own.
Admitted(b, w) ==
    /\ b \in Buckets
    /\ IsInjective(b.order)
    /\ Len(b.order) <= SeqRetain
    /\ w \in Range(b.order)
    /\ \A v \in Wire \ {w} : v \in Range(b.order) <=> \E i \in Idxs : b.got[v][i] # 0
    /\ Watermark(b)

\* Admitting a key keeps the window, the watermark and the listing in step,
\* evicts at most one key, and never the one that was just admitted.
LEMMA AdmitOK ==
    ASSUME NEW b, BucketOK(b), NEW w \in Wire
    PROVE  /\ Admitted(Admit(b, w), w)
           /\ \A v \in Wire, i \in Idxs : Admit(b, w).got[v][i] \in {0, b.got[v][i]}
           /\ \A i \in Idxs : Admit(b, w).got[w][i] = b.got[w][i]
  <1> USE DEF BucketOK
  <1>1. CASE w \in Range(b.order)
    BY <1>1 DEF Admit, Admitted, InStep, Buckets
  <1>2. CASE w \notin Range(b.order)
    <2> DEFINE c == [b EXCEPT !.order = Append(@, w)]
    <2>1. /\ c.got = b.got /\ c.evicted = b.evicted /\ c.forgotten = b.forgotten
          /\ c.order = Append(b.order, w)
          /\ c \in Buckets
      BY AppendInjective DEF Buckets
    <2>3. Admit(b, w) = Evict(c)
      BY <1>2 DEF Admit
    <2> HIDE DEF c
    <2>2. /\ IsInjective(c.order)
          /\ Len(c.order) = Len(b.order) + 1
          /\ Range(c.order) = Range(b.order) \cup {w}
          /\ c.order \in Seq(Wire) /\ b.order \in Seq(Wire)
      BY <2>1, <1>2, AppendInjective DEF InStep, Buckets
    <2>4. CASE Len(c.order) <= SeqRetain
      <3>1. Evict(c) = c
        BY <2>4, <2>2 DEF Evict
      <3>2. QED
        BY <3>1, <2>1, <2>2, <2>3, <2>4 DEF Admitted, InStep, Watermark, Buckets
    <2>5. CASE Len(c.order) > SeqRetain
      <3> DEFINE old == Head(c.order)
                 d == Forget(c, old)
      <3>1. Evict(c) = d
        BY <2>5 DEF Evict
      <3>2. Len(b.order) = SeqRetain /\ b.order # <<>> /\ c.order # <<>>
        BY <2>2, <2>5 DEF InStep
      <3>3. old = b.order[1] /\ old \in Range(b.order) /\ old # w /\ old \in Wire
        BY <2>1, <2>2, <3>2, <1>2 DEF Range
      <3>4. /\ Tail(c.order) \in Seq(Wire)
            /\ Len(Tail(c.order)) = SeqRetain
            /\ IsInjective(Tail(c.order))
            /\ Range(Tail(c.order)) = Range(c.order) \ {old}
        BY <2>2, <3>2, TailInjective
      <3>5. /\ d.got = [b.got EXCEPT ![old] = [i \in Idxs |-> 0]]
            /\ d.order = Tail(c.order)
            /\ d.forgotten = b.forgotten \cup {old}
            /\ d.evicted = IF old > b.evicted THEN old ELSE b.evicted
        BY <2>1 DEF Forget
      <3>11. d = [got |-> d.got, order |-> d.order, evicted |-> d.evicted, forgotten |-> d.forgotten]
        BY DEF Forget
      <3> HIDE DEF d
      <3>6. d \in Buckets
        <4>1. b.got \in [Wire -> [Idxs -> Nat]] /\ b.forgotten \in SUBSET Wire
              /\ b.evicted \in {NothingYet} \cup Wire
          BY DEF Buckets
        <4>2. d.got \in [Wire -> [Idxs -> Nat]]
          BY <4>1, <3>5, <3>3
        <4>3. QED
          BY <4>1, <4>2, <3>5, <3>4, <3>3, <3>11 DEF Buckets
      <3>7. Watermark(d)
        <4>1. b.evicted \in Int /\ old \in Int /\ \A v \in b.forgotten : v \in Int
          BY <3>3 DEF Buckets, NothingYet, Wire
        <4>2. QED
          BY <4>1, <3>5 DEF Watermark
      <3>8. \A v \in Wire, i \in Idxs :
                d.got[v][i] = IF v = old THEN 0 ELSE b.got[v][i]
        BY <3>5 DEF Buckets
      <3>9. Admitted(d, w)
        BY <3>3, <3>4, <3>5, <3>6, <3>7, <3>8, <2>2 DEF Admitted, InStep
      <3>10. QED
        BY <2>3, <3>1, <3>3, <3>8, <3>9
    <2>6. Len(c.order) \in Nat
      BY <2>2
    <2>7. QED
      BY <2>4, <2>5, <2>6
  <1>3. QED
    BY <1>1, <1>2

\* Recording a subframe keeps the bucket in order, stores no ordinal other
\* than the one given, and redates nothing.
LEMMA RecordOK ==
    ASSUME NEW b, BucketOK(b), NEW w \in Wire, NEW i \in Idxs, NEW o \in Nat \ {0}
    PROVE  /\ BucketOK(Record(b, w, i, o))
           /\ \A v \in Wire, j \in Idxs :
                 Record(b, w, i, o).got[v][j] \in
                    {0, IF b.got[v][j] = 0 THEN o ELSE b.got[v][j]}
  <1> DEFINE c == Admit(b, w)
             d == Record(b, w, i, o)
  <1>1. /\ Admitted(c, w)
        /\ \A v \in Wire, j \in Idxs : c.got[v][j] \in {0, b.got[v][j]}
        /\ \A j \in Idxs : c.got[w][j] = b.got[w][j]
    BY AdmitOK
  <1>2. CASE c.got[w][i] # 0
    <2>1. d = c
      BY <1>2 DEF Record
    <2>2. QED
      BY <2>1, <1>1, <1>2 DEF Admitted, BucketOK, InStep
  <1>3. CASE c.got[w][i] = 0
    <2>1. d = [c EXCEPT !.got[w][i] = o]
      BY <1>3 DEF Record
    <2>2. /\ d.order = c.order /\ d.evicted = c.evicted /\ d.forgotten = c.forgotten
          /\ d.got = [c.got EXCEPT ![w][i] = o]
          /\ d \in Buckets
      <3> HIDE DEF c
      <3>1. c \in Buckets
        BY <1>1 DEF Admitted
      <3>2. /\ c.got \in [Wire -> [Idxs -> Nat]]
            /\ c = [got |-> c.got, order |-> c.order, evicted |-> c.evicted,
                    forgotten |-> c.forgotten]
        BY <3>1 DEF Buckets
      <3>3. d = [got |-> [c.got EXCEPT ![w][i] = o], order |-> c.order,
                 evicted |-> c.evicted, forgotten |-> c.forgotten]
        BY <2>1, <3>2
      <3> HIDE DEF d
      <3>4. QED
        BY <3>1, <3>2, <3>3 DEF Buckets
    <2> HIDE DEF c, d
    <2>3. \A v \in Wire, j \in Idxs :
              d.got[v][j] = IF v = w /\ j = i THEN o ELSE c.got[v][j]
      BY <2>2, <1>1 DEF Admitted, Buckets
    <2>4. InStep(d)
      BY <2>2, <2>3, <1>1 DEF InStep, Admitted
    <2>5. Watermark(d)
      BY <2>2, <1>1 DEF Admitted, Watermark
    <2>6. QED
      BY <2>2, <2>3, <2>4, <2>5, <1>1, <1>3 DEF BucketOK, d
  <1>4. QED
    BY <1>2, <1>3

\* Whatever admitting a key drops is written down as forgotten.
LEMMA AdmitForgets ==
    ASSUME NEW b, BucketOK(b), NEW w \in Wire
    PROVE  /\ b.forgotten \subseteq Admit(b, w).forgotten
           /\ \A v \in Wire, j \in Idxs :
                  Admit(b, w).got[v][j] = b.got[v][j] \/ v \in Admit(b, w).forgotten
  <1> DEFINE c == [b EXCEPT !.order = Append(@, w)]
             old == Head(c.order)
  <1>1. /\ b.got \in [Wire -> [Idxs -> Nat]]
        /\ c.got = b.got /\ c.forgotten = b.forgotten
    BY DEF BucketOK, Buckets
  <1>2. Admit(b, w) \in {b, c, Forget(c, old)}
    BY DEF Admit, Evict
  <1>3. /\ Forget(c, old).got = [b.got EXCEPT ![old] = [i \in Idxs |-> 0]]
        /\ Forget(c, old).forgotten = b.forgotten \cup {old}
    BY <1>1 DEF Forget
  <1> HIDE DEF c, old
  <1>4. CASE Admit(b, w) \in {b, c}
    BY <1>1, <1>4
  <1>5. CASE Admit(b, w) = Forget(c, old)
    BY <1>1, <1>3, <1>5
  <1>6. QED
    BY <1>2, <1>4, <1>5

\* Recording stores the subframe and loses nothing unnoticed.
LEMMA RecordKeeps ==
    ASSUME NEW b, BucketOK(b), NEW w \in Wire, NEW i \in Idxs, NEW o \in Nat \ {0}
    PROVE  /\ Record(b, w, i, o).got[w][i] # 0
           /\ b.forgotten \subseteq Record(b, w, i, o).forgotten
           /\ \A v \in Wire, j \in Idxs : b.got[v][j] # 0 =>
                  \/ Record(b, w, i, o).got[v][j] # 0
                  \/ v \in Record(b, w, i, o).forgotten
  <1> DEFINE c == Admit(b, w)
  <1>1. Admitted(c, w) /\ \A j \in Idxs : c.got[w][j] = b.got[w][j]
    BY AdmitOK
  <1>2. /\ b.forgotten \subseteq c.forgotten
        /\ \A v \in Wire, j \in Idxs : c.got[v][j] = b.got[v][j] \/ v \in c.forgotten
    BY AdmitForgets
  <1> HIDE DEF c
  <1>3. Record(b, w, i, o) = IF c.got[w][i] = 0 THEN [c EXCEPT !.got[w][i] = o] ELSE c
    BY DEF Record, c
  <1>4. /\ c.got \in [Wire -> [Idxs -> Nat]]
        /\ c = [got |-> c.got, order |-> c.order, evicted |-> c.evicted,
                forgotten |-> c.forgotten]
    BY <1>1 DEF Admitted, Buckets
  <1>5. CASE c.got[w][i] # 0
    BY <1>2, <1>3, <1>5
  <1>6. CASE c.got[w][i] = 0
    <2>1. /\ Record(b, w, i, o).got = [c.got EXCEPT ![w][i] = o]
          /\ Record(b, w, i, o).forgotten = c.forgotten
      BY <1>3, <1>4, <1>6
    <2>2. QED
      BY <2>1, <1>2, <1>4
  <1>7. QED
    BY <1>5, <1>6

\* The only subframe that can take the new ordinal is the one recorded.
LEMMA RecordDates ==
    ASSUME NEW b, BucketOK(b), NEW w \in Wire, NEW i \in Idxs, NEW o \in Nat \ {0},
           NEW v \in Wire, NEW j \in Idxs,
           Record(b, w, i, o).got[v][j] \notin {0, b.got[v][j]}
    PROVE  v = w /\ j = i /\ Record(b, w, i, o).got[v][j] = o
  <1> DEFINE c == Admit(b, w)
  <1>1. Admitted(c, w) /\ c.got[v][j] \in {0, b.got[v][j]}
    BY AdmitOK
  <1> HIDE DEF c
  <1>2. Record(b, w, i, o) = IF c.got[w][i] = 0 THEN [c EXCEPT !.got[w][i] = o] ELSE c
    BY DEF Record, c
  <1>3. c.got[w][i] = 0 /\ Record(b, w, i, o) = [c EXCEPT !.got[w][i] = o]
    BY <1>1, <1>2
  <1>4. /\ c.got \in [Wire -> [Idxs -> Nat]]
        /\ c = [got |-> c.got, order |-> c.order, evicted |-> c.evicted,
                forgotten |-> c.forgotten]
    BY <1>1 DEF Admitted, Buckets
  <1>5. Record(b, w, i, o).got = [c.got EXCEPT ![w][i] = o]
    BY <1>3, <1>4
  <1>6. QED
    BY <1>1, <1>4, <1>5

---------------------------------------------------------------------------
(* The counter.                                                            *)

\* Nothing is held before the first run is announced.
LEMMA InitIInv == Init => IInv
  <1> SUFFICES ASSUME Init PROVE IInv
    OBVIOUS
  <1>1. \A r \in Runs, a \in Aps : buckets[r][a] = EmptyBucket
    BY DEF Init
  <1>2. \A r \in Runs, a \in Aps : BucketOK(buckets[r][a]) /\ DatedUpTo(buckets[r][a], ordinal)
    BY <1>1, EmptyBucketOK DEF Init
  <1>3. TypeOK
    BY <1>1, EmptyBucketOK DEF Init, TypeOK, BucketOK
  <1>4. RunMemory
    BY DEF Init, RunMemory, CurrentRunHeld, RunsBounded, DroppedRunsEmpty, Range, IsInjective
  <1>5. QED
    BY <1>2, <1>3, <1>4 DEF IInv

\* Announcing a run may empty the oldest one's buckets and touches no other.
LEMMA SetRunIInv == ASSUME IInv, NEW r \in Runs, SetRun(r) PROVE IInv'
  <1>1. TypeOK /\ CurrentRunHeld /\ RunsBounded /\ DroppedRunsEmpty
    BY DEF IInv, RunMemory
  <1>2. CASE r \in Range(runOrder)
    <2>1. UNCHANGED <<runOrder, buckets, ordinal, otherFrames>> /\ runId' = r
      BY <1>2 DEF SetRun
    <2>2. QED
      BY <2>1, <1>2, <1>1 DEF IInv, TypeOK, RunMemory, CurrentRunHeld, RunsBounded,
                              DroppedRunsEmpty
  <1>3. CASE r \notin Range(runOrder)
    <2> DEFINE held == Append(runOrder, r)
    <2>1. /\ held \in Seq(Runs) /\ Len(held) = Len(runOrder) + 1
          /\ Range(held) = Range(runOrder) \cup {r}
          /\ IsInjective(held)
          /\ held # <<>>
      <3>1. runOrder \in Seq(Runs)
        BY <1>1 DEF TypeOK
      <3>2. QED
        BY <3>1, <1>1, <1>3, AppendInjective DEF RunsBounded
    <2> HIDE DEF held
    <2>2. runId' = r /\ UNCHANGED <<ordinal, otherFrames>>
      BY DEF SetRun
    <2>3. CASE Len(held) > RunRetain
      <3>1. /\ runOrder' = Tail(held)
            /\ buckets' = [buckets EXCEPT ![Head(held)] = [a \in Aps |-> EmptyBucket]]
        BY <1>3, <2>3 DEF SetRun, held
      <3>2. /\ Tail(held) \in Seq(Runs) /\ Len(Tail(held)) = Len(runOrder)
            /\ IsInjective(Tail(held)) /\ Head(held) \in Runs
            /\ Range(Tail(held)) = Range(held) \ {Head(held)}
        <4>1. Len(runOrder) \in Nat
          BY <1>1 DEF TypeOK
        <4>2. QED
          BY <2>1, <4>1, TailInjective
      <3>3. Head(held) # r
        <4>1. Len(runOrder) \in Nat \ {0}
          BY <2>1, <2>3, <1>1 DEF TypeOK, RunsBounded
        <4>2. Head(held) = runOrder[1]
          BY <4>1, <1>1 DEF held, TypeOK
        <4>3. runOrder[1] \in Range(runOrder)
          BY <4>1, <1>1 DEF Range, TypeOK
        <4>4. QED
          BY <4>2, <4>3, <1>3
      <3>4. \A q \in Runs : buckets'[q] =
                IF q = Head(held) THEN [a \in Aps |-> EmptyBucket] ELSE buckets[q]
        BY <3>1, <1>1 DEF TypeOK
      <3>5. TypeOK'
        <4>1. [a \in Aps |-> EmptyBucket] \in [Aps -> Buckets]
          BY EmptyBucketOK DEF BucketOK
        <4>2. buckets' \in [Runs -> [Aps -> Buckets]]
          BY <4>1, <3>1, <1>1 DEF TypeOK
        <4>3. QED
          BY <4>2, <3>1, <3>2, <2>2, <1>1 DEF TypeOK
      <3>6. RunMemory'
        <4>1. CurrentRunHeld' /\ RunsBounded'
          BY <3>1, <3>2, <3>3, <2>1, <2>2, <1>1 DEF CurrentRunHeld, RunsBounded
        <4>2. DroppedRunsEmpty'
          BY <3>1, <3>2, <3>4, <2>1, <1>1 DEF DroppedRunsEmpty
        <4>3. QED
          BY <4>1, <4>2 DEF RunMemory
      <3>7. \A q \in Runs, a \in Aps : BucketOK(buckets'[q][a]) /\ DatedUpTo(buckets'[q][a], ordinal')
        <4>1. ordinal \in Nat
          BY <1>1 DEF TypeOK
        <4>2. QED
          BY <3>4, <4>1, <2>2, EmptyBucketOK DEF IInv
      <3>8. QED
        BY <3>5, <3>6, <3>7 DEF IInv
    <2>4. CASE ~(Len(held) > RunRetain)
      <3>1. runOrder' = held /\ buckets' = buckets
        BY <1>3, <2>4 DEF SetRun, held
      <3>2. Len(held) <= RunRetain
        BY <2>4, <2>1, <1>1 DEF TypeOK
      <3>3. TypeOK'
        BY <3>1, <2>1, <2>2, <1>1 DEF TypeOK
      <3>4. RunMemory'
        BY <3>1, <3>2, <2>1, <2>2, <1>1
           DEF RunMemory, CurrentRunHeld, RunsBounded, DroppedRunsEmpty
      <3>5. QED
        BY <3>1, <3>3, <3>4, <2>2 DEF IInv
    <2>5. QED
      BY <2>3, <2>4
  <1>4. QED
    BY <1>2, <1>3

\* What one matched frame does to the buckets.
LEMMA MatchedBuckets ==
    ASSUME IInv, NEW a \in Aps, NEW w \in Wire, NEW i \in Idxs, Matched(a, w, i)
    PROVE  /\ runId \in Runs /\ ordinal \in Nat
           /\ \A r \in Runs, x \in Aps : buckets'[r][x] =
                  IF r = runId /\ x = a THEN Record(buckets[runId][a], w, i, ordinal + 1)
                                       ELSE buckets[r][x]
           /\ BucketOK(Record(buckets[runId][a], w, i, ordinal + 1))
           /\ \A v \in Wire, j \in Idxs :
                 Record(buckets[runId][a], w, i, ordinal + 1).got[v][j] \in
                    {0, IF buckets[runId][a].got[v][j] = 0
                        THEN ordinal + 1 ELSE buckets[runId][a].got[v][j]}
  <1>1. runId \in Runs /\ ordinal \in Nat /\ buckets \in [Runs -> [Aps -> Buckets]]
    BY DEF IInv, TypeOK, Matched
  <1>2. buckets' = [buckets EXCEPT ![runId][a] =
                        Record(buckets[runId][a], w, i, ordinal + 1)]
    BY DEF Matched
  <1>3. BucketOK(buckets[runId][a])
    BY <1>1 DEF IInv
  <1>4. QED
    BY <1>1, <1>2, <1>3, RecordOK

\* A matched frame dates one subframe at most: its own, with the new ordinal.
LEMMA MatchedGot ==
    ASSUME IInv, NEW a \in Aps, NEW w \in Wire, NEW i \in Idxs, Matched(a, w, i),
           NEW r \in Runs, NEW x \in Aps, NEW v \in Wire, NEW j \in Idxs,
           buckets'[r][x].got[v][j] # 0,
           buckets'[r][x].got[v][j] # buckets[r][x].got[v][j]
    PROVE  /\ r = runId /\ x = a /\ v = w /\ j = i
           /\ buckets'[r][x].got[v][j] = ordinal + 1
  <1> DEFINE b == buckets[runId][a]
  <1>1. /\ r = runId /\ x = a
        /\ buckets'[r][x] = Record(b, w, i, ordinal + 1)
        /\ BucketOK(b) /\ ordinal + 1 \in Nat \ {0}
    BY MatchedBuckets DEF IInv
  <1> HIDE DEF b
  <1>2. QED
    BY <1>1, RecordDates DEF b

\* A matched frame disturbs one bucket of the current run.
LEMMA MatchedIInv ==
    ASSUME IInv, NEW a \in Aps, NEW w \in Wire, NEW i \in Idxs, Matched(a, w, i)
    PROVE  IInv'
  <1> DEFINE b == Record(buckets[runId][a], w, i, ordinal + 1)
  <1>1. /\ runId \in Runs /\ ordinal \in Nat
        /\ \A r \in Runs, x \in Aps :
               buckets'[r][x] = IF r = runId /\ x = a THEN b ELSE buckets[r][x]
        /\ BucketOK(b)
        /\ \A v \in Wire, j \in Idxs : b.got[v][j] \in
              {0, IF buckets[runId][a].got[v][j] = 0
                  THEN ordinal + 1 ELSE buckets[runId][a].got[v][j]}
    BY MatchedBuckets
  <1>2. buckets' = [buckets EXCEPT ![runId][a] = b] /\ ordinal' = ordinal + 1
        /\ UNCHANGED <<runOrder, runId, otherFrames>>
    BY DEF Matched
  <1> HIDE DEF b
  <1>3. TypeOK'
    BY <1>1, <1>2 DEF IInv, TypeOK, BucketOK
  <1>4. RunMemory'
    <2>1. CurrentRunHeld' /\ RunsBounded'
      BY <1>2 DEF IInv, RunMemory, CurrentRunHeld, RunsBounded
    <2>2. runId \in Range(runOrder)
      BY <1>1 DEF IInv, RunMemory, CurrentRunHeld, Matched
    <2>3. \A r \in Runs \ Range(runOrder) : buckets'[r] = buckets[r]
      BY <2>2, <1>1, <1>2 DEF IInv, TypeOK
    <2>4. DroppedRunsEmpty'
      BY <2>3, <1>2 DEF IInv, RunMemory, DroppedRunsEmpty
    <2>5. QED
      BY <2>1, <2>4 DEF RunMemory
  <1>5. ASSUME NEW r \in Runs, NEW x \in Aps
        PROVE  BucketOK(buckets'[r][x]) /\ DatedUpTo(buckets'[r][x], ordinal')
    <2>1. \A v \in Wire, j \in Idxs :
              buckets[r][x].got[v][j] \in Nat /\ buckets[r][x].got[v][j] <= ordinal
      BY DEF IInv, TypeOK, Buckets, DatedUpTo
    <2>2. QED
      BY <2>1, <1>1, <1>2 DEF IInv, DatedUpTo
  <1>6. QED
    BY <1>3, <1>4, <1>5 DEF IInv

LEMMA NextIInv == IInv /\ [Next]_vars => IInv'
  <1> SUFFICES ASSUME IInv, [Next]_vars PROVE IInv'
    OBVIOUS
  <1>1. ASSUME NEW r \in Runs, SetRun(r) PROVE IInv'
    BY <1>1, SetRunIInv
  <1>2. ASSUME NEW a \in Aps, NEW w \in Wire, NEW i \in Idxs, Matched(a, w, i) PROVE IInv'
    BY <1>2, MatchedIInv
  <1>3. CASE Unmatched
    BY <1>3 DEF Unmatched, IInv, TypeOK, RunMemory, CurrentRunHeld, RunsBounded, DroppedRunsEmpty
  <1>4. CASE UNCHANGED vars
    BY <1>4 DEF vars, IInv, TypeOK, RunMemory, CurrentRunHeld, RunsBounded, DroppedRunsEmpty
  <1>5. QED
    BY <1>1, <1>2, <1>3, <1>4 DEF Next

\* Every reachable state satisfies the inductive invariant.
THEOREM Inductive == Spec => []IInv
  BY InitIInv, NextIInv, PTL DEF Spec

\* The counters keep their shape, whatever is received and announced.
THEOREM TypeCorrect == Spec => []TypeOK
  <1>1. IInv => TypeOK
    BY DEF IInv
  <1>2. QED
    BY <1>1, Inductive, PTL

\* What a run is counted in is bounded and inherits nothing (set_run).
THEOREM RunMemoryHolds == Spec => []RunMemory
  <1>1. IInv => RunMemory
    BY DEF IInv
  <1>2. QED
    BY <1>1, Inductive, PTL

\* The listing of resident keys and the map it describes stay in step, and
\* the window is never exceeded (_evict).
THEOREM WindowBoundedHolds == Spec => []WindowBounded
  <1>1. IInv => WindowBounded
    BY DEF IInv, WindowBounded, BucketOK
  <1>2. QED
    BY <1>1, Inductive, PTL

\* Nothing matched so far passes a barrier set now (report).
THEOREM BarrierExcludesPastHolds == Spec => []BarrierExcludesPast
  <1>1. IInv => BarrierExcludesPast
    <2> SUFFICES ASSUME IInv, NEW r \in Runs, NEW a \in Aps, NEW lo \in Wire
                 PROVE  Fresh(buckets[r][a], lo, Modulus, ordinal) = {}
      BY DEF BarrierExcludesPast
    <2>1. \A x \in 0 .. Modulus - 1 : (lo + x) % Modulus \in Wire
      BY DEF Wire
    <2>2. WireRange(lo, Modulus) \subseteq Wire
      BY <2>1 DEF WireRange
    <2>3. \A v \in Wire, i \in Idxs : ~(buckets[r][a].got[v][i] > ordinal)
      BY DEF IInv, DatedUpTo, TypeOK, Buckets
    <2>4. QED
      BY <2>2, <2>3 DEF Fresh
  <1>2. QED
    BY <1>1, Inductive, PTL

\* The watermark covers all that was ever forgotten.
LEMMA FullForgotNothing == IInv => FullMeansNothingForgotten
  <1> SUFFICES ASSUME IInv, NEW r \in Runs, NEW a \in Aps, NEW lo \in Wire,
                      NEW n \in 1 .. Modulus - lo,
                      Coverage(buckets[r][a], lo, n) = "full"
               PROVE  WireRange(lo, n) \cap buckets[r][a].forgotten = {}
    BY DEF FullMeansNothingForgotten
  <1> DEFINE b == buckets[r][a]
  <1>1. b \in Buckets /\ Watermark(b)
    BY DEF IInv, BucketOK
  <1>2. b.evicted = NothingYet \/ lo > b.evicted
    BY DEF Coverage
  <1>3. ASSUME NEW v \in WireRange(lo, n) PROVE v >= lo /\ v \in Nat
    <2>1. PICK k \in 0 .. n - 1 : v = (lo + k) % Modulus
      BY <1>3 DEF WireRange
    <2>2. lo + k \in 0 .. Modulus - 1
      BY DEF Wire
    <2>3. QED
      BY <2>1, <2>2 DEF Wire
  <1> HIDE DEF b
  <1>4. ASSUME NEW v \in b.forgotten PROVE v <= b.evicted /\ v \in Nat
    BY <1>1 DEF Watermark, Buckets, Wire
  <1>5. b.evicted \in Int
    BY <1>1 DEF Buckets, NothingYet, Wire
  <1>6. WireRange(lo, n) \cap b.forgotten = {}
    BY <1>2, <1>3, <1>4, <1>5 DEF NothingYet, Wire
  <1>7. QED
    BY <1>6 DEF b

\* A range reported "full" has lost nothing: the promise that lets the
\* controller call a low count a loss (_coverage).
THEOREM FullMeansNothingForgottenHolds == Spec => []FullMeansNothingForgotten
  BY FullForgotNothing, Inductive, PTL

\* No observation is ever given a later ordinal than that of its first frame
\* (observe_parsed).
THEOREM NeverRedatedHolds == Spec => NeverRedated
  <1> DEFINE Keep == \A r \in Runs, a \in Aps, w \in Wire, i \in Idxs :
        (buckets[r][a].got[w][i] # 0 /\ buckets'[r][a].got[w][i] # 0) =>
        buckets'[r][a].got[w][i] = buckets[r][a].got[w][i]
  <1>1. IInv /\ Next => Keep
    <2> SUFFICES ASSUME IInv, Next PROVE Keep
      OBVIOUS
    <2>1. ASSUME NEW r \in Runs, SetRun(r) PROVE Keep
      <3>1. buckets \in [Runs -> [Aps -> Buckets]]
        BY DEF IInv, TypeOK
      <3>2. \/ buckets' = buckets
            \/ buckets' = [buckets EXCEPT ![Head(Append(runOrder, r))] =
                                [a \in Aps |-> EmptyBucket]]
        BY <2>1 DEF SetRun
      <3>3. \A q \in Runs, a \in Aps :
                buckets'[q][a] = buckets[q][a] \/ buckets'[q][a] = EmptyBucket
        BY <3>1, <3>2
      <3>4. \A w \in Wire, i \in Idxs : EmptyBucket.got[w][i] = 0
        BY DEF EmptyBucket
      <3>5. QED
        BY <3>3, <3>4
    <2>2. ASSUME NEW a \in Aps, NEW w \in Wire, NEW i \in Idxs, Matched(a, w, i) PROVE Keep
      BY <2>2, MatchedBuckets
    <2>3. CASE Unmatched
      BY <2>3 DEF Unmatched
    <2>4. QED
      BY <2>1, <2>2, <2>3 DEF Next
  <1>2. IInv /\ [Next]_vars => [Keep]_vars
    BY <1>1
  <1>3. QED
    BY <1>2, Inductive, PTL DEF Spec, NeverRedated

USE ShotsAssumption

---------------------------------------------------------------------------
(* Folding onto the wire field.                                            *)

\* Quotient and remainder.
LEMMA DivMod ==
    ASSUME NEW M \in Int, M > 0, NEW x \in Int
    PROVE  x = M * (x \div M) + (x % M) /\ x % M \in 0 .. M - 1 /\ x \div M \in Int
  <1>1. x % M \in 0 .. M - 1 /\ x \div M \in Int
    OBVIOUS
  <1>2. x = M * (x \div M) + (x % M)
    BY SMTT(60)
  <1>3. QED
    BY <1>1, <1>2

\* Equal quotients give equal remainders.
LEMMA SameRemainder ==
    ASSUME NEW M \in Nat \ {0}, NEW q \in Int, NEW r \in Int,
           NEW a \in 0 .. M - 1, NEW b \in 0 .. M - 1, M * q + a = M * r + b
    PROVE  a = b
  <1>1. q = r
    OBVIOUS
  <1>2. M * q = M * r /\ M * q \in Int /\ M * r \in Int
    BY <1>1
  <1>3. QED
    BY <1>2

\* Adding to a folded number and folding again is folding the sum.
LEMMA FoldSum ==
    ASSUME NEW M \in Nat \ {0}, NEW x \in Int, NEW y \in Int
    PROVE  ((x % M) + y) % M = (x + y) % M
  <1> DEFINE a == x % M
             b == x \div M
             c == (a + y) % M
             d == (a + y) \div M
             e == (x + y) % M
             f == (x + y) \div M
  <1>1. x = M * b + a /\ a \in Int /\ b \in Int
    BY DivMod
  <1>2. a + y = M * d + c /\ d \in Int /\ c \in 0 .. M - 1
    BY <1>1, DivMod
  <1>3. x + y = M * f + e /\ f \in Int /\ e \in 0 .. M - 1
    BY <1>1, DivMod
  <1> HIDE DEF a, b, c, d, e, f
  <1>4. M * (b + d) + c = M * f + e
    BY <1>1, <1>2, <1>3
  <1>5. c = e
    <2>1. b + d \in Int
      BY <1>1, <1>2
    <2>2. QED
      BY <2>1, <1>2, <1>3, <1>4, SameRemainder
  <1>6. QED
    BY <1>5 DEF c, e, a

\* A larger quotient is a whole lap further.
LEMMA LapFurther ==
    ASSUME NEW M \in Nat \ {0}, NEW q \in Int, NEW r \in Int, q > r
    PROVE  M * q >= M * r + M
  OBVIOUS

\* Two numbers less than a lap apart that fold together are equal.
LEMMA NoAlias ==
    ASSUME NEW M \in Nat \ {0}, NEW x \in Int, NEW y \in Int,
           x % M = y % M, x - y < M, y - x < M
    PROVE  x = y
  <1> DEFINE q == x \div M
             r == y \div M
             a == x % M
  <1>1. x = M * q + a /\ y = M * r + a /\ q \in Int /\ r \in Int /\ a \in Int
    BY DivMod
  <1> HIDE DEF q, r, a
  <1>2. M * q \in Int /\ M * r \in Int
    BY <1>1
  <1>3. ~(q > r)
    BY <1>1, <1>2, LapFurther
  <1>4. ~(r > q)
    BY <1>1, <1>2, LapFurther
  <1>5. QED
    BY <1>1, <1>3, <1>4

\* A folded number is a value of the field.
LEMMA Folded == \A x \in Int : OnWire(x) \in Wire
  <1>1. Modulus \in Int /\ Modulus > 0
    OBVIOUS
  <1>2. QED
    BY <1>1, DivMod DEF OnWire, Wire

---------------------------------------------------------------------------
(* The inductive invariant.                                                *)

\* A stored ordinal is that of a frame really heard under that key.
Grounded ==
    \A r \in Runs, a \in Aps, w \in Wire, i \in Idxs :
        buckets[r][a].got[w][i] # 0 =>
            \E h \in captured : /\ h.ap = a /\ h.at = buckets[r][a].got[w][i]
                                /\ OnWire(h.shot) = w /\ h.idx = i

\* The oldest shot a frame heard since the barrier can belong to.
Oldest == IF open THEN base - 2 * Repeats ELSE base - Repeats

Recent ==
    /\ \A h \in captured : h.shot < base + Repeats /\ (h.at > barrier => h.shot >= Oldest)
    /\ \A f \in flying : f.shot >= base - Repeats /\ f.shot < base + Repeats

\* What was captured of the round in progress passes its barrier, and is in
\* the bucket unless its key was pushed out.
Remembered ==
    open => \A h \in captured : h.shot >= base =>
        /\ h.at > barrier
        /\ LET b == buckets[runId][h.ap] w == OnWire(h.shot)
           IN  b.got[w][h.idx] # 0 \/ w \in b.forgotten

RInv ==
    /\ IInv
    /\ TypeOKRounds
    /\ nextSeq = base + Repeats \/ (nextSeq = 0 /\ base = 0 /\ ~open /\ flying = {} /\ captured = {})
    /\ open => runId # NoRun
    /\ barrier <= ordinal
    /\ \A h \in captured : h.at <= ordinal
    /\ Grounded
    /\ Recent
    /\ Remembered

\* Every step of the rounds is a step of the counters, or leaves them alone.
LEMMA CounterStep == TypeOKRounds /\ [NextRounds]_counterVars => [Next]_vars
  <1> SUFFICES ASSUME TypeOKRounds, [NextRounds]_counterVars PROVE [Next]_vars
    OBVIOUS
  <1>1. ASSUME NEW r \in Runs, StartRound(r) PROVE [Next]_vars
    BY <1>1 DEF StartRound, Next
  <1>2. ASSUME NEW f \in flying, Capture(f) PROVE [Next]_vars
    <2>1. f \in Frames
      BY DEF TypeOKRounds
    <2>2. OnWire(f.shot) \in Wire /\ f.idx \in Idxs /\ f.ap \in Aps
      BY <2>1, Folded DEF Frames
    <2>3. Matched(f.ap, OnWire(f.shot), f.idx)
      BY <1>2 DEF Capture
    <2>4. QED
      BY <2>2, <2>3 DEF Next
  <1>3. CASE Answer
    BY <1>3 DEF Answer
  <1>4. CASE UNCHANGED counterVars
    BY <1>4 DEF counterVars
  <1>5. QED
    BY <1>1, <1>2, <1>3, <1>4 DEF NextRounds

\* Commanding a round ages everything heard so far by one round.
LEMMA StartRoundRInv == ASSUME RInv, NEW r \in Runs, StartRound(r) PROVE RInv'
  <1>1. /\ nextSeq \in Nat /\ base \in Nat /\ barrier \in Nat /\ flying \subseteq Frames
        /\ captured \subseteq Captures
        /\ ~open /\ open' = TRUE /\ base' = nextSeq /\ nextSeq' = nextSeq + Repeats
        /\ UNCHANGED <<barrier, captured>>
        /\ flying' = {f \in flying : f.shot >= base}
                       \cup [ap : Aps, shot : base' .. base' + Repeats - 1, idx : Idxs]
    BY DEF RInv, TypeOKRounds, StartRound
  <1>2. IInv'
    BY CounterStep, NextIInv DEF RInv, NextRounds
  <1>3. ordinal' = ordinal /\ runId' = r
    BY DEF StartRound, SetRun
  <1>4. TypeOKRounds'
    <2>1. flying' \subseteq Frames
      BY <1>1 DEF Frames
    <2>2. QED
      BY <1>1, <1>2, <2>1 DEF TypeOKRounds, IInv
  <1>5. Grounded'
    <2>1. ASSUME NEW q \in Runs, NEW a \in Aps, NEW w \in Wire, NEW i \in Idxs,
                 buckets'[q][a].got[w][i] # 0
          PROVE  buckets'[q][a].got[w][i] = buckets[q][a].got[w][i]
      <3>1. buckets \in [Runs -> [Aps -> Buckets]]
        BY DEF RInv, IInv, TypeOK
      <3>2. \/ buckets' = buckets
            \/ buckets' = [buckets EXCEPT ![Head(Append(runOrder, r))] =
                                [x \in Aps |-> EmptyBucket]]
        BY DEF StartRound, SetRun
      <3>3. buckets'[q][a] = buckets[q][a] \/ buckets'[q][a] = EmptyBucket
        BY <3>1, <3>2
      <3>4. EmptyBucket.got[w][i] = 0
        BY DEF EmptyBucket
      <3>5. QED
        BY <2>1, <3>3, <3>4
    <2>2. QED
      BY <2>1, <1>1 DEF RInv, Grounded
  <1>6. \A h \in captured : h.shot < base'
    BY <1>1 DEF RInv, Recent, Captures
  <1>7. Recent'
    <2>1. ASSUME NEW h \in captured, h.at > barrier
          PROVE  h.shot >= base' - 2 * Repeats
      BY <2>1, <1>1 DEF RInv, Recent, Oldest, Captures
    <2>2. ASSUME NEW f \in flying'
          PROVE  f.shot >= base' - Repeats /\ f.shot < base' + Repeats
      <3>1. CASE f \in flying /\ f.shot >= base
        BY <3>1, <1>1 DEF RInv, Recent, Frames
      <3>2. CASE f \in [ap : Aps, shot : base' .. base' + Repeats - 1, idx : Idxs]
        BY <3>2, <1>1
      <3>3. QED
        BY <3>1, <3>2, <1>1
    <2>3. QED
      BY <2>1, <2>2, <1>1, <1>6 DEF Recent, Oldest, Captures
  <1>8. Remembered'
    BY <1>6, <1>1 DEF Remembered, Captures
  <1>9. QED
    BY <1>1, <1>2, <1>3, <1>4, <1>5, <1>7, <1>8 DEF RInv

\* A captured frame is heard under the ordinal it is stored at.
LEMMA CaptureRInv ==
    ASSUME RInv, NEW f \in flying, Capture(f)
    PROVE  RInv'
  <1> DEFINE w == OnWire(f.shot)
             new == [ap |-> f.ap, shot |-> f.shot, idx |-> f.idx, at |-> ordinal + 1]
  <1>1. /\ f \in Frames /\ w \in Wire /\ f.idx \in Idxs
        /\ barrier \in Nat /\ base \in Nat /\ nextSeq \in Nat
        /\ f.shot \in Nat /\ f.ap \in Aps
        /\ captured \subseteq Captures
    <2>1. f \in Frames
      BY DEF RInv, TypeOKRounds
    <2>2. QED
      BY <2>1, Folded DEF RInv, TypeOKRounds, Frames
  <1>2. /\ captured' = captured \cup {new} /\ flying' \subseteq flying
        /\ ordinal' = ordinal + 1 /\ ordinal \in Nat
        /\ UNCHANGED <<nextSeq, base, open, barrier, runId>>
    BY DEF Capture, Matched, RInv, IInv, TypeOK
  <1>3. IInv'
    BY CounterStep, NextIInv DEF RInv, NextRounds
  <1>4. new \in Captures
    BY <1>1, <1>2 DEF Frames, Captures
  <1>5. TypeOKRounds'
    BY <1>1, <1>2, <1>3, <1>4 DEF TypeOKRounds, IInv, RInv
  <1>6. Grounded'
    <2> SUFFICES ASSUME NEW r \in Runs, NEW x \in Aps, NEW v \in Wire, NEW i \in Idxs,
                        buckets'[r][x].got[v][i] # 0
                 PROVE  \E h \in captured' : /\ h.ap = x /\ h.at = buckets'[r][x].got[v][i]
                                            /\ OnWire(h.shot) = v /\ h.idx = i
      BY DEF Grounded
    <2>1. CASE buckets'[r][x].got[v][i] = buckets[r][x].got[v][i]
      BY <2>1, <1>2 DEF RInv, Grounded
    <2>2. CASE buckets'[r][x].got[v][i] # buckets[r][x].got[v][i]
      <3>1. x = f.ap /\ v = w /\ i = f.idx /\ buckets'[r][x].got[v][i] = ordinal + 1
        BY <2>2, <1>1, MatchedGot DEF Capture, RInv
      <3>2. /\ new \in captured' /\ new.at = ordinal + 1
            /\ new.ap = f.ap /\ new.shot = f.shot /\ new.idx = f.idx
        BY <1>2
      <3>3. QED
        BY <3>1, <3>2
    <2>3. QED
      BY <2>1, <2>2
  <1>7. Recent'
    <2>1. new.shot >= base - Repeats /\ new.shot < base + Repeats /\ Oldest <= base - Repeats
      BY <1>1 DEF RInv, Recent, Oldest
    <2>2. Oldest' = Oldest
      BY <1>2 DEF Oldest
    <2>3. Oldest \in Int
      BY <1>1 DEF Oldest
    <2>4. new.shot >= Oldest
      BY <2>1, <2>3, <1>1
    <2>5. QED
      BY <2>1, <2>2, <2>4, <1>1, <1>2 DEF RInv, Recent
  <1>8. /\ \A h \in captured' : h.at <= ordinal'
        /\ barrier' <= ordinal'
    BY <1>1, <1>2 DEF RInv, Captures
  <1>9. Remembered'
    <2> SUFFICES ASSUME open, NEW h \in captured', h.shot >= base
                 PROVE  /\ h.at > barrier
                        /\ \/ buckets'[runId][h.ap].got[OnWire(h.shot)][h.idx] # 0
                           \/ OnWire(h.shot) \in buckets'[runId][h.ap].forgotten
      BY <1>2 DEF Remembered
    <2> DEFINE b == buckets[runId][f.ap]
               d == Record(b, w, f.idx, ordinal + 1)
    <2>1. /\ runId \in Runs
          /\ \A x \in Aps : buckets'[runId][x] = IF x = f.ap THEN d ELSE buckets[runId][x]
          /\ BucketOK(b)
      BY <1>1, MatchedBuckets DEF Capture, RInv, IInv
    <2>2. /\ d.got[w][f.idx] # 0 /\ b.forgotten \subseteq d.forgotten
          /\ \A v \in Wire, j \in Idxs : b.got[v][j] # 0 =>
                 d.got[v][j] # 0 \/ v \in d.forgotten
      BY <2>1, <1>1, <1>2, RecordKeeps
    <2> HIDE DEF b, d
    <2>3. CASE h = new
      BY <2>1, <2>2, <2>3, <1>1, <1>2 DEF RInv
    <2>4. CASE h \in captured
      <3>1. h \in Captures /\ OnWire(h.shot) \in Wire
        BY <2>4, <1>1, Folded DEF Captures
      <3>2. /\ h.at > barrier
            /\ \/ buckets[runId][h.ap].got[OnWire(h.shot)][h.idx] # 0
               \/ OnWire(h.shot) \in buckets[runId][h.ap].forgotten
        BY <2>4 DEF RInv, Remembered
      <3>3. QED
        BY <3>1, <3>2, <2>1, <2>2 DEF b, Captures
    <2>5. QED
      BY <2>3, <2>4, <1>2
  <1>10. QED
    BY <1>2, <1>3, <1>5, <1>6, <1>7, <1>8, <1>9 DEF RInv

\* An answer moves the barrier to the counter's present ordinal.
LEMMA AnswerRInv == ASSUME RInv, Answer PROVE RInv'
  <1>1. /\ UNCHANGED <<vars, nextSeq, base, flying, captured>> /\ open' = FALSE /\ barrier' = ordinal
        /\ ordinal \in Nat
    BY DEF Answer, RInv, IInv, TypeOK
  <1>2. IInv'
    BY CounterStep, NextIInv DEF RInv, NextRounds
  <1>3. TypeOKRounds'
    BY <1>1, <1>2 DEF RInv, TypeOKRounds, IInv
  <1>4. Grounded'
    BY <1>1 DEF RInv, Grounded, vars
  <1>5. Recent'
    <2>1. \A h \in captured : ~(h.at > ordinal)
      BY <1>1 DEF RInv, TypeOKRounds, Captures
    <2>2. QED
      BY <1>1, <2>1 DEF RInv, Recent
  <1>6. QED
    BY <1>1, <1>2, <1>3, <1>4, <1>5 DEF RInv, Remembered, vars

LEMMA NextRInv == RInv /\ [NextRounds]_counterVars => RInv'
  <1> SUFFICES ASSUME RInv, [NextRounds]_counterVars PROVE RInv'
    OBVIOUS
  <1>1. CASE UNCHANGED counterVars
    <2>1. IInv'
      BY <1>1, NextIInv DEF RInv, counterVars
    <2>2. QED
      BY <1>1, <2>1 DEF counterVars, roundVars, vars, RInv, TypeOKRounds, IInv, Grounded, Recent,
                         Remembered, Oldest
  <1>2. QED
    BY <1>1, StartRoundRInv, CaptureRInv, AnswerRInv DEF NextRounds

LEMMA InitRInv == InitRounds => RInv
  <1> SUFFICES ASSUME InitRounds PROVE RInv
    OBVIOUS
  <1>1. IInv
    BY InitIInv DEF InitRounds
  <1>2. TypeOKRounds
    BY <1>1 DEF InitRounds, TypeOKRounds, IInv
  <1>3. Grounded
    BY DEF InitRounds, Init, Grounded, EmptyBucket
  <1>4. QED
    BY <1>1, <1>2, <1>3 DEF InitRounds, Init, RInv, Recent, Remembered, Oldest

\* The counters under rounds are counters: every theorem about Spec holds.
THEOREM RoundsImplementCounter == SpecRounds => Spec
  <1>1. InitRounds => Init
    BY DEF InitRounds
  <1>2. RInv => TypeOKRounds
    BY DEF RInv
  <1>3. QED
    BY <1>1, <1>2, InitRInv, NextRInv, CounterStep, PTL DEF SpecRounds, Spec

\* The invariant implies the property: whatever passes the barrier and folds
\* onto a value of this round belongs to this round.
LEMMA RInvInflated == RInv => NothingInflated
  <1> SUFFICES ASSUME RInv, open, NEW a \in Aps, NEW k \in Counted(a)
               PROVE  k \in TrulyCaptured(a)
    BY DEF NothingInflated
  <1>1. /\ runId \in Runs /\ base \in Nat /\ barrier \in Nat
        /\ captured \subseteq Captures
    BY DEF RInv, IInv, TypeOK, TypeOKRounds
  <1>2. /\ k[1] \in WireRange(OnWire(base), Repeats) /\ k[2] \in Idxs /\ k = <<k[1], k[2]>>
        /\ buckets[runId][a].got[k[1]][k[2]] > barrier
    BY DEF Counted, Fresh
  <1>3. PICK j \in 0 .. Repeats - 1 : k[1] = OnWire(base + j)
    <2>1. PICK j \in 0 .. Repeats - 1 : k[1] = (OnWire(base) + j) % Modulus
      BY <1>2 DEF WireRange
    <2>2. Modulus \in Nat \ {0} /\ base \in Int /\ j \in Int
      BY <1>1
    <2>3. QED
      BY <2>1, <2>2, FoldSum DEF OnWire
  <1>4. k[1] \in Wire
    BY <1>1, <1>3, Folded
  <1>5. PICK h \in captured : /\ h.ap = a /\ h.at = buckets[runId][a].got[k[1]][k[2]]
                           /\ OnWire(h.shot) = k[1]
                           /\ h.idx = k[2]
    BY <1>1, <1>2, <1>4 DEF RInv, Grounded
  <1>6. h.shot \in Nat /\ h.shot >= base - 2 * Repeats /\ h.shot < base + Repeats
    BY <1>1, <1>2, <1>5 DEF RInv, Recent, Oldest, Captures
  <1>7. h.shot = base + j
    <2>1. h.shot - (base + j) < Modulus /\ (base + j) - h.shot < Modulus
      <3>1. j \in Nat /\ j < Repeats /\ Repeats \in Nat /\ Modulus \in Nat /\ 3 * Repeats <= Modulus
        OBVIOUS
      <3>2. QED
        BY <1>1, <1>6, <3>1
    <2>2. h.shot % Modulus = (base + j) % Modulus
      BY <1>3, <1>5 DEF OnWire
    <2>3. Modulus \in Nat \ {0} /\ h.shot \in Int /\ base + j \in Int
      BY <1>1, <1>6
    <2>4. QED
      BY <2>1, <2>2, <2>3, NoAlias
  <1>8. h.shot \in ThisRound
    BY <1>1, <1>7 DEF ThisRound
  <1>9. QED
    BY <1>2, <1>5, <1>8 DEF TrulyCaptured, OfThisRound

\* No round is credited with a frame of another round, for every wire field,
\* window and round size the assumptions allow (SeqAllocator, report).
THEOREM NothingInflatedHolds == SpecRounds => []NothingInflated
  BY InitRInv, NextRInv, RInvInflated, PTL DEF SpecRounds

\* Before the wire field has folded, a value tells its shot.
LEMMA FirstLapShot ==
    ASSUME NEW x \in 0 .. Modulus - 1 PROVE OnWire(x) = x
  <1>1. Modulus \in Nat \ {0} /\ x \in Int /\ x % Modulus \in Int
    OBVIOUS
  <1>2. x = Modulus * (x \div Modulus) + (x % Modulus) /\ x \div Modulus \in Int
        /\ x % Modulus \in 0 .. Modulus - 1
    BY <1>1, DivMod
  <1>3. Modulus * 0 + x = Modulus * (x \div Modulus) + (x % Modulus)
    BY <1>2
  <1>4. x = x % Modulus
    BY <1>1, <1>2, <1>3, SameRemainder
  <1>5. QED
    BY <1>4 DEF OnWire

\* A subframe captured in the round in progress is in its bucket, dated by a
\* capture of that round, or coverage tells that its key was pushed out.
LEMMA RInvMissed == RInv => NothingMissed
  <1> SUFFICES ASSUME RInv, open, nextSeq <= Modulus, NEW a \in Aps,
                      RoundCoverage(a) = "full", NEW h \in OfThisRound(a)
               PROVE  <<OnWire(h.shot), h.idx>> \in Counted(a)
    BY DEF NothingMissed, TrulyCaptured
  <1> DEFINE b == buckets[runId][a]
             w == OnWire(h.shot)
  <1>1. /\ runId \in Runs /\ base \in Nat /\ barrier \in Nat /\ nextSeq = base + Repeats
        /\ captured \subseteq Captures /\ BucketOK(b)
    BY DEF RInv, IInv, TypeOK, TypeOKRounds
  <1>2. /\ h \in captured /\ h.ap = a /\ h.idx \in Idxs /\ h.shot \in Nat
        /\ h.shot >= base /\ h.shot < base + Repeats
    BY <1>1 DEF OfThisRound, ThisRound, Captures
  <1>3. /\ base \in 0 .. Modulus - 1 /\ h.shot \in 0 .. Modulus - 1
        /\ base + Repeats <= Modulus
    BY <1>1, <1>2
  <1>4. w = h.shot /\ w \in Wire /\ OnWire(base) = base
    BY <1>3, FirstLapShot DEF Wire
  <1> HIDE DEF w
  <1>5. w \in WireRange(base, Repeats)
    <2>1. h.shot - base \in 0 .. Repeats - 1 /\ base + (h.shot - base) = h.shot
      BY <1>1, <1>2
    <2>2. w = (base + (h.shot - base)) % Modulus
      BY <2>1 DEF w, OnWire
    <2>3. QED
      BY <2>1, <2>2 DEF WireRange
  <1>6. w \notin b.forgotten
    <2>1. Coverage(b, base, Repeats) = "full"
      BY <1>4 DEF RoundCoverage
    <2>2. b.evicted = NothingYet \/ base > b.evicted
      BY <2>1 DEF Coverage
    <2>3. \A v \in b.forgotten : v <= b.evicted /\ v \in Nat
      BY <1>1 DEF BucketOK, Watermark, Buckets, Wire
    <2>4. b.evicted \in Int
      BY <1>1 DEF BucketOK, Buckets, Wire, NothingYet
    <2> HIDE DEF b
    <2>5. QED
      BY <2>2, <2>3, <2>4, <1>1, <1>2, <1>4 DEF NothingYet
  <1>7. b.got[w][h.idx] # 0
    BY <1>2, <1>6 DEF RInv, Remembered, w
  <1>8. PICK g \in captured : /\ g.ap = a /\ g.at = b.got[w][h.idx]
                              /\ OnWire(g.shot) = w /\ g.idx = h.idx
    BY <1>1, <1>2, <1>4, <1>7 DEF RInv, Grounded
  <1>9. g.shot = h.shot
    <2>1. g.shot \in 0 .. Modulus - 1
      BY <1>1, <1>3, <1>8 DEF RInv, Recent, Captures
    <2>2. QED
      BY <2>1, <1>4, <1>8, FirstLapShot
  <1>10. b.got[w][h.idx] > barrier
    BY <1>2, <1>8, <1>9 DEF RInv, Remembered
  <1>11. QED
    BY <1>2, <1>4, <1>5, <1>10 DEF Counted, Fresh, w

\* Nothing matched of a round is missing from an answer of full coverage, for
\* every window, round size and wire field, as long as the field has not
\* folded (FrameCounter.report).
THEOREM NothingMissedHolds == SpecRounds => []NothingMissed
  BY InitRInv, NextRInv, RInvMissed, PTL DEF SpecRounds

\* The counters keep their shape under rounds.
THEOREM RoundsTypeCorrect == SpecRounds => []TypeOKRounds
  <1>1. RInv => TypeOKRounds
    BY DEF RInv
  <1>2. QED
    BY <1>1, InitRInv, NextRInv, PTL DEF SpecRounds

---------------------------------------------------------------------------
(* The rounds of several controllers.                                      *)

\* Transmitter a put the shot with this sequence number on air in r's round.
WasAired(r, a, s) ==
    \E f \in aired : IsFor(f, r) /\ f.ap = a /\ WireOf(f.batch, f.shot) = s

\* An answer that is kept is about the present round and tells the truth.
FiredWasAired ==
    \A r \in Runs, a \in Plan :
        status[r][a].given => \A s \in status[r][a].fired : WasAired(r, a, s)

Shapes ==
    /\ DOMAIN status = Runs /\ \A r \in Runs : DOMAIN status[r] = Plan
    /\ DOMAIN result = Runs /\ DOMAIN batch = Runs

DInv == Shapes /\ FiredWasAired /\ DenominatorWasConcurrent

\* A round's frames stay on record as long as the round is the present one.
LEMMA AiredGrows ==
    ASSUME DInv, aired \subseteq aired', UNCHANGED <<batch, result>>, Shapes',
           FiredWasAired'
    PROVE  DInv'
<1> SUFFICES ASSUME NEW r \in Runs, Measured(r)', NEW s \in result'[r].joint, NEW a \in Plan
             PROVE  \E f \in aired' : IsFor(f, r)' /\ f.ap = a /\ WireOf(f.batch, f.shot) = s
    BY DEF DInv, DenominatorWasConcurrent
<1>1. Measured(r) /\ s \in result[r].joint
    BY DEF Measured
<1>2. PICK f \in aired : IsFor(f, r) /\ f.ap = a /\ WireOf(f.batch, f.shot) = s
    BY <1>1 DEF DInv, DenominatorWasConcurrent
<1>3. IsFor(f, r)'
    BY <1>2 DEF IsFor, SameRound
<1> QED BY <1>2, <1>3

LEMMA StatusKept ==
    ASSUME DInv, aired \subseteq aired', UNCHANGED <<batch, status>>
    PROVE  FiredWasAired'
<1> SUFFICES ASSUME NEW r \in Runs, NEW a \in Plan, status[r][a].given,
                    NEW s \in status[r][a].fired
             PROVE  WasAired(r, a, s)'
    BY DEF FiredWasAired
<1>1. PICK f \in aired : IsFor(f, r) /\ f.ap = a /\ WireOf(f.batch, f.shot) = s
    BY DEF DInv, FiredWasAired, WasAired
<1>2. IsFor(f, r)'
    BY <1>1 DEF IsFor, SameRound
<1> QED BY <1>1, <1>2 DEF WasAired

\* Steps that leave the rounds, the answers and the record of frames alone.
LEMMA OtherSteps ==
    ASSUME DInv, aired' = aired, UNCHANGED <<batch, status, result>>
    PROVE  DInv'
<1>1. Shapes'
    BY DEF DInv, Shapes
<1> QED BY <1>1, StatusKept, AiredGrows

LEMMA CommandSteps ==
    ASSUME DInv, NEW r \in Runs, NEW reach, NEW toStation, Command(r, reach, toStation)
    PROVE  DInv'
<1>1. /\ status' = [status EXCEPT ![r] = [a \in Plan |-> NoStatus]]
      /\ result' = [result EXCEPT ![r] = NoResult]
      /\ batch' = [batch EXCEPT ![r] = @ + 1]
      /\ aired' = Forgotten(aired, r)
    BY DEF Command
<1>2. Shapes'
    BY <1>1 DEF DInv, Shapes
<1>3. /\ \A a \in Plan : status'[r][a] = NoStatus
      /\ result'[r] = NoResult
    BY <1>1 DEF DInv, Shapes
<1>4. ASSUME NEW q \in Runs, q # r
      PROVE  status'[q] = status[q] /\ result'[q] = result[q] /\ batch'[q] = batch[q]
    BY <1>1, <1>4 DEF DInv, Shapes
<1>5. ASSUME NEW q \in Runs, q # r, NEW a \in Plan, NEW s, WasAired(q, a, s)
      PROVE  WasAired(q, a, s)'
    <2>1. PICK f \in aired : IsFor(f, q) /\ f.ap = a /\ WireOf(f.batch, f.shot) = s
        BY <1>5 DEF WasAired
    <2>2. f.run = q /\ f.batch = batch[q]
        BY <2>1 DEF IsFor, SameRound
    <2>3. f \in aired'
        BY <1>1, <1>5, <2>2 DEF Forgotten
    <2>4. IsFor(f, q)'
        BY <1>4, <1>5, <2>2 DEF IsFor, SameRound
    <2> QED BY <2>1, <2>3, <2>4 DEF WasAired
<1>6. FiredWasAired'
    <2> SUFFICES ASSUME NEW q \in Runs, NEW a \in Plan, status'[q][a].given,
                        NEW s \in status'[q][a].fired
                 PROVE  WasAired(q, a, s)'
        BY DEF FiredWasAired
    <2>1. q # r
        BY <1>3 DEF NoStatus
    <2>2. WasAired(q, a, s)
        BY <1>4, <2>1 DEF DInv, FiredWasAired
    <2> QED BY <1>5, <2>1, <2>2
<1>7. DenominatorWasConcurrent'
    <2> SUFFICES ASSUME NEW q \in Runs, Measured(q)', NEW s \in result'[q].joint, NEW a \in Plan
                 PROVE  WasAired(q, a, s)'
        BY DEF DenominatorWasConcurrent, WasAired
    <2>1. q # r
        BY <1>3 DEF Measured, NoResult
    <2>2. WasAired(q, a, s)
        BY <1>4, <2>1 DEF DInv, DenominatorWasConcurrent, Measured, WasAired
    <2> QED BY <1>5, <2>1, <2>2
<1> QED BY <1>2, <1>6, <1>7 DEF DInv

LEMMA FireSteps ==
    ASSUME DInv, NEW a \in Plan, NEW x \in Firings, NEW reached \in SUBSET Runs,
           ApFire(a, x, reached)
    PROVE  DInv'
<1> DEFINE m == Head(apIn[a])
           shots == {WireOf(m.batch, s) : s \in x.fired}
           out == FramesOf(m.run, m.batch, a, x.out)
           said == [given |-> TRUE, run |-> m.run, batch |-> m.batch, fired |-> shots,
                    error |-> x.error, power |-> x.power]
<1>1. /\ aired' = IF IsFor(m, m.run) THEN aired \cup out ELSE aired
      /\ OnStatus(a, said, reached) /\ UNCHANGED <<batch, result>>
    BY DEF ApFire
<1>2. \A r \in Runs : status'[r] = IF r \in reached /\ m.run = r /\ m.batch = batch[r]
                                   THEN [status[r] EXCEPT ![a] = said] ELSE status[r]
    BY <1>1 DEF OnStatus, Mine
<1>3. Shapes'
    <2>1. DOMAIN status' = Runs
        BY <1>1 DEF OnStatus
    <2>2. \A r \in Runs : DOMAIN status'[r] = Plan
        BY <1>2 DEF DInv, Shapes
    <2> QED BY <1>1, <2>1, <2>2 DEF DInv, Shapes
<1>4. x.fired \subseteq x.out /\ x.out \subseteq Slots
    BY DEF Firings
<1>5. said.given /\ said.fired = shots
    OBVIOUS
<1>6. ASSUME NEW r \in Runs, m.run = r, m.batch = batch[r], NEW s \in x.fired,
             NEW w, w = WireOf(m.batch, s)
      PROVE  WasAired(r, a, w)'
    <2>1. [run |-> m.run, batch |-> m.batch, ap |-> a, shot |-> s, idx |-> 0] \in out
        BY <1>4, RoundAssumption DEF FramesOf
    <2> HIDE DEF m, said
    <2>2. PICK f \in out : f.run = m.run /\ f.batch = m.batch /\ f.ap = a /\ f.shot = s
        BY <2>1
    <2>3. IsFor(m, m.run)
        BY <1>6 DEF IsFor, SameRound
    <2> HIDE DEF out
    <2>4. f \in aired'
        BY <1>1, <2>2, <2>3
    <2>5. f.run = r /\ f.batch = batch'[r] /\ f.ap = a /\ WireOf(f.batch, f.shot) = w
        BY <1>1, <1>6, <2>2
    <2>6. IsFor(f, r)'
        BY <2>5 DEF IsFor, SameRound
    <2> QED BY <2>4, <2>5, <2>6 DEF WasAired
<1>7. ASSUME NEW q \in Runs, NEW b \in Plan, NEW s, WasAired(q, b, s)
      PROVE  WasAired(q, b, s)'
    <2>1. PICK f \in aired : IsFor(f, q) /\ f.ap = b /\ WireOf(f.batch, f.shot) = s
        BY <1>7 DEF WasAired
    <2>2. f \in aired' /\ IsFor(f, q)'
        BY <1>1, <2>1 DEF IsFor, SameRound
    <2> QED BY <2>1, <2>2 DEF WasAired
<1>8. FiredWasAired'
    <2> SUFFICES ASSUME NEW r \in Runs, NEW b \in Plan, status'[r][b].given,
                        NEW s \in status'[r][b].fired
                 PROVE  WasAired(r, b, s)'
        BY DEF FiredWasAired
    <2>1. CASE status'[r][b] = status[r][b]
        <3>1. WasAired(r, b, s)
            BY <2>1 DEF DInv, FiredWasAired
        <3> QED BY <1>7, <3>1
    <2>2. CASE status'[r][b] # status[r][b]
        <3>1. m.run = r /\ m.batch = batch[r] /\ b = a /\ status'[r][b] = said
            <4> HIDE DEF said, m
            <4> QED BY <1>2, <2>2 DEF DInv, Shapes
        <3>2. s \in shots
            BY <1>5, <3>1
        <3>3. PICK w \in x.fired : s = WireOf(m.batch, w)
            BY <3>2
        <3> HIDE DEF m, said
        <3> QED BY <1>6, <3>1, <3>3
    <2> QED BY <2>1, <2>2
<1>9. DenominatorWasConcurrent'
    <2> SUFFICES ASSUME NEW q \in Runs, Measured(q)', NEW s \in result'[q].joint, NEW b \in Plan
                 PROVE  WasAired(q, b, s)'
        BY DEF DenominatorWasConcurrent, WasAired
    <2>1. WasAired(q, b, s)
        BY <1>1 DEF DInv, DenominatorWasConcurrent, Measured, WasAired
    <2> QED BY <1>7, <2>1
<1> QED BY <1>3, <1>8, <1>9 DEF DInv

LEMMA CollectSteps == ASSUME DInv, NEW r \in Runs, Collect(r) PROVE DInv'
<1>1. /\ UNCHANGED <<batch, status, aired>>
      /\ Measured(r)' /\ result'[r].joint = JointSeqs(status[r], Plan)
      /\ \A q \in Runs : q # r => result'[q] = result[q]
      /\ DOMAIN result' = Runs
    BY DEF Collect, DInv, Shapes, Measured, airVars
<1>2. Shapes' /\ FiredWasAired'
    BY <1>1, StatusKept DEF DInv, Shapes
<1>3. DenominatorWasConcurrent'
    <2> SUFFICES ASSUME NEW q \in Runs, Measured(q)', NEW s \in result'[q].joint, NEW a \in Plan
                 PROVE  WasAired(q, a, s)'
        BY DEF DenominatorWasConcurrent, WasAired
    <2>1. CASE q = r
        <3>1. status[r][a].given /\ s \in status[r][a].fired
            BY <1>1, <2>1 DEF JointSeqs
        <3>2. WasAired(r, a, s)
            BY <3>1 DEF DInv, FiredWasAired
        <3> QED BY <1>1, <2>1, <3>2 DEF WasAired, IsFor, SameRound
    <2>2. CASE q # r
        <3>1. WasAired(q, a, s)
            BY <1>1, <2>2 DEF DInv, DenominatorWasConcurrent, Measured, WasAired
        <3> QED BY <1>1, <3>1 DEF WasAired, IsFor, SameRound
    <2> QED BY <2>1, <2>2
<1> QED BY <1>2, <1>3 DEF DInv

LEMMA TimeoutSteps == ASSUME DInv, NEW r \in Runs, Timeout(r) PROVE DInv'
<1>1. /\ UNCHANGED <<batch, status, aired>>
      /\ result' = [result EXCEPT ![r] = NodeMissing]
    BY DEF Timeout, airVars
<1>2. Shapes' /\ FiredWasAired'
    BY <1>1, StatusKept DEF DInv, Shapes
<1>3. ~Measured(r)' /\ \A q \in Runs : q # r => result'[q] = result[q]
    BY <1>1 DEF DInv, Shapes, Measured, NodeMissing
<1>4. DenominatorWasConcurrent'
    <2> SUFFICES ASSUME NEW q \in Runs, Measured(q)', NEW s \in result'[q].joint, NEW a \in Plan
                 PROVE  WasAired(q, a, s)'
        BY DEF DenominatorWasConcurrent, WasAired
    <2>1. WasAired(q, a, s)
        BY <1>3 DEF DInv, DenominatorWasConcurrent, Measured, WasAired
    <2> QED BY <1>1, <2>1 DEF WasAired, IsFor, SameRound
<1> QED BY <1>2, <1>4 DEF DInv

\* The shots a delivery is divided by were put on air by every transmitter of
\* the plan, in that very round (Session.run, _on_status, joint_seqs).
THEOREM DenominatorWasConcurrentHolds == SpecRound => []DenominatorWasConcurrent
<1>1. InitRound => DInv
    BY DEF InitRound, DInv, Shapes, FiredWasAired, DenominatorWasConcurrent, NoStatus, Measured,
           NoResult
<1>2. DInv /\ [NextRound]_allVars => DInv'
    <2> SUFFICES ASSUME DInv, [NextRound]_allVars PROVE DInv'
        OBVIOUS
    <2>1. CASE \E r \in Runs, reach \in SUBSET Plan, toStation \in BOOLEAN :
                  Command(r, reach, toStation)
        BY <2>1, CommandSteps
    <2>2. CASE Controllers
        BY <2>2, CollectSteps, TimeoutSteps DEF Controllers
    <2>3. CASE \E a \in Plan, x \in Firings, reached \in {{}, Runs} : ApFire(a, x, reached)
        BY <2>3, FireSteps
    <2>4. CASE \/ Take \/ HearOther \/ StationReset \/ StationRestart
               \/ \E reached \in {{}, Runs} : StationAnswer(reached) \/ StationFails(reached)
               \/ \E f \in air : Hear(f) \/ Lose(f)
               \/ UNCHANGED allVars
        <3>1. UNCHANGED <<batch, status, result, aired>>
            BY <2>4 DEF Take, HearOther, StationReset, StationRestart, StationAnswer,
                        StationFails, Publish, Hear, Lose, allVars, sessionVars, airVars
        <3> QED BY <3>1, OtherSteps
    <2> QED BY <2>1, <2>2, <2>3, <2>4 DEF NextRound, Nodes
<1>3. DInv => DenominatorWasConcurrent
    BY DEF DInv
<1> QED BY <1>1, <1>2, <1>3, PTL DEF SpecRound

---------------------------------------------------------------------------
(* The barrier.                                                            *)

BInv ==
    /\ since \in [Runs -> Nat] /\ known \in [Runs -> Nat]
    /\ ordinal \in Nat /\ epoch \in Nat \ {0} /\ resets \in Nat
    /\ \A r \in Runs : known[r] <= epoch
    /\ BarrierHeals

\* A report from the instance that runs, whatever its ordinal.
LEMMA ReportSteps ==
    ASSUME BInv, NEW m, NEW reached, OnReport(m, reached), m.epoch = epoch,
           m.ordinal \in {0, ordinal}, UNCHANGED <<ordinal, epoch, resets>>
    PROVE  BInv'
<1>1. /\ since' = [r \in Runs |-> IF r \in reached /\ Mine(m, r) THEN Barrier(m, r) ELSE since[r]]
      /\ known' = [r \in Runs |-> IF r \in reached /\ Mine(m, r) THEN m.epoch ELSE known[r]]
    BY DEF OnReport
<1>2. \A r \in Runs : Barrier(m, r) \in {0, m.ordinal}
    BY DEF Barrier
<1>3. \A r \in Runs : Barrier(m, r) \in Nat /\ Barrier(m, r) <= ordinal
    BY <1>2 DEF BInv
<1> QED BY <1>1, <1>3 DEF BInv, BarrierHeals

LEMMA InitBInv == InitRound => BInv
BY DEF InitRound, Init, BInv, BarrierHeals

LEMMA NextBInv == ASSUME MaxResets = 0, BInv, [NextRound]_allVars PROVE BInv'
<1>1. CASE \E reached \in {{}, Runs} : StationAnswer(reached)
    <2>1. PICK reached \in {{}, Runs} : StationAnswer(reached)
        BY <1>1
    <2> DEFINE m == [given |-> TRUE, run |-> job.run, batch |-> job.batch, error |-> "none",
            epoch |-> epoch, ordinal |-> ordinal, alive |-> otherFrames # job.other,
            watching |-> Aps, fresh |-> [a \in Aps |-> FreshNow(a)],
            coverage |-> [a \in Aps |-> Coverage(buckets[runId][a],
                                                 SeqBase(job.batch), Shots)]]
    <2>2. OnReport(m, reached) /\ UNCHANGED <<ordinal, epoch, resets>>
        BY <2>1 DEF StationAnswer, Publish, vars
    <2>3. m.epoch = epoch /\ m.ordinal = ordinal
        OBVIOUS
    <2> HIDE DEF m
    <2> QED BY <2>2, <2>3, ReportSteps
<1>2. CASE \E reached \in {{}, Runs} : StationFails(reached)
    <2>1. PICK reached \in {{}, Runs} : StationFails(reached)
        BY <1>2
    <2> DEFINE m == [given |-> TRUE, run |-> job.run, batch |-> job.batch, error |-> "failed",
            epoch |-> epoch, ordinal |-> 0, alive |-> FALSE, watching |-> {},
            fresh |-> [a \in Aps |-> {}], coverage |-> [a \in Aps |-> "full"]]
    <2>2. OnReport(m, reached) /\ UNCHANGED <<ordinal, epoch, resets>>
        BY <2>1 DEF StationFails, Publish, vars
    <2>3. m.epoch = epoch /\ m.ordinal = 0
        OBVIOUS
    <2> HIDE DEF m
    <2> QED BY <2>2, <2>3, ReportSteps
<1>3. CASE StationRestart
    BY <1>3 DEF StationRestart, CounterAnew, sessionVars, BInv, BarrierHeals
<1>4. CASE StationReset
    BY <1>4 DEF StationReset, BInv
<1>5. CASE \E f \in air : Hear(f)
    <2>1. ordinal' \in {ordinal, ordinal + 1} /\ UNCHANGED <<since, known, epoch, resets>>
        BY <1>5 DEF Hear, Matched, Unmatched, sessionVars, stationVars
    <2> QED BY <2>1 DEF BInv, BarrierHeals
<1>6. CASE \/ Take \/ HearOther \/ Controllers
           \/ \E f \in air : Lose(f)
           \/ \E a \in Plan, x \in Firings, reached \in {{}, Runs} : ApFire(a, x, reached)
           \/ \E r \in Runs, reach \in SUBSET Plan, toStation \in BOOLEAN :
                 Command(r, reach, toStation)
           \/ UNCHANGED allVars
    <2>1. UNCHANGED <<since, known, ordinal, epoch, resets>>
        BY <1>6 DEF Take, SetRun, HearOther, Unmatched, Controllers, Collect, Timeout, Lose,
                    ApFire, Command, allVars, vars, sessionVars, stationVars
    <2> QED BY <2>1 DEF BInv, BarrierHeals
<1> QED BY <1>1, <1>2, <1>3, <1>4, <1>5, <1>6 DEF NextRound, Nodes

\* Unless the receiver is reset under its controllers, a barrier taken from
\* the instance that runs never lies ahead of it: after a restart a stale one
\* lasts one round (_on_report).
THEOREM BarrierHealsHolds == ASSUME MaxResets = 0 PROVE SpecRound => []BarrierHeals
<1>1. BInv /\ [NextRound]_allVars => BInv'
    BY NextBInv
<1>2. BInv => BarrierHeals
    BY DEF BInv
<1> QED BY <1>1, <1>2, InitBInv, PTL DEF SpecRound

---------------------------------------------------------------------------
(* What a link is credited with, for a controller whose numbers have not   *)
(* come round again: a stored frame's key then tells the round it belongs  *)
(* to.                                                                     *)

FirstLap == MaxRounds * Shots <= Modulus

Number(b, s) == (b - 1) * Shots + s

\* On the first lap nothing is folded.
LEMMA Unfolded ==
    ASSUME FirstLap, NEW b \in 1 .. MaxRounds, NEW s \in Slots
    PROVE  /\ SeqBase(b) = Number(b, 0) /\ WireOf(b, s) = Number(b, s)
           /\ Number(b, s) \in Wire
<1>1. /\ Shots \in Nat \ {0} /\ MaxRounds \in Nat /\ Modulus \in Nat /\ Modulus > 0
      /\ b \in Nat \ {0} /\ b <= MaxRounds /\ s \in Nat /\ s < Shots
    BY RoundAssumption, ModulusAssumption DEF Slots
<1> DEFINE before == (b - 1) * Shots
           behind == (MaxRounds - b) * Shots
<1>2. before \in Nat /\ behind \in Nat
    BY <1>1
<1>3. MaxRounds * Shots = before + Shots + behind
    BY <1>1
<1> HIDE DEF behind
<1>4. before + s \in 0 .. Modulus - 1 /\ before \in 0 .. Modulus - 1
    BY <1>1, <1>2, <1>3 DEF FirstLap
<1>5. \A x \in 0 .. Modulus - 1 : x % Modulus = x
    BY <1>1
<1>6. before = SeqBase(b)
    BY <1>4, <1>5 DEF SeqBase
<1>7. WireOf(b, s) = before + s
    BY <1>4, <1>5, <1>6 DEF WireOf
<1>8. before + s = Number(b, s) /\ before = Number(b, 0)
    <2>1. before = (b - 1) * Shots
        OBVIOUS
    <2> HIDE DEF before
    <2> QED BY <1>2, <2>1 DEF Number
<1> QED BY <1>4, <1>6, <1>7, <1>8 DEF Wire

\* A number tells the round and the shot.
LEMMA NumberTells ==
    ASSUME NEW b \in Nat, NEW c \in Nat, NEW s \in Slots, NEW t \in Slots,
           Number(b, s) = Number(c, t)
    PROVE  b = c
<1>1. Shots \in Nat /\ s \in 0 .. Shots - 1 /\ t \in 0 .. Shots - 1
    BY RoundAssumption DEF Slots
<1>2. ASSUME NEW x \in Nat, NEW y \in Nat, x < y
      PROVE  (y - 1) * Shots >= (x - 1) * Shots + Shots
    <2>1. (y - 1) * Shots = (x - 1) * Shots + Shots + (y - 1 - x) * Shots
        BY <1>1
    <2>2. (y - 1 - x) * Shots \in Nat /\ (x - 1) * Shots \in Int
        BY <1>1, <1>2
    <2> QED BY <1>1, <2>1, <2>2
<1>3. (b - 1) * Shots + s = (c - 1) * Shots + t
    BY DEF Number
<1>4. (b - 1) * Shots \in Int /\ (c - 1) * Shots \in Int
    BY <1>1
<1>5. ~(b < c)
    BY <1>1, <1>2, <1>3, <1>4
<1>6. ~(c < b)
    BY <1>1, <1>2, <1>3, <1>4
<1> QED BY <1>5, <1>6

\* The receiver captured a frame of r's present round under this key.
WasHeard(r, a, k) == \E f \in heard : IsFor(f, r) /\ f.ap = a /\ Key(f) = k

Commanded(m) == m.run \in Runs /\ m.batch \in 1 .. batch[m.run]

NTypes ==
    /\ batch \in [Runs -> 0 .. MaxRounds] /\ since \in [Runs -> Nat]
    /\ DOMAIN report = Runs /\ DOMAIN result = Runs
    /\ apIn \in [Plan -> Seq(Commands)] /\ staIn \in Seq(Commands)

\* Whatever travels or is worked on belongs to a round that was commanded.
AllCommanded ==
    /\ \A a \in Plan : \A i \in 1 .. Len(apIn[a]) : Commanded(apIn[a][i])
    /\ \A i \in 1 .. Len(staIn) : Commanded(staIn[i])
    /\ job.active => Commanded(job) /\ job.run = runId /\ job.since \in Nat
    /\ \A f \in air : Commanded(f) /\ f.ap \in Aps /\ f.shot \in Slots /\ f.idx \in Idxs

\* No frame is heard under the run of another controller.
OwnAir == \A f \in air : runId \in {NoRun, f.run}

\* What is stored is of an earlier round, or was heard in this one.
Stored ==
    \A r \in Runs, a \in Aps, w \in Wire, i \in Idxs :
        buckets[r][a].got[w][i] # 0 =>
            \E b \in 1 .. batch[r], s \in Slots :
                WireOf(b, s) = w /\ (b = batch[r] => WasHeard(r, a, <<w, i>>))

Reported ==
    \A r \in Runs, a \in Aps :
        report[r].given => \A k \in report[r].fresh[a] : WasHeard(r, a, k)

Credited ==
    \A r \in Runs, a \in Aps :
        Measured(r) => \A k \in result[r].counted[a] :
                           WasHeard(r, a, k) /\ k[1] \in result[r].joint

NInv == IInv /\ NTypes /\ AllCommanded /\ Stored /\ Reported /\ Credited

---------------------------------------------------------------------------
(* Steps that hear nothing and command nothing.                            *)

LEMMA HeardKept ==
    ASSUME heard \subseteq heard', batch' = batch, NEW r, NEW a, NEW k, WasHeard(r, a, k)
    PROVE  WasHeard(r, a, k)'
<1>1. PICK f \in heard : IsFor(f, r) /\ f.ap = a /\ Key(f) = k
    BY DEF WasHeard
<1>2. IsFor(f, r)'
    BY <1>1 DEF IsFor, SameRound
<1> QED BY <1>1, <1>2 DEF WasHeard, Key, WireOf, SeqBase

LEMMA StoredKept ==
    ASSUME Stored, heard \subseteq heard', batch' = batch,
           NEW r \in Runs, NEW a \in Aps, NEW w \in Wire, NEW i \in Idxs,
           buckets[r][a].got[w][i] # 0
    PROVE  \E b \in 1 .. batch'[r], s \in Slots :
               WireOf(b, s) = w /\ (b = batch'[r] => WasHeard(r, a, <<w, i>>)')
<1>1. PICK b \in 1 .. batch[r], s \in Slots :
          WireOf(b, s) = w /\ (b = batch[r] => WasHeard(r, a, <<w, i>>))
    BY DEF Stored
<1>2. WasHeard(r, a, <<w, i>>) => WasHeard(r, a, <<w, i>>)'
    BY HeardKept
<1> QED BY <1>1, <1>2

LEMMA ReportedKept ==
    ASSUME Reported, heard \subseteq heard', UNCHANGED <<batch, report>>
    PROVE  Reported'
<1> SUFFICES ASSUME NEW r \in Runs, NEW a \in Aps, report[r].given, NEW k \in report[r].fresh[a]
             PROVE  WasHeard(r, a, k)'
    BY DEF Reported
<1> QED BY HeardKept DEF Reported

LEMMA CreditedKept ==
    ASSUME Credited, heard \subseteq heard', UNCHANGED <<batch, result>>
    PROVE  Credited'
<1> SUFFICES ASSUME NEW r \in Runs, NEW a \in Aps, Measured(r), NEW k \in result[r].counted[a]
             PROVE  WasHeard(r, a, k)' /\ k[1] \in result[r].joint
    BY DEF Credited, Measured
<1> QED BY HeardKept DEF Credited

LEMMA QuietSteps ==
    ASSUME NInv, IInv', NTypes', AllCommanded', heard \subseteq heard',
           UNCHANGED <<batch, report, result>>,
           \A r \in Runs, a \in Aps, w \in Wire, i \in Idxs :
               buckets'[r][a].got[w][i] # 0 => buckets[r][a].got[w][i] # 0
    PROVE  NInv'
<1>1. Reported' /\ Credited'
    BY ReportedKept, CreditedKept DEF NInv
<1>2. Stored'
    <2> SUFFICES ASSUME NEW r \in Runs, NEW a \in Aps, NEW w \in Wire, NEW i \in Idxs,
                        buckets'[r][a].got[w][i] # 0
                 PROVE  \E b \in 1 .. batch'[r], s \in Slots :
                            WireOf(b, s) = w /\ (b = batch'[r] => WasHeard(r, a, <<w, i>>)')
        BY DEF Stored, WireOf, SeqBase, Slots
    <2> QED BY StoredKept DEF NInv
<1> QED BY <1>1, <1>2 DEF NInv

LEMMA StillCommanded ==
    ASSUME batch' = batch
    PROVE  \A m : Commanded(m) => Commanded(m)'
BY DEF Commanded

\* A receiver's counters that begin anew.
LEMMA AnewIInv == CounterAnew => IInv'
<1>1. Init' => IInv'
    BY InitIInv, PTL
<1>2. CounterAnew => Init'
    BY DEF CounterAnew, Init
<1> QED BY <1>1, <1>2

LEMMA AnewSteps == ASSUME NInv, StationReset \/ StationRestart PROVE NInv'
<1>1. CounterAnew /\ UNCHANGED <<batch, since, report, result, apIn, air, heard>>
    BY DEF StationReset, StationRestart, sessionVars, airVars
<1>2. IInv'
    BY <1>1, AnewIInv
<1>3. ~job'.active /\ (staIn' = <<>> \/ staIn' = staIn)
    BY DEF StationReset, StationRestart, NoJob
<1>4. NTypes'
    <2>1. staIn' \in Seq(Commands)
        <3>1. <<>> \in Seq(Commands) /\ staIn \in Seq(Commands)
            BY DEF NInv, NTypes
        <3> QED BY <1>3, <3>1
    <2> QED BY <1>1, <2>1 DEF NInv, NTypes
<1>5. AllCommanded'
    <2>1. \A i \in 1 .. Len(staIn') : Commanded(staIn'[i])
        BY <1>3 DEF NInv, AllCommanded
    <2> QED BY <1>1, <1>3, <2>1, StillCommanded DEF NInv, AllCommanded
<1>6. \A r \in Runs, a \in Aps, w \in Wire, i \in Idxs : buckets'[r][a].got[w][i] = 0
    BY <1>1 DEF CounterAnew, EmptyBucket
<1> QED BY <1>1, <1>2, <1>4, <1>5, <1>6, QuietSteps

\* The receiver, the controllers' memory of it and the counters are left alone.
LEMMA UnmatchedSteps ==
    ASSUME NInv, [Next]_vars, UNCHANGED <<batch, since, report, result, apIn, staIn, job, heard, runId, buckets>>,
           air' \subseteq air
    PROVE  NInv'
<1>1. IInv'
    BY NextIInv DEF NInv
<1>2. NTypes' /\ AllCommanded'
    BY StillCommanded DEF NInv, NTypes, AllCommanded
<1> QED BY <1>1, <1>2, QuietSteps

LEMMA FireKeeps ==
    ASSUME NInv, NEW a \in Plan, NEW x \in Firings, NEW reached, ApFire(a, x, reached)
    PROVE  NInv'
<1> DEFINE m == Head(apIn[a])
           out == FramesOf(m.run, m.batch, a, x.out)
<1>1. /\ apIn[a] # <<>> /\ apIn' = [apIn EXCEPT ![a] = Tail(@)]
      /\ air' = IF a \in Aps THEN air \cup out ELSE air
      /\ UNCHANGED <<vars, batch, since, report, result, staIn, job, heard>>
    BY DEF ApFire, stationVars
<1>2. apIn[a] \in Seq(Commands) /\ Len(apIn[a]) \in Nat \ {0} /\ m = apIn[a][1]
    BY <1>1 DEF NInv, NTypes
<1>3. Commanded(m)
    BY <1>2 DEF NInv, AllCommanded
<1>4. IInv'
    BY <1>1, NextIInv DEF NInv
<1>5. NTypes'
    BY <1>1, <1>2 DEF NInv, NTypes
<1>6. AllCommanded'
    <2>1. \A b \in Plan : \A i \in 1 .. Len(apIn'[b]) : Commanded(apIn'[b][i])
        <3> SUFFICES ASSUME NEW b \in Plan, NEW i \in 1 .. Len(apIn'[b])
                     PROVE  Commanded(apIn'[b][i])
            OBVIOUS
        <3>1. CASE b = a
            <4>1. apIn'[b] = Tail(apIn[a])
                BY <1>1, <3>1 DEF NInv, NTypes
            <4>2. i + 1 \in 1 .. Len(apIn[a]) /\ apIn'[b][i] = apIn[a][i + 1]
                BY <1>2, <4>1
            <4> QED BY <4>2 DEF NInv, AllCommanded
        <3>2. CASE b # a
            <4>1. apIn'[b] = apIn[b]
                BY <1>1, <3>2 DEF NInv, NTypes
            <4> QED BY <4>1 DEF NInv, AllCommanded
        <3> QED BY <3>1, <3>2
    <2>2. ASSUME NEW f \in air'
          PROVE  Commanded(f) /\ f.ap \in Aps /\ f.shot \in Slots /\ f.idx \in Idxs
        <3>1. CASE f \in air
            BY <3>1 DEF NInv, AllCommanded
        <3>2. CASE a \in Aps /\ f \in out
            <4> HIDE DEF m
            <4> QED BY <1>3, <3>2 DEF FramesOf, Commanded, Firings
        <3> QED BY <1>1, <3>1, <3>2
    <2> QED BY <1>1, <2>1, <2>2, StillCommanded DEF NInv, AllCommanded, vars
<1> QED BY <1>1, <1>4, <1>5, <1>6, QuietSteps DEF vars

LEMMA TakeKeeps == ASSUME NInv, Take PROVE NInv'
<1> DEFINE m == Head(staIn)
<1>1. /\ SetRun(m.run) /\ staIn # <<>> /\ staIn' = Tail(staIn)
      /\ job' = [active |-> TRUE, run |-> m.run, batch |-> m.batch,
                 since |-> m.since, other |-> otherFrames]
      /\ UNCHANGED <<batch, since, report, result, apIn, air, heard>>
    BY DEF Take, sessionVars, airVars
<1>2. Len(staIn) \in Nat \ {0} /\ m = staIn[1] /\ m \in Commands /\ staIn' \in Seq(Commands)
    BY <1>1 DEF NInv, NTypes
<1>3. Commanded(m) /\ m.since \in Nat /\ m.run \in Runs
    BY <1>2 DEF NInv, AllCommanded, Commands
<1>4. IInv'
    <2> HIDE DEF m
    <2> QED BY <1>1, <1>3, SetRunIInv DEF NInv
<1>5. NTypes'
    BY <1>1, <1>2 DEF NInv, NTypes
<1>6. AllCommanded'
    <2>1. \A i \in 1 .. Len(staIn') : Commanded(staIn'[i])
        <3> SUFFICES ASSUME NEW i \in 1 .. Len(staIn') PROVE Commanded(staIn'[i])
            OBVIOUS
        <3>1. i + 1 \in 1 .. Len(staIn) /\ staIn'[i] = staIn[i + 1]
            BY <1>1, <1>2 DEF NInv, NTypes
        <3> QED BY <3>1 DEF NInv, AllCommanded
    <2>2. Commanded(job') /\ job'.run = runId' /\ job'.since \in Nat
        <3> HIDE DEF m
        <3> QED BY <1>1, <1>3 DEF SetRun, Commanded
    <2> QED BY <1>1, <2>1, <2>2, StillCommanded DEF NInv, AllCommanded
<1>7. ASSUME NEW r \in Runs, NEW a \in Aps, NEW w \in Wire, NEW i \in Idxs,
             buckets'[r][a].got[w][i] # 0
      PROVE  buckets[r][a].got[w][i] # 0
    <2>1. buckets'[r] \in {buckets[r], [x \in Aps |-> EmptyBucket]}
        BY <1>1 DEF SetRun, NInv, IInv, TypeOK
    <2>2. EmptyBucket.got[w][i] = 0
        BY DEF EmptyBucket
    <2> QED BY <1>7, <2>1, <2>2
<1> QED BY <1>1, <1>4, <1>5, <1>6, <1>7, QuietSteps

---------------------------------------------------------------------------
(* Hearing, commanding, answering, collecting.                             *)

LEMMA HearKeeps ==
    ASSUME OwnAir, FirstLap, NInv, NEW f \in air, Hear(f)
    PROVE  NInv'
<1>1. /\ IF runId = NoRun THEN Unmatched ELSE Matched(f.ap, Key(f)[1], f.idx)
      /\ air' = air \ {f}
      /\ heard' = IF IsFor(f, f.run) THEN heard \cup {f} ELSE heard
      /\ UNCHANGED <<batch, since, report, result, apIn, staIn, job>>
    BY DEF Hear, Captured, sessionVars, stationVars
<1>2. heard \subseteq heard' /\ air' \subseteq air
    BY <1>1
<1>3. /\ f.run \in Runs /\ f.batch \in 1 .. batch[f.run]
      /\ f.ap \in Aps /\ f.shot \in Slots /\ f.idx \in Idxs
    BY DEF NInv, AllCommanded, Commanded
<1>4. f.batch \in 1 .. MaxRounds
    BY <1>3, RoundAssumption DEF NInv, NTypes
<1> DEFINE w == WireOf(f.batch, f.shot)
<1>5. Key(f) = <<w, f.idx>> /\ Key(f)[1] = w /\ w \in Wire
    BY <1>3, <1>4, Unfolded DEF Key
<1> HIDE DEF w
<1>6. [Next]_vars
    BY <1>1, <1>3, <1>5 DEF Next
<1>7. IInv'
    BY <1>6, NextIInv DEF NInv
<1>8. NTypes' /\ AllCommanded'
    <2>1. runId' = runId
        BY <1>1 DEF Unmatched, Matched
    <2> QED BY <1>1, <1>2, <2>1, StillCommanded DEF NInv, NTypes, AllCommanded
<1>9. CASE runId = NoRun
    <2>1. buckets' = buckets
        BY <1>1, <1>9 DEF Unmatched
    <2> QED BY <1>1, <1>2, <1>7, <1>8, <2>1, QuietSteps
<1>10. CASE runId # NoRun
    <2>1. Matched(f.ap, w, f.idx)
        BY <1>1, <1>5, <1>10
    <2>2. Stored'
        <3> SUFFICES ASSUME NEW r \in Runs, NEW a \in Aps, NEW v \in Wire, NEW j \in Idxs,
                            buckets'[r][a].got[v][j] # 0
                     PROVE  \E b \in 1 .. batch'[r], s \in Slots :
                                WireOf(b, s) = v /\ (b = batch'[r] => WasHeard(r, a, <<v, j>>)')
            BY DEF Stored, WireOf, SeqBase, Slots
        <3>1. CASE buckets[r][a].got[v][j] # 0
            BY <1>1, <1>2, <3>1, StoredKept DEF NInv
        <3>2. CASE buckets[r][a].got[v][j] = 0
            <4>1. v = w /\ j = f.idx
                BY <1>3, <1>5, <2>1, <3>2, MatchedGot DEF NInv
            <4>2. a = f.ap
                BY <1>3, <1>5, <2>1, <3>2, MatchedBuckets DEF NInv
            <4>3. r = f.run
                <5>1. r = runId
                    BY <1>3, <1>5, <2>1, <3>2, MatchedBuckets DEF NInv
                <5> QED BY <1>10, <5>1 DEF OwnAir
            <4>4. ASSUME f.batch = batch'[r] PROVE WasHeard(r, a, <<v, j>>)'
                <5>1. IsFor(f, r) /\ f \in heard'
                    BY <1>1, <4>3, <4>4 DEF IsFor, SameRound
                <5>2. IsFor(f, r)'
                    BY <1>1, <5>1 DEF IsFor, SameRound
                <5>3. Key(f) = <<v, j>>
                    BY <1>5, <4>1
                <5> QED BY <4>2, <5>1, <5>2, <5>3 DEF WasHeard, Key, WireOf, SeqBase
            <4> QED BY <1>1, <1>3, <4>1, <4>3, <4>4 DEF w
        <3> QED BY <3>1, <3>2
    <2>3. Reported' /\ Credited'
        BY <1>1, <1>2, ReportedKept, CreditedKept DEF NInv
    <2> QED BY <1>7, <1>8, <2>2, <2>3 DEF NInv
<1> QED BY <1>9, <1>10

\* The bound on rounds holds every controller back.
LEMMA RoundsBounded ==
    ASSUME NEW r \in Runs, NTypes,
           Cardinality({n \in Runs \X (1 .. MaxRounds) : n[2] <= batch[n[1]]}) < MaxRounds
    PROVE  batch[r] < MaxRounds
<1> SUFFICES ASSUME batch[r] >= MaxRounds PROVE FALSE
    BY RoundAssumption DEF NTypes
<1> DEFINE all == {n \in Runs \X (1 .. MaxRounds) : n[2] <= batch[n[1]]}
           mine == {r} \X (1 .. MaxRounds)
<1>1. MaxRounds \in Nat /\ batch[r] \in Nat
    BY RoundAssumption DEF NTypes
<1>2. mine \subseteq all
    BY <1>1
<1>3. IsFiniteSet(1 .. MaxRounds) /\ Cardinality(1 .. MaxRounds) = MaxRounds
    BY <1>1, FS_Interval
<1>4. IsFiniteSet({r}) /\ Cardinality({r}) = 1
    BY FS_Singleton
<1>5. Cardinality(mine) = 1 * MaxRounds
    BY <1>3, <1>4, FS_Product
<1>6. IsFiniteSet(Runs \X (1 .. MaxRounds))
    BY <1>3, FS_Product, RoundAssumption
<1>7. all \subseteq Runs \X (1 .. MaxRounds)
    OBVIOUS
<1>8. Cardinality(all) < MaxRounds
    OBVIOUS
<1> HIDE DEF all, mine
<1>9. IsFiniteSet(all)
    BY <1>6, <1>7, FS_Subset
<1>10. Cardinality(mine) <= Cardinality(all)
    BY <1>2, <1>9, FS_Subset
<1>11. Cardinality(all) \in Nat
    BY <1>9, FS_CardinalityType
<1> QED BY <1>1, <1>5, <1>8, <1>10, <1>11

LEMMA CommandKeeps ==
    ASSUME NInv, NEW r \in Runs, NEW reach, NEW toStation, Command(r, reach, toStation)
    PROVE  NInv'
<1> DEFINE m == [run |-> r, batch |-> batch[r] + 1, since |-> since[r]]
           Now(n) == n.run \in Runs /\ n.batch \in 1 .. batch'[n.run]
<1>2. batch[r] \in Nat /\ batch[r] < MaxRounds /\ MaxRounds \in Nat
    <2>1. Cardinality({n \in Runs \X (1 .. MaxRounds) : n[2] <= batch[n[1]]}) < MaxRounds
        BY DEF Command
    <2>2. NTypes
        BY DEF NInv
    <2> QED BY <2>1, <2>2, RoundsBounded, RoundAssumption DEF NTypes
<1>3. /\ batch' = [batch EXCEPT ![r] = @ + 1]
      /\ report' = [report EXCEPT ![r] = Silent]
      /\ result' = [result EXCEPT ![r] = NoResult]
      /\ apIn' = [a \in Plan |-> IF a \in reach THEN Append(apIn[a], m) ELSE apIn[a]]
      /\ staIn' = IF toStation THEN Append(staIn, m) ELSE staIn
      /\ heard' = Forgotten(heard, r)
      /\ UNCHANGED <<vars, since, air, job>>
    BY DEF Command, stationVars
<1>4. /\ batch'[r] = batch[r] + 1 /\ report'[r] = Silent /\ result'[r] = NoResult
      /\ \A q \in Runs : q # r => /\ batch'[q] = batch[q] /\ report'[q] = report[q]
                                 /\ result'[q] = result[q]
    BY <1>3 DEF NInv, NTypes
<1>0. ASSUME NEW q \in Runs, q # r, NEW a, NEW k, WasHeard(q, a, k) PROVE WasHeard(q, a, k)'
    <2>1. PICK f \in heard : IsFor(f, q) /\ f.ap = a /\ Key(f) = k
        BY <1>0 DEF WasHeard
    <2>2. f.run = q /\ f.batch = batch[q]
        BY <2>1 DEF IsFor, SameRound
    <2>3. f \in heard'
        BY <1>0, <1>3, <2>2 DEF Forgotten
    <2>4. IsFor(f, q)'
        BY <1>0, <1>4, <2>2 DEF IsFor, SameRound
    <2> QED BY <2>1, <2>3, <2>4 DEF WasHeard, Key, WireOf, SeqBase
<1>5. IInv'
    BY <1>3, NextIInv DEF NInv
<1>6. m \in Commands /\ Now(m)
    BY <1>2, <1>4 DEF NInv, NTypes, Commands
<1>7. \A n : Commanded(n) => Now(n)
    <2> SUFFICES ASSUME NEW n, Commanded(n) PROVE Now(n)
        OBVIOUS
    <2>1. n.run \in Runs /\ n.batch \in 1 .. batch[n.run] /\ batch[n.run] \in Nat
        BY RoundAssumption DEF Commanded, NInv, NTypes
    <2>2. batch'[n.run] \in {batch[n.run], batch[n.run] + 1}
        BY <1>4, <2>1
    <2> QED BY <2>1, <2>2
<1>8. \A q \in Seq(Commands) :
          /\ Append(q, m) \in Seq(Commands)
          /\ (\A i \in 1 .. Len(q) : Commanded(q[i])) =>
                 \A i \in 1 .. Len(Append(q, m)) : Now(Append(q, m)[i])
    <2> HIDE DEF m, Now
    <2> SUFFICES ASSUME NEW q \in Seq(Commands)
                 PROVE  /\ Append(q, m) \in Seq(Commands)
                        /\ (\A i \in 1 .. Len(q) : Commanded(q[i])) =>
                               \A i \in 1 .. Len(Append(q, m)) : Now(Append(q, m)[i])
        OBVIOUS
    <2>1. Append(q, m) \in Seq(Commands)
        BY <1>6
    <2>2. ASSUME \A i \in 1 .. Len(q) : Commanded(q[i]), NEW i \in 1 .. Len(Append(q, m))
          PROVE  Now(Append(q, m)[i])
        <3>1. \/ i \in 1 .. Len(q) /\ Append(q, m)[i] = q[i]
              \/ Append(q, m)[i] = m
            OBVIOUS
        <3> QED BY <1>6, <1>7, <2>2, <3>1
    <2> QED BY <2>1, <2>2
<1> HIDE DEF m, Now
<1>9. NTypes'
    BY <1>2, <1>3, <1>8 DEF NInv, NTypes
<1>10. AllCommanded'
    <2>1. \A a \in Plan : \A i \in 1 .. Len(apIn'[a]) : Now(apIn'[a][i])
        <3> SUFFICES ASSUME NEW a \in Plan
                     PROVE  \A i \in 1 .. Len(apIn'[a]) : Now(apIn'[a][i])
            OBVIOUS
        <3>1. apIn'[a] = Append(apIn[a], m) \/ apIn'[a] = apIn[a]
            BY <1>3
        <3> QED BY <1>7, <1>8, <3>1 DEF NInv, NTypes, AllCommanded
    <2>2. \A i \in 1 .. Len(staIn') : Now(staIn'[i])
        BY <1>3, <1>7, <1>8 DEF NInv, NTypes, AllCommanded
    <2>3. job'.active => Now(job') /\ job'.run = runId' /\ job'.since \in Nat
        BY <1>3, <1>7 DEF NInv, AllCommanded, vars
    <2>4. \A f \in air' : Now(f) /\ f.ap \in Aps /\ f.shot \in Slots /\ f.idx \in Idxs
        BY <1>3, <1>7 DEF NInv, AllCommanded
    <2> QED BY <2>1, <2>2, <2>3, <2>4 DEF AllCommanded, Commanded, Now
<1>11. Stored'
    <2> SUFFICES ASSUME NEW q \in Runs, NEW a \in Aps, NEW w \in Wire, NEW i \in Idxs,
                        buckets'[q][a].got[w][i] # 0
                 PROVE  \E b \in 1 .. batch'[q], s \in Slots :
                            WireOf(b, s) = w /\ (b = batch'[q] => WasHeard(q, a, <<w, i>>)')
        BY DEF Stored, WireOf, SeqBase, Slots
    <2>1. buckets[q][a].got[w][i] # 0 /\ Stored
        BY <1>3 DEF vars, NInv
    <2>2. PICK b \in 1 .. batch[q], s \in Slots :
              WireOf(b, s) = w /\ (b = batch[q] => WasHeard(q, a, <<w, i>>))
        BY <2>1 DEF Stored
    <2>3. CASE q = r
        <3>1. b \in 1 .. batch'[q] /\ b # batch'[q]
            BY <1>2, <1>4, <2>3
        <3> QED BY <2>2, <3>1
    <2>4. CASE q # r
        <3>1. batch'[q] = batch[q]
            BY <1>4, <2>4
        <3>2. WasHeard(q, a, <<w, i>>) => WasHeard(q, a, <<w, i>>)'
            BY <1>0, <2>4
        <3> QED BY <2>2, <3>1, <3>2
    <2> QED BY <2>3, <2>4
<1>12. Reported'
    <2> SUFFICES ASSUME NEW q \in Runs, NEW a \in Aps, report'[q].given,
                        NEW k \in report'[q].fresh[a]
                 PROVE  WasHeard(q, a, k)'
        BY DEF Reported
    <2>1. q # r
        BY <1>4 DEF Silent
    <2> QED BY <1>0, <1>4, <2>1 DEF NInv, Reported
<1>13. Credited'
    <2> SUFFICES ASSUME NEW q \in Runs, NEW a \in Aps, Measured(q)',
                        NEW k \in result'[q].counted[a]
                 PROVE  WasHeard(q, a, k)' /\ k[1] \in result'[q].joint
        BY DEF Credited
    <2>1. q # r
        BY <1>4 DEF Measured, NoResult
    <2> QED BY <1>0, <1>4, <2>1 DEF NInv, Credited, Measured
<1> QED BY <1>5, <1>9, <1>10, <1>11, <1>12, <1>13 DEF NInv

\* What the receiver counts for the present round it heard in that round.
LEMMA FreshWasHeard ==
    ASSUME FirstLap, NInv, job.active, NEW a \in Aps, NEW k \in FreshNow(a),
           job.batch = batch[job.run]
    PROVE  WasHeard(job.run, a, k)
<1>1. /\ job.run \in Runs /\ job.run = runId /\ job.batch \in 1 .. batch[runId]
      /\ job.since \in Nat /\ batch[runId] \in 0 .. MaxRounds
    BY DEF NInv, NTypes, AllCommanded, Commanded
<1>2. job.batch \in 1 .. MaxRounds
    BY <1>1, RoundAssumption
<1> DEFINE w == k[1]
           i == k[2]
<1>3. /\ w \in WireRange(SeqBase(job.batch), Shots) /\ i \in Idxs /\ k = <<w, i>>
      /\ buckets[runId][a].got[w][i] > job.since
    BY DEF FreshNow, Fresh
<1>4. PICK s \in Slots : w = WireOf(job.batch, s)
    BY <1>3 DEF WireRange, WireOf, Slots
<1>5. w \in Wire
    BY <1>2, <1>4, Unfolded
<1> HIDE DEF w, i
<1>6. buckets[runId][a].got[w][i] # 0
    BY <1>1, <1>3, <1>5 DEF NInv, IInv, TypeOK, Buckets
<1>7. PICK b \in 1 .. batch[runId], t \in Slots :
          WireOf(b, t) = w /\ (b = batch[runId] => WasHeard(runId, a, <<w, i>>))
    BY <1>1, <1>3, <1>5, <1>6 DEF NInv, Stored
<1>8. b \in 1 .. MaxRounds
    BY <1>1, <1>7, RoundAssumption
<1>9. Number(b, t) = Number(job.batch, s)
    BY <1>2, <1>4, <1>7, <1>8, Unfolded
<1>10. b = job.batch
    BY <1>2, <1>8, <1>9, NumberTells
<1> QED BY <1>1, <1>3, <1>7, <1>10

\* A report that counts only what was heard.
LEMMA ReportKeeps ==
    ASSUME NInv, NEW m, NEW reached, OnReport(m, reached), m.ordinal \in Nat, job' = NoJob,
           m.batch = batch[m.run] =>
               \A a \in Aps : \A k \in m.fresh[a] : WasHeard(m.run, a, k),
           UNCHANGED <<vars, batch, result, apIn, staIn, air, heard>>
    PROVE  NInv'
<1>1. IInv'
    BY NextIInv DEF NInv
<1>2. NTypes'
    <2>1. \A r \in Runs : Barrier(m, r) \in Nat
        BY DEF Barrier
    <2>2. since' \in [Runs -> Nat] /\ DOMAIN report' = Runs
        BY <2>1 DEF OnReport, NInv, NTypes
    <2> QED BY <2>2 DEF NInv, NTypes
<1>3. AllCommanded'
    BY StillCommanded DEF NInv, AllCommanded, NoJob
<1>4. Stored' /\ Credited'
    <2>1. Credited'
        BY CreditedKept DEF NInv
    <2>2. Stored'
        <3> SUFFICES ASSUME NEW r \in Runs, NEW a \in Aps, NEW w \in Wire, NEW i \in Idxs,
                            buckets'[r][a].got[w][i] # 0
                     PROVE  \E b \in 1 .. batch'[r], s \in Slots :
                                WireOf(b, s) = w /\ (b = batch'[r] => WasHeard(r, a, <<w, i>>)')
            BY DEF Stored, WireOf, SeqBase, Slots
        <3> QED BY StoredKept DEF NInv, vars
    <2> QED BY <2>1, <2>2
<1>5. Reported'
    <2> SUFFICES ASSUME NEW r \in Runs, NEW a \in Aps, report'[r].given,
                        NEW k \in report'[r].fresh[a]
                 PROVE  WasHeard(r, a, k)'
        BY DEF Reported
    <2>1. WasHeard(r, a, k)
        <3>1. report'[r] = IF r \in reached /\ m.run = r /\ m.batch = batch[r]
                           THEN m ELSE report[r]
            BY DEF OnReport, Mine
        <3> QED BY <3>1 DEF NInv, Reported
    <2> QED BY <2>1, HeardKept
<1> QED BY <1>1, <1>2, <1>3, <1>4, <1>5 DEF NInv

LEMMA AnswerKeeps ==
    ASSUME FirstLap, NInv, NEW reached, StationAnswer(reached)
    PROVE  NInv'
<1> DEFINE m == [given |-> TRUE, run |-> job.run, batch |-> job.batch, error |-> "none",
                epoch |-> epoch, ordinal |-> ordinal, alive |-> otherFrames # job.other,
                watching |-> Aps, fresh |-> [a \in Aps |-> FreshNow(a)],
                coverage |-> [a \in Aps |-> Coverage(buckets[runId][a],
                                                     SeqBase(job.batch), Shots)]]
<1>1. /\ OnReport(m, reached) /\ job.active /\ job' = NoJob
      /\ UNCHANGED <<vars, batch, result, apIn, staIn, air, heard>>
    BY DEF StationAnswer, Publish, airVars
<1>2. /\ m.run = job.run /\ m.batch = job.batch /\ m.ordinal \in Nat
      /\ \A a \in Aps : m.fresh[a] = FreshNow(a)
    BY DEF NInv, IInv, TypeOK
<1> HIDE DEF m
<1>3. m.batch = batch[m.run] => \A a \in Aps : \A k \in m.fresh[a] : WasHeard(m.run, a, k)
    BY <1>1, <1>2, FreshWasHeard
<1> QED BY <1>1, <1>2, <1>3, ReportKeeps

LEMMA FailKeeps == ASSUME NInv, NEW reached, StationFails(reached) PROVE NInv'
<1> DEFINE m == [given |-> TRUE, run |-> job.run, batch |-> job.batch, error |-> "failed",
                epoch |-> epoch, ordinal |-> 0, alive |-> FALSE, watching |-> {},
                fresh |-> [a \in Aps |-> {}], coverage |-> [a \in Aps |-> "full"]]
<1>1. /\ OnReport(m, reached) /\ job' = NoJob
      /\ UNCHANGED <<vars, batch, result, apIn, staIn, air, heard>>
    BY DEF StationFails, Publish, airVars
<1>2. m.ordinal \in Nat /\ \A a \in Aps : m.fresh[a] = {}
    OBVIOUS
<1> HIDE DEF m
<1> QED BY <1>1, <1>2, ReportKeeps

LEMMA JudgeKeeps == ASSUME NInv, NEW r \in Runs, Collect(r) \/ Timeout(r) PROVE NInv'
<1>1. UNCHANGED <<vars, batch, since, report, apIn, staIn, job, air, heard>>
    BY DEF Collect, Timeout, stationVars, airVars
<1>2. IInv' /\ Reported'
    BY <1>1, NextIInv, ReportedKept DEF NInv
<1>3. DOMAIN result' = Runs /\ \A q \in Runs : q # r => result'[q] = result[q]
    BY DEF Collect, Timeout, NInv, NTypes
<1>4. NTypes' /\ AllCommanded'
    BY <1>1, <1>3, StillCommanded DEF NInv, NTypes, AllCommanded, vars
<1>5. Stored'
    <2> SUFFICES ASSUME NEW q \in Runs, NEW a \in Aps, NEW w \in Wire, NEW i \in Idxs,
                        buckets'[q][a].got[w][i] # 0
                 PROVE  \E b \in 1 .. batch'[q], s \in Slots :
                            WireOf(b, s) = w /\ (b = batch'[q] => WasHeard(q, a, <<w, i>>)')
        BY DEF Stored, WireOf, SeqBase, Slots
    <2> QED BY <1>1, StoredKept DEF NInv, vars
<1>6. Credited'
    <2> SUFFICES ASSUME NEW q \in Runs, NEW a \in Aps, Measured(q)',
                        NEW k \in result'[q].counted[a]
                 PROVE  WasHeard(q, a, k)' /\ k[1] \in result'[q].joint
        BY DEF Credited
    <2>1. WasHeard(q, a, k) /\ k[1] \in result'[q].joint
        <3>1. CASE q # r
            BY <1>3, <3>1 DEF NInv, Credited, Measured
        <3>2. CASE q = r
            <4>1. Collect(r)
                BY <3>2 DEF Timeout, NodeMissing, Measured, NInv, NTypes
            <4>2. /\ report[r].given
                  /\ result'[r].joint = JointSeqs(status[r], Plan)
                  /\ result'[r].counted[a] \in {{}, CountedOf(report[r], a, result'[r].joint)}
                BY <4>1 DEF Collect, Complete, NInv, NTypes
            <4>3. k \in report[r].fresh[a] /\ k[1] \in result'[r].joint
                BY <3>2, <4>2 DEF CountedOf
            <4> QED BY <3>2, <4>2, <4>3 DEF NInv, Reported
        <3> QED BY <3>1, <3>2
    <2> QED BY <1>1, <2>1, HeardKept
<1> QED BY <1>2, <1>4, <1>5, <1>6 DEF NInv

LEMMA InitNInv == InitRound => NInv
<1> SUFFICES ASSUME InitRound PROVE NInv
    OBVIOUS
<1>1. IInv
    BY InitIInv DEF InitRound
<1>2. NTypes
    BY RoundAssumption DEF InitRound, NTypes
<1>3. AllCommanded /\ Reported /\ Credited
    BY DEF InitRound, AllCommanded, Reported, Credited, NoJob, Silent, NoResult, Measured
<1>4. Stored
    BY DEF InitRound, Init, Stored, EmptyBucket
<1> QED BY <1>1, <1>2, <1>3, <1>4 DEF NInv

LEMMA NextNInv == ASSUME FirstLap, NInv, OwnAir, [NextRound]_allVars PROVE NInv'
<1>1. CASE \E r \in Runs, reach \in SUBSET Plan, toStation \in BOOLEAN :
              Command(r, reach, toStation)
    BY <1>1, CommandKeeps
<1>2. CASE Controllers
    BY <1>2, JudgeKeeps DEF Controllers
<1>3. CASE \E a \in Plan, x \in Firings, reached \in {{}, Runs} : ApFire(a, x, reached)
    BY <1>3, FireKeeps
<1>4. CASE Take
    BY <1>4, TakeKeeps
<1>5. CASE \E reached \in {{}, Runs} : StationAnswer(reached) \/ StationFails(reached)
    BY <1>5, AnswerKeeps, FailKeeps
<1>6. CASE \E f \in air : Hear(f)
    BY <1>6, HearKeeps
<1>7. CASE StationReset \/ StationRestart
    BY <1>7, AnewSteps
<1>8. CASE HearOther \/ (\E f \in air : Lose(f)) \/ UNCHANGED allVars
    <2>1. /\ UNCHANGED <<batch, since, report, result, apIn, staIn, job, heard, runId, buckets>>
          /\ air' \subseteq air /\ [Next]_vars
        BY <1>8 DEF HearOther, Unmatched, Lose, Next, allVars, vars, sessionVars,
                    stationVars, airVars
    <2> QED BY <2>1, UnmatchedSteps
<1> QED BY <1>1, <1>2, <1>3, <1>4, <1>5, <1>6, <1>7, <1>8 DEF NextRound, Nodes

---------------------------------------------------------------------------
(* Turns: where nodes and controllers keep to their deadlines there is one *)
(* round under way at a time.                                              *)

\* A command under way is of the round its controller waits for.
Present(m) == m.run \in Runs /\ phase[m.run] = "waiting" /\ m.batch = batch[m.run]

\* One controller at a time waits; each node has its command at most once, and
\* only until it has answered it.
Turns ==
    /\ \A q, r \in Runs : phase[q] = "waiting" /\ phase[r] = "waiting" => q = r
    /\ \A a \in Plan : /\ Len(apIn[a]) <= 1
                       /\ apIn[a] # <<>> => Present(apIn[a][1]) /\ ~status[apIn[a][1].run][a].given
    /\ Len(staIn) <= 1
    /\ staIn # <<>> => Present(staIn[1]) /\ ~report[staIn[1].run].given /\ ~job.active
    /\ job.active => Present(job) /\ ~report[job.run].given

\* There is no frame on air before the receiver has taken the round up, and
\* none of a round that is over once the next is commanded.
InOrder ==
    /\ \A f \in air : f.batch = batch[f.run]
    /\ staIn # <<>> =>
          /\ air = {}
          /\ \A a \in Plan : apIn[a] # <<>> => apIn[a][1] = staIn[1]
          /\ \A f \in heard : ~IsFor(f, staIn[1].run)

TInv ==
    /\ phase \in [Runs -> {"idle", "waiting"}]
    /\ DOMAIN status = Runs /\ \A r \in Runs : DOMAIN status[r] = Plan
    /\ Turns /\ InOrder

\* Where nobody waits nothing is under way.
LEMMA NobodyWaits ==
    ASSUME TInv, \A q \in Runs : phase[q] # "waiting"
    PROVE  (\A a \in Plan : apIn[a] = <<>>) /\ staIn = <<>> /\ ~job.active
BY DEF TInv, Turns, Present

LEMMA CommandTurns ==
    ASSUME Orderly, NInv, TInv, NEW r \in Runs, NEW reach, NEW toStation,
           Command(r, reach, toStation)
    PROVE  /\ TInv' /\ air = {} /\ ~job.active
           /\ \A a \in Plan : apIn[a] = <<>>
           /\ staIn = <<>>
<1> DEFINE m == [run |-> r, batch |-> batch[r] + 1, since |-> since[r]]
<1>1. /\ phase' = [phase EXCEPT ![r] = "waiting"] /\ batch' = [batch EXCEPT ![r] = @ + 1]
      /\ status' = [status EXCEPT ![r] = [a \in Plan |-> NoStatus]]
      /\ report' = [report EXCEPT ![r] = Silent]
      /\ apIn' = [a \in Plan |-> IF a \in reach THEN Append(apIn[a], m) ELSE apIn[a]]
      /\ staIn' = IF toStation THEN Append(staIn, m) ELSE staIn
      /\ air = {} /\ (\A q \in Runs : phase[q] = "idle")
      /\ heard' = Forgotten(heard, r) /\ UNCHANGED <<air, job>>
    BY DEF Command, stationVars
<1>2. (\A a \in Plan : apIn[a] = <<>>) /\ staIn = <<>> /\ ~job.active
    BY <1>1, NobodyWaits
<1>3. /\ phase'[r] = "waiting" /\ batch'[r] = batch[r] + 1 /\ ~report'[r].given
      /\ \A a \in Plan : ~status'[r][a].given
    BY <1>1 DEF TInv, NInv, NTypes, Silent, NoStatus
<1>4. m.run = r /\ m.batch = batch[r] + 1
    OBVIOUS
<1> HIDE DEF m
<1>40. r \in Runs /\ phase'[m.run] = "waiting" /\ m.batch = batch'[m.run]
    BY <1>3, <1>4
<1>41. /\ Append(<<>>, m) = <<m>>
       /\ Len(<<>>) = 0 /\ Len(<<m>>) = 1 /\ <<m>>[1] = m /\ <<m>> # <<>>
    OBVIOUS
<1>5. \A a \in Plan : apIn'[a] \in {<<>>, <<m>>}
    BY <1>1, <1>2, <1>41
<1>6. staIn' \in {<<>>, <<m>>}
    BY <1>1, <1>2, <1>41
<1>8. \A q \in Runs : q # r => phase'[q] = "idle"
    BY <1>1 DEF TInv
<1>9. Turns'
    <2>1. \A p, q \in Runs : phase'[p] = "waiting" /\ phase'[q] = "waiting" => p = q
        BY <1>8
    <2>2. ASSUME NEW a \in Plan
          PROVE  /\ Len(apIn'[a]) <= 1
                 /\ apIn'[a] # <<>> => /\ apIn'[a][1] = m
                                       /\ ~status'[apIn'[a][1].run][a].given
        <3>1. CASE apIn'[a] = <<>>
            BY <1>41, <3>1
        <3>2. CASE apIn'[a] = <<m>>
            <4>1. apIn'[a][1] = m /\ Len(apIn'[a]) = 1
                BY <1>41, <3>2
            <4>2. ~status'[m.run][a].given
                BY <1>3, <1>4
            <4> QED BY <4>1, <4>2
        <3> QED BY <1>5, <3>1, <3>2
    <2>3. /\ Len(staIn') <= 1
          /\ staIn' # <<>> => staIn'[1] = m /\ ~report'[staIn'[1].run].given
        <3>1. CASE staIn' = <<>>
            BY <1>41, <3>1
        <3>2. CASE staIn' = <<m>>
            <4>1. staIn'[1] = m /\ Len(staIn') = 1
                BY <1>41, <3>2
            <4>2. ~report'[m.run].given
                BY <1>3, <1>4
            <4> QED BY <4>1, <4>2
        <3> QED BY <1>6, <3>1, <3>2
    <2>4. ~job'.active
        BY <1>1, <1>2
    <2> QED BY <1>4, <1>40, <2>1, <2>2, <2>3, <2>4 DEF Turns, Present
<1>10. InOrder'
    <2>1. \A f \in heard' : ~IsFor(f, r)'
        BY <1>1 DEF Forgotten, IsFor, SameRound
    <2>2. staIn' # <<>> => staIn'[1] = m
        BY <1>6, <1>41
    <2>3. \A a \in Plan : apIn'[a] # <<>> => apIn'[a][1] = m
        <3> SUFFICES ASSUME NEW a \in Plan, apIn'[a] # <<>> PROVE apIn'[a][1] = m
            OBVIOUS
        <3>1. apIn'[a] = <<>> \/ apIn'[a] = <<m>>
            BY <1>5
        <3> QED BY <1>41, <3>1
    <2> QED BY <1>1, <1>4, <2>1, <2>2, <2>3 DEF InOrder, IsFor, SameRound
<1>11. /\ phase' \in [Runs -> {"idle", "waiting"}]
       /\ DOMAIN status' = Runs /\ \A q \in Runs : DOMAIN status'[q] = Plan
    BY <1>1 DEF TInv
<1> QED BY <1>1, <1>2, <1>9, <1>10, <1>11 DEF TInv

LEMMA FireTurns ==
    ASSUME Orderly, NInv, TInv, NEW a \in Plan, NEW x \in Firings, NEW reached,
           ApFire(a, x, reached)
    PROVE  /\ TInv' /\ staIn = <<>> /\ apIn'[a] = <<>>
           /\ apIn[a] # <<>> /\ Head(apIn[a]) = apIn[a][1]
           /\ \A b \in Plan : b # a => apIn'[b] = apIn[b]
<1> DEFINE m == Head(apIn[a])
           out == FramesOf(m.run, m.batch, a, x.out)
           said == [given |-> TRUE, run |-> m.run, batch |-> m.batch,
                    fired |-> {WireOf(m.batch, s) : s \in x.fired},
                    error |-> x.error, power |-> x.power]
<1>1. /\ apIn[a] # <<>> /\ m \notin Range(staIn) /\ apIn' = [apIn EXCEPT ![a] = Tail(@)]
      /\ air' = IF a \in Aps THEN air \cup out ELSE air
      /\ OnStatus(a, said, reached)
      /\ UNCHANGED <<phase, batch, report, staIn, job, heard>>
    BY DEF ApFire, stationVars
<1>2. apIn[a] \in Seq(Commands) /\ staIn \in Seq(Commands) /\ DOMAIN apIn = Plan
    BY DEF NInv, NTypes
<1>3. m = apIn[a][1] /\ Tail(apIn[a]) = <<>>
    BY <1>1, <1>2 DEF TInv, Turns
<1>4. Present(m)
    BY <1>1, <1>3 DEF TInv, Turns
<1>5. staIn = <<>>
    <2> SUFFICES ASSUME staIn # <<>> PROVE FALSE
        OBVIOUS
    <2>1. m = staIn[1]
        BY <1>1, <1>3 DEF TInv, InOrder
    <2>2. 1 \in DOMAIN staIn
        BY <1>2
    <2> QED BY <1>1, <2>1, <2>2 DEF Range
<1>6. apIn'[a] = <<>> /\ \A b \in Plan : b # a => apIn'[b] = apIn[b]
    BY <1>1, <1>2, <1>3
<1>7. \A f \in out : f.run = m.run /\ f.batch = m.batch
    BY DEF FramesOf
<1> HIDE DEF m, out, said
<1>8. InOrder'
    BY <1>1, <1>4, <1>5, <1>7 DEF TInv, InOrder, Present
<1>9. /\ DOMAIN status' = Runs
      /\ \A r \in Runs : /\ DOMAIN status'[r] = Plan
                         /\ \A b \in Plan : b # a => status'[r][b] = status[r][b]
    BY <1>1 DEF OnStatus, TInv
<1>10. Turns'
    BY <1>1, <1>5, <1>6, <1>9 DEF TInv, Turns, Present
<1> QED BY <1>1, <1>3, <1>5, <1>6, <1>8, <1>9, <1>10 DEF TInv, m

LEMMA TakeTurns ==
    ASSUME NInv, TInv, Take
    PROVE  TInv' /\ staIn' = <<>> /\ staIn # <<>> /\ Head(staIn) = staIn[1]
<1>1. /\ staIn # <<>> /\ staIn' = Tail(staIn)
      /\ job' = [active |-> TRUE, run |-> Head(staIn).run, batch |-> Head(staIn).batch,
                 since |-> Head(staIn).since, other |-> otherFrames]
      /\ UNCHANGED <<phase, batch, status, report, apIn, air, heard>>
    BY DEF Take, sessionVars, airVars
<1>2. Head(staIn) = staIn[1] /\ Tail(staIn) = <<>>
    BY <1>1 DEF NInv, NTypes, TInv, Turns
<1>3. Present(staIn[1]) /\ ~report[staIn[1].run].given
    BY <1>1 DEF TInv, Turns
<1>4. Present(job') /\ ~report[job'.run].given
    BY <1>1, <1>2, <1>3 DEF Present
<1>5. Turns'
    BY <1>1, <1>2, <1>4 DEF TInv, Turns, Present
<1>6. InOrder'
    BY <1>1, <1>2 DEF TInv, InOrder
<1> QED BY <1>1, <1>2, <1>5, <1>6 DEF TInv

\* The receiver is done with what it was in, or has forgotten it.
LEMMA JobOver ==
    ASSUME NInv, TInv, ~job'.active, staIn' \in {<<>>, staIn}, staIn' = <<>> \/ report' = report,
           UNCHANGED <<phase, batch, status, apIn, air, heard>>
    PROVE  TInv'
<1>1. Turns'
    BY DEF TInv, Turns, Present
<1>2. InOrder'
    BY DEF TInv, InOrder, IsFor, SameRound
<1> QED BY <1>1, <1>2 DEF TInv

LEMMA JudgeTurns ==
    ASSUME Orderly, NInv, TInv, NEW r \in Runs, Collect(r) \/ Timeout(r)
    PROVE  TInv' /\ (\A a \in Plan : apIn[a] = <<>>) /\ staIn = <<>> /\ ~job.active
<1>1. /\ phase[r] = "waiting" /\ phase' = [phase EXCEPT ![r] = "idle"]
      /\ UNCHANGED <<batch, status, report, apIn, staIn, job, air, heard>>
    BY DEF Collect, Timeout, stationVars, airVars
<1>2. Complete(r) \/ ~Pending(r)
    BY DEF Collect, Timeout
<1>3. \A m : Present(m) => m.run = r /\ IsFor(m, r)
    BY <1>1 DEF Present, TInv, Turns, IsFor, SameRound
<1>4. \A a \in Plan : apIn[a] = <<>>
    <2> SUFFICES ASSUME NEW a \in Plan, apIn[a] # <<>> PROVE FALSE
        OBVIOUS
    <2>1. Present(apIn[a][1]) /\ ~status[apIn[a][1].run][a].given
        BY DEF TInv, Turns
    <2>2. 1 \in DOMAIN apIn[a]
        BY DEF NInv, NTypes
    <2> QED BY <1>2, <1>3, <2>1, <2>2 DEF Complete, Pending
<1>5. staIn = <<>>
    <2> SUFFICES ASSUME staIn # <<>> PROVE FALSE
        OBVIOUS
    <2>1. Present(staIn[1]) /\ ~report[staIn[1].run].given
        BY DEF TInv, Turns
    <2>2. 1 \in DOMAIN staIn
        BY DEF NInv, NTypes
    <2> QED BY <1>2, <1>3, <2>1, <2>2 DEF Complete, Pending
<1>6. ~job.active
    BY <1>2, <1>3 DEF TInv, Turns, Complete, Pending
<1>7. Turns'
    BY <1>1, <1>4, <1>5, <1>6 DEF TInv, Turns
<1>8. InOrder'
    BY <1>1, <1>5 DEF TInv, InOrder
<1> QED BY <1>1, <1>4, <1>5, <1>6, <1>7, <1>8 DEF TInv

\* Frames end.
LEMMA AirTurns ==
    ASSUME TInv, air' \subseteq air, air = {} => heard' = heard,
           UNCHANGED <<phase, batch, status, report, apIn, staIn, job>>
    PROVE  TInv'
<1>1. Turns'
    BY DEF TInv, Turns, Present
<1>2. InOrder'
    BY DEF TInv, InOrder, IsFor, SameRound
<1> QED BY <1>1, <1>2 DEF TInv

LEMMA InitTInv == InitRound => TInv
BY DEF InitRound, TInv, Turns, InOrder, NoJob

LEMMA NextTInv == ASSUME Orderly, NInv, TInv, [NextRound]_allVars PROVE TInv'
<1>1. CASE \E r \in Runs, reach \in SUBSET Plan, toStation \in BOOLEAN :
              Command(r, reach, toStation)
    BY <1>1, CommandTurns
<1>2. CASE Controllers
    BY <1>2, JudgeTurns DEF Controllers
<1>3. CASE \E a \in Plan, x \in Firings, reached \in {{}, Runs} : ApFire(a, x, reached)
    BY <1>3, FireTurns
<1>4. CASE Take
    BY <1>4, TakeTurns
<1>5. CASE \E reached \in {{}, Runs} : StationAnswer(reached) \/ StationFails(reached)
    <2>1. /\ job.active /\ job' = NoJob
          /\ UNCHANGED <<phase, batch, status, apIn, staIn, air, heard>>
        BY <1>5 DEF StationAnswer, StationFails, Publish, airVars
    <2>2. staIn = <<>>
        BY <2>1 DEF TInv, Turns
    <2> QED BY <2>1, <2>2, JobOver DEF NoJob
<1>6. CASE StationReset \/ StationRestart
    <2>1. /\ ~job'.active /\ staIn' \in {<<>>, staIn}
          /\ UNCHANGED <<phase, batch, status, report, apIn, air, heard>>
        BY <1>6 DEF StationReset, StationRestart, sessionVars, airVars, NoJob
    <2> QED BY <2>1, JobOver
<1>7. CASE HearOther \/ (\E f \in air : Hear(f) \/ Lose(f)) \/ UNCHANGED allVars
    <2>1. /\ UNCHANGED <<phase, batch, status, report, apIn, staIn, job>>
          /\ air' \subseteq air /\ (air = {} => heard' = heard)
        BY <1>7 DEF HearOther, Hear, Lose, allVars, sessionVars, stationVars, airVars
    <2> QED BY <2>1, AirTurns
<1> QED BY <1>1, <1>2, <1>3, <1>4, <1>5, <1>6, <1>7 DEF NextRound, Nodes


---------------------------------------------------------------------------
(* Whose frames the receiver counts.                                       *)

\* The receiver counts for the run whose frames are on air or about to be.
OwnRun ==
    /\ OwnAir
    /\ \A a \in Plan : apIn[a] # <<>> /\ staIn = <<>> => runId \in {NoRun, apIn[a][1].run}

\* One controller, or several that take turns and whose commands reach the
\* receiver.
Alone == \E r : Runs = {r}
ToldApart == Alone \/ (Orderly /\ ~Misses)

LEMMA AloneOwnRun == Alone /\ NInv => OwnRun
<1> SUFFICES ASSUME Alone, NInv PROVE OwnRun
    OBVIOUS
<1>1. PICK r : Runs = {r}
    BY DEF Alone
<1>2. runId \in {NoRun, r}
    BY <1>1 DEF NInv, IInv, TypeOK
<1>3. \A f \in air : f.run = r
    BY <1>1 DEF NInv, AllCommanded, Commanded
<1>4. ASSUME NEW a \in Plan, apIn[a] # <<>> PROVE apIn[a][1].run = r
    <2>1. apIn[a] \in Seq(Commands) /\ 1 \in 1 .. Len(apIn[a])
        BY <1>4 DEF NInv, NTypes
    <2> QED BY <1>1, <2>1 DEF NInv, AllCommanded, Commanded
<1> QED BY <1>2, <1>3, <1>4 DEF OwnRun, OwnAir

\* The receiver goes on counting for the same run.
LEMMA SameRunSteps ==
    ASSUME OwnRun, air' \subseteq air, runId' \in {NoRun, runId}, apIn' = apIn,
           staIn' = staIn \/ runId' = NoRun
    PROVE  OwnRun'
BY DEF OwnRun, OwnAir

LEMMA TurnsOwnRun ==
    ASSUME Orderly, ~Misses, NInv, TInv, OwnRun, [NextRound]_allVars
    PROVE  OwnRun'
<1>1. ASSUME NEW r \in Runs, NEW reach, NEW toStation, Command(r, reach, toStation)
      PROVE  OwnRun'
    <2>1. air = {} /\ staIn = <<>>
        BY <1>1, CommandTurns
    <2>2. /\ air' = air
          /\ staIn' = Append(staIn, [run |-> r, batch |-> batch[r] + 1, since |-> since[r]])
        BY <1>1 DEF Command
    <2>3. staIn' # <<>>
        BY <2>1, <2>2
    <2> QED BY <2>1, <2>2, <2>3 DEF OwnRun, OwnAir
<1>2. ASSUME NEW a \in Plan, NEW x \in Firings, NEW reached, ApFire(a, x, reached)
      PROVE  OwnRun'
    <2> DEFINE m == Head(apIn[a])
    <2>1. /\ air' = IF a \in Aps THEN air \cup FramesOf(m.run, m.batch, a, x.out) ELSE air
          /\ UNCHANGED <<runId, staIn>>
        BY <1>2 DEF ApFire, vars
    <2>2. /\ staIn = <<>> /\ apIn'[a] = <<>> /\ apIn[a] # <<>> /\ m = apIn[a][1]
          /\ \A b \in Plan : b # a => apIn'[b] = apIn[b]
        BY <1>2, FireTurns
    <2>3. \A f \in FramesOf(m.run, m.batch, a, x.out) : f.run = m.run
        BY DEF FramesOf
    <2>4. runId \in {NoRun, m.run}
        BY <2>2 DEF OwnRun
    <2> HIDE DEF m
    <2> QED BY <2>1, <2>2, <2>3, <2>4 DEF OwnRun, OwnAir
<1>3. CASE Take
    <2>1. /\ runId' = Head(staIn).run /\ air' = air /\ apIn' = apIn
        BY <1>3 DEF Take, SetRun, airVars
    <2>2. staIn # <<>> /\ Head(staIn) = staIn[1]
        BY <1>3, TakeTurns
    <2> QED BY <2>1, <2>2 DEF OwnRun, OwnAir, TInv, InOrder
<1>4. CASE StationReset \/ StationRestart
    <2>1. runId' = NoRun /\ air' = air /\ apIn' = apIn
        BY <1>4 DEF StationReset, StationRestart, CounterAnew, airVars
    <2> QED BY <2>1, SameRunSteps
<1>5. CASE \/ Controllers \/ HearOther
           \/ \E reached \in {{}, Runs} : StationAnswer(reached) \/ StationFails(reached)
           \/ \E f \in air : Hear(f) \/ Lose(f)
           \/ UNCHANGED allVars
    <2>1. runId' = runId /\ air' \subseteq air /\ UNCHANGED <<apIn, staIn>>
        BY <1>5 DEF Controllers, Collect, Timeout, HearOther, StationAnswer, StationFails, Publish,
                    Hear, Lose, Matched, Unmatched, allVars, vars, sessionVars, stationVars, airVars
    <2> QED BY <2>1, SameRunSteps
<1> QED BY <1>1, <1>2, <1>3, <1>4, <1>5 DEF NextRound, Nodes

\* The invariant that holds for either kind of controllers.
LInv == NInv /\ OwnRun /\ (Orderly => TInv)

LEMMA InitLInv == InitRound => LInv
<1>1. InitRound => OwnRun
    BY DEF InitRound, OwnRun, OwnAir
<1> QED BY <1>1, InitNInv, InitTInv DEF LInv

LEMMA NextLInv == ASSUME FirstLap, ToldApart, LInv, [NextRound]_allVars PROVE LInv'
<1>1. NInv'
    BY NextNInv DEF LInv, OwnRun
<1>2. Orderly => TInv'
    BY NextTInv DEF LInv
<1>3. CASE Alone
    <2>1. (Alone /\ NInv)' => OwnRun'
        BY AloneOwnRun, PTL
    <2> QED BY <1>1, <1>2, <1>3, <2>1 DEF LInv, Alone
<1>4. CASE Orderly /\ ~Misses
    BY <1>1, <1>2, <1>4, TurnsOwnRun DEF LInv
<1> QED BY <1>3, <1>4 DEF ToldApart

\* A measured link is credited with nothing but what the receiver captured in
\* that very round, until the numbers come round again and whatever is lost,
\* reset or restarted: for a controller that is alone with no assumption on
\* timing, and for several that take turns as long as no command misses the
\* receiver (Session.run, FrameCounter.report, link_results).
THEOREM NeverInflatedHolds ==
    ASSUME FirstLap, ToldApart PROVE SpecRound => []NeverInflated
<1>1. LInv /\ [NextRound]_allVars => LInv'
    BY NextLInv
<1>2. LInv => NeverInflated
    <2> SUFFICES ASSUME NInv, NEW r \in Runs, NEW a \in Aps, LinkOK(r, a),
                        NEW k \in result[r].counted[a]
                 PROVE  k \in TrulyHeard(r, a)
        BY DEF NeverInflated, LInv
    <2>1. WasHeard(r, a, k) /\ k[1] \in result[r].joint
        BY DEF LinkOK, NInv, Credited
    <2>2. PICK f \in heard : IsFor(f, r) /\ f.ap = a /\ Key(f) = k
        BY <2>1 DEF WasHeard
    <2>3. k[1] = WireOf(f.batch, f.shot)
        BY <2>2 DEF Key
    <2> QED BY <2>1, <2>2, <2>3 DEF TrulyHeard
<1> QED BY <1>1, <1>2, InitLInv, PTL DEF SpecRound

---------------------------------------------------------------------------
(* What a report leaves out.  Nodes keep to their deadlines, so when the   *)
(* receiver answers at its own no frame of the round is left to come.      *)

HeardTypes ==
    \A f \in heard : /\ f.run \in Runs /\ f.batch \in 1 .. MaxRounds
                     /\ f.ap \in Aps /\ f.shot \in Slots /\ f.idx \in Idxs

\* The barrier of a command is comparable: it came from this instance, or from
\* none.
Comparable(r) == asked[r] \in {0, epoch}

\* A comparable barrier does not lie ahead of the instance that runs.
Asked ==
    /\ DOMAIN asked = Runs
    /\ \A r \in Runs : known[r] = 0 => since[r] = 0
    /\ staIn # <<>> /\ Comparable(staIn[1].run) => staIn[1].since <= ordinal
    /\ job.active /\ Comparable(job.run) => job.since <= ordinal

\* What the receiver captured of the round it is in is counted or forgotten.
Held ==
    job.active /\ Comparable(job.run) =>
        \A f \in heard : IsFor(f, job.run) =>
            \/ buckets[runId][f.ap].got[Key(f)[1]][f.idx] > job.since
            \/ Key(f)[1] \in buckets[runId][f.ap].forgotten

AllOf(b) == WireRange(SeqBase(b), Shots) \X Idxs

\* No frame of r's round will come from transmitter a any more.
Ended(r, a) ==
    /\ \A f \in air : ~(IsFor(f, r) /\ f.ap = a)
    /\ \A i \in DOMAIN apIn[a] : ~IsFor(apIn[a][i], r)

Trusted(r, a) ==
    /\ report[r].given /\ a \in report[r].watching /\ report[r].coverage[a] = "full"
    /\ asked[r] \in {0, report[r].epoch}

\* A report counts all there is of its round, or all that was captured when no
\* more is to come.
Told ==
    \A r \in Runs, a \in Aps : Trusted(r, a) =>
        \/ report[r].fresh[a] = AllOf(batch[r])
        \/ /\ \A f \in heard : IsFor(f, r) /\ f.ap = a => Key(f) \in report[r].fresh[a]
           /\ Ended(r, a)

\* A verdict is about the report that is kept.
Judged ==
    /\ \A r \in Runs : Measured(r) => phase[r] = "idle"
    /\ \A r \in Runs, a \in Aps : LinkOK(r, a) =>
          /\ report[r].given /\ a \in report[r].watching /\ report[r].coverage[a] = "full"
          /\ result[r].counted[a] = CountedOf(report[r], a, result[r].joint)

HInv == HeardTypes /\ Asked /\ Held /\ Told /\ Judged

\* A verdict stands while its round, its answer and its report do.
LEMMA JudgedKept ==
    ASSUME Judged, UNCHANGED <<phase, result>>,
           \A r \in Runs : phase[r] = "idle" => report'[r] = report[r]
    PROVE  Judged'
<1>1. \A r \in Runs, a \in Aps : LinkOK(r, a)' => LinkOK(r, a) /\ Measured(r)
    BY DEF LinkOK, Measured
<1>2. \A r \in Runs, a \in Aps : LinkOK(r, a)' => report'[r] = report[r]
    BY <1>1 DEF Judged
<1>3. \A r \in Runs : Measured(r)' => Measured(r)
    BY DEF Measured
<1> QED BY <1>1, <1>2, <1>3 DEF Judged

\* What a report told stays told while no frame of its round can come that
\* could not before.
LEMMA ToldKept ==
    ASSUME Told, UNCHANGED <<batch, report, asked>>, heard' \subseteq heard \cup air,
           \A r \in Runs, a \in Aps : Ended(r, a) => Ended(r, a)'
    PROVE  Told'
<1> SUFFICES ASSUME NEW r \in Runs, NEW a \in Aps, Trusted(r, a)'
             PROVE  \/ report'[r].fresh[a] = AllOf(batch'[r])
                    \/ /\ \A f \in heard' : IsFor(f, r)' /\ f.ap = a =>
                                                Key(f) \in report'[r].fresh[a]
                       /\ Ended(r, a)'
    BY DEF Told
<1>1. Trusted(r, a)
    BY DEF Trusted
<1>2. CASE report[r].fresh[a] = AllOf(batch[r])
    BY <1>2
<1>3. CASE /\ \A f \in heard : IsFor(f, r) /\ f.ap = a => Key(f) \in report[r].fresh[a]
           /\ Ended(r, a)
    <2>1. ASSUME NEW f \in heard', IsFor(f, r)', f.ap = a PROVE Key(f) \in report'[r].fresh[a]
        <3>1. IsFor(f, r)
            BY <2>1 DEF IsFor, SameRound
        <3> QED BY <1>3, <2>1, <3>1 DEF Ended
    <2> QED BY <1>3, <2>1
<1> QED BY <1>1, <1>2, <1>3 DEF Told

LEMMA CommandHolds ==
    ASSUME Orderly, NInv, TInv, BInv, HInv, NEW r \in Runs, NEW reach, NEW toStation,
           Command(r, reach, toStation)
    PROVE  HInv'
<1> DEFINE m == [run |-> r, batch |-> batch[r] + 1, since |-> since[r]]
<1>1. /\ phase' = [phase EXCEPT ![r] = "waiting"] /\ batch' = [batch EXCEPT ![r] = @ + 1]
      /\ report' = [report EXCEPT ![r] = Silent] /\ result' = [result EXCEPT ![r] = NoResult]
      /\ asked' = [asked EXCEPT ![r] = known[r]]
      /\ apIn' = [a \in Plan |-> IF a \in reach THEN Append(apIn[a], m) ELSE apIn[a]]
      /\ staIn' = IF toStation THEN Append(staIn, m) ELSE staIn
      /\ heard' = Forgotten(heard, r)
      /\ UNCHANGED <<ordinal, since, known, epoch, air, job>>
    BY DEF Command, vars, stationVars
<1>2. air = {} /\ ~job.active /\ (\A a \in Plan : apIn[a] = <<>>) /\ staIn = <<>>
    BY CommandTurns
<1>3. /\ ~report'[r].given /\ ~Measured(r)' /\ asked'[r] = known[r]
      /\ \A q \in Runs : q # r => /\ batch'[q] = batch[q] /\ report'[q] = report[q]
                                 /\ result'[q] = result[q] /\ asked'[q] = asked[q]
                                 /\ phase'[q] = phase[q]
      /\ DOMAIN asked' = Runs
    BY <1>1 DEF NInv, NTypes, TInv, HInv, Asked, Silent, Measured, NoResult
<1>4. m.run = r /\ m.since = since[r]
    OBVIOUS
<1> HIDE DEF m
<1>5. /\ Append(<<>>, m) = <<m>> /\ <<m>>[1] = m /\ DOMAIN <<m>> = {1} /\ DOMAIN <<>> = {}
    OBVIOUS
<1>6. HeardTypes'
    BY <1>1 DEF HInv, HeardTypes, Forgotten
<1>7. Asked'
    <2>1. known[r] \in {0, epoch} => since[r] <= ordinal
        BY DEF BInv, BarrierHeals, HInv, Asked
    <2>2. staIn' # <<>> => staIn'[1] = m
        BY <1>1, <1>2, <1>5
    <2>3. staIn' # <<>> /\ asked'[staIn'[1].run] \in {0, epoch'} => staIn'[1].since <= ordinal'
        BY <1>1, <1>3, <1>4, <2>1, <2>2
    <2>4. ~job'.active /\ \A q \in Runs : known'[q] = 0 => since'[q] = 0
        BY <1>1, <1>2 DEF HInv, Asked
    <2> QED BY <1>3, <2>3, <2>4 DEF Asked, Comparable
<1>8. Held'
    BY <1>1, <1>2 DEF Held
<1>9. Told'
    <2> SUFFICES ASSUME NEW q \in Runs, NEW a \in Aps, Trusted(q, a)'
                 PROVE  \/ report'[q].fresh[a] = AllOf(batch'[q])
                        \/ /\ \A f \in heard' : IsFor(f, q)' /\ f.ap = a =>
                                                    Key(f) \in report'[q].fresh[a]
                           /\ Ended(q, a)'
        BY DEF Told
    <2>1. q # r /\ Trusted(q, a)
        BY <1>3 DEF Trusted
    <2>2. \A f \in heard' : IsFor(f, q)' => f \in heard /\ IsFor(f, q)
        BY <1>1, <1>3, <2>1 DEF Forgotten, IsFor, SameRound
    <2>3. Ended(q, a)'
        <3>1. a \in Plan
            BY RoundAssumption
        <3>2. apIn'[a] = <<>> \/ apIn'[a] = <<m>>
            BY <1>1, <1>2, <1>5, <3>1
        <3>3. \A i \in DOMAIN apIn'[a] : apIn'[a][i] = m
            BY <1>5, <3>2
        <3>4. m.run # q
            BY <1>4, <2>1
        <3> QED BY <1>1, <1>2, <3>3, <3>4 DEF Ended, IsFor, SameRound
    <2>4. batch'[q] = batch[q] /\ report'[q] = report[q]
        BY <1>3, <2>1
    <2> QED BY <2>1, <2>2, <2>3, <2>4 DEF HInv, Told
<1>10. Judged'
    <2>1. \A q \in Runs : Measured(q)' => q # r /\ Measured(q)
        BY <1>3 DEF Measured
    <2>2. \A q \in Runs, a \in Aps : LinkOK(q, a)' => q # r /\ LinkOK(q, a)
        BY <1>3, <2>1 DEF LinkOK
    <2> QED BY <1>3, <2>1, <2>2 DEF HInv, Judged
<1> QED BY <1>6, <1>7, <1>8, <1>9, <1>10 DEF HInv

\* Steps that change nothing the receiver counts or answers.
LEMMA SameHeld ==
    ASSUME HeardTypes, Held, UNCHANGED <<batch, asked, job, epoch, runId, buckets, heard>>
    PROVE  HeardTypes' /\ Held'
BY DEF HeardTypes, Held, Comparable, IsFor, SameRound, Key, WireOf, SeqBase

LEMMA QuietHolds ==
    ASSUME HInv, UNCHANGED <<phase, batch, since, known, report, result, asked, apIn, staIn, job,
                             epoch, runId, buckets, ordinal, heard>>,
           air' \subseteq air
    PROVE  HInv'
<1>1. Asked'
    BY DEF HInv, Asked, Comparable
<1>2. Told'
    <2>1. \A r \in Runs, a \in Aps : Ended(r, a) => Ended(r, a)'
        BY DEF Ended, IsFor, SameRound
    <2> QED BY <2>1, ToldKept DEF HInv
<1>3. Judged'
    BY JudgedKept DEF HInv
<1> QED BY <1>1, <1>2, <1>3, SameHeld DEF HInv

LEMMA FireHolds ==
    ASSUME Orderly, NInv, TInv, HInv, NEW a \in Plan, NEW x \in Firings, NEW reached,
           ApFire(a, x, reached)
    PROVE  HInv'
<1> DEFINE m == Head(apIn[a])
           out == FramesOf(m.run, m.batch, a, x.out)
<1>1. /\ air' = IF a \in Aps THEN air \cup out ELSE air
      /\ UNCHANGED <<runId, buckets, ordinal, phase, batch, since, known, report, result, asked,
                     staIn, job, epoch, heard>>
    BY DEF ApFire, vars, stationVars
<1>2. /\ apIn'[a] = <<>> /\ apIn[a] # <<>> /\ m = apIn[a][1]
      /\ \A b \in Plan : b # a => apIn'[b] = apIn[b]
    BY FireTurns
<1>3. \A f \in out : f.run = m.run /\ f.batch = m.batch /\ f.ap = a
    BY DEF FramesOf
<1>4. 1 \in DOMAIN apIn[a] /\ DOMAIN <<>> = {}
    BY <1>2 DEF NInv, NTypes
<1> HIDE DEF m, out
<1>5. Asked'
    BY <1>1 DEF HInv, Asked, Comparable
<1>6. Told'
    <2>1. ASSUME NEW r \in Runs, NEW b \in Aps, Ended(r, b) PROVE Ended(r, b)'
        <3>1. b \in Plan
            BY RoundAssumption
        <3>2. \A i \in DOMAIN apIn'[b] : ~IsFor(apIn[b][i], r) /\ apIn'[b][i] = apIn[b][i]
            BY <1>2, <1>4, <2>1, <3>1 DEF Ended
        <3>3. ASSUME NEW f \in out, b = a PROVE ~IsFor(f, r)
            <4>1. ~IsFor(m, r)
                BY <1>2, <1>4, <2>1, <3>3 DEF Ended
            <4> QED BY <1>3, <4>1 DEF IsFor, SameRound
        <3>4. \A f \in air' : ~(IsFor(f, r) /\ f.ap = b)
            BY <1>1, <1>3, <2>1, <3>3 DEF Ended
        <3> QED BY <1>1, <3>2, <3>4 DEF Ended, IsFor, SameRound
    <2> QED BY <1>1, <2>1, ToldKept DEF HInv
<1>7. Judged'
    BY <1>1, JudgedKept DEF HInv
<1> QED BY <1>1, <1>5, <1>6, <1>7, SameHeld DEF HInv

LEMMA TakeHolds == ASSUME NInv, TInv, HInv, Take PROVE HInv'
<1>1. /\ job' = [active |-> TRUE, run |-> Head(staIn).run, batch |-> Head(staIn).batch,
                 since |-> Head(staIn).since, other |-> otherFrames]
      /\ UNCHANGED <<ordinal, phase, batch, since, known, report, result, asked, apIn, epoch,
                     air, heard>>
    BY DEF Take, SetRun, sessionVars, airVars
<1>2. staIn' = <<>> /\ staIn # <<>> /\ Head(staIn) = staIn[1]
    BY TakeTurns
<1>3. job'.run = staIn[1].run /\ job'.since = staIn[1].since
    BY <1>1, <1>2
<1>4. Asked'
    BY <1>1, <1>2, <1>3 DEF HInv, Asked, Comparable
<1>5. Held'
    <2>1. \A f \in heard : ~IsFor(f, staIn[1].run)
        BY <1>2 DEF TInv, InOrder
    <2> QED BY <1>1, <1>3, <2>1 DEF Held, IsFor, SameRound
<1>6. Told'
    <2>1. \A r \in Runs, a \in Aps : Ended(r, a) => Ended(r, a)'
        BY <1>1 DEF Ended, IsFor, SameRound
    <2> QED BY <1>1, <2>1, ToldKept DEF HInv
<1>7. HeardTypes' /\ Judged'
    BY <1>1, JudgedKept DEF HInv, HeardTypes
<1> QED BY <1>4, <1>5, <1>6, <1>7 DEF HInv

LEMMA RestartHolds == ASSUME HInv, StationRestart PROVE HInv'
<1>1. /\ ~job'.active /\ staIn' = <<>>
      /\ UNCHANGED <<phase, batch, since, known, report, result, asked, apIn, air, heard>>
    BY DEF StationRestart, NoJob, sessionVars, airVars
<1>2. HeardTypes' /\ Asked' /\ Held'
    BY <1>1 DEF HInv, HeardTypes, Asked, Held
<1>3. Told'
    <2>1. \A r \in Runs, a \in Aps : Ended(r, a) => Ended(r, a)'
        BY <1>1 DEF Ended, IsFor, SameRound
    <2> QED BY <1>1, <2>1, ToldKept DEF HInv
<1>4. Judged'
    BY <1>1, JudgedKept DEF HInv
<1> QED BY <1>2, <1>3, <1>4 DEF HInv

LEMMA JudgeHolds ==
    ASSUME NInv, TInv, HInv, NEW r \in Runs, Collect(r) \/ Timeout(r) PROVE HInv'
<1>1. /\ phase' = [phase EXCEPT ![r] = "idle"]
      /\ UNCHANGED <<runId, buckets, ordinal, batch, since, known, report, asked, apIn, staIn,
                     job, epoch, air, heard>>
    BY DEF Collect, Timeout, vars, stationVars, airVars
<1>2. /\ phase'[r] = "idle" /\ (\A q \in Runs : q # r => phase'[q] = phase[q])
      /\ \A q \in Runs : q # r => result'[q] = result[q]
    BY <1>1 DEF TInv, Collect, Timeout, NInv, NTypes
<1>3. Asked'
    BY <1>1 DEF HInv, Asked, Comparable
<1>4. Told'
    <2>1. \A q \in Runs, a \in Aps : Ended(q, a) => Ended(q, a)'
        BY <1>1 DEF Ended, IsFor, SameRound
    <2> QED BY <1>1, <2>1, ToldKept DEF HInv
<1>5. ASSUME NEW a \in Aps, LinkOK(r, a)'
      PROVE  /\ report[r].given /\ a \in report[r].watching /\ report[r].coverage[a] = "full"
             /\ result'[r].counted[a] = CountedOf(report[r], a, result'[r].joint)
    <2>1. Collect(r)
        BY <1>5 DEF Timeout, NodeMissing, LinkOK, Measured, NInv, NTypes
    <2> DEFINE joint == JointSeqs(status[r], Plan)
    <2>2. /\ result'[r].joint = joint
          /\ result'[r].verdict[a] = LinkVerdict(a, Seen(status[r][a]), report[r], joint, Idxs)
          /\ result'[r].counted[a] = IF a \in report[r].watching
                                     THEN CountedOf(report[r], a, joint) ELSE {}
        BY <2>1 DEF Collect, NInv, NTypes
    <2>3. LinkVerdict(a, Seen(status[r][a]), report[r], joint, Idxs) = "OK"
        BY <1>5, <2>2 DEF LinkOK
    <2> HIDE DEF joint
    <2>4. ~Uncountable(a, report[r], joint, Idxs)
        BY <2>3 DEF LinkVerdict
    <2> QED BY <2>2, <2>4 DEF Uncountable
<1>6. Judged'
    <2>1. \A q \in Runs : Measured(q)' => phase'[q] = "idle"
        BY <1>2 DEF HInv, Judged, Measured
    <2>2. \A q \in Runs, a \in Aps : q # r /\ LinkOK(q, a)' => LinkOK(q, a)
        BY <1>2 DEF LinkOK, Measured
    <2> QED BY <1>1, <1>2, <1>5, <2>1, <2>2 DEF HInv, Judged
<1> QED BY <1>1, <1>3, <1>4, <1>6, SameHeld DEF HInv

\* The receiver answers, in one of its two ways.
LEMMA ReportHolds ==
    ASSUME NInv, TInv, BInv, HInv, NEW m, NEW reached, OnReport(m, reached),
           m.epoch = epoch, m.run = job.run, m.batch = job.batch, job.active, job' = NoJob,
           UNCHANGED <<phase, batch, result, asked, apIn, staIn, epoch, runId, buckets, ordinal,
                       air, heard>>,
           \A a \in Aps : a \in m.watching /\ m.coverage[a] = "full" /\ Comparable(job.run) =>
               \/ m.fresh[a] = AllOf(m.batch)
               \/ /\ \A f \in heard : IsFor(f, job.run) /\ f.ap = a => Key(f) \in m.fresh[a]
                  /\ Ended(job.run, a)
    PROVE  HInv'
<1>1. /\ DOMAIN report' = Runs
      /\ \A r \in Runs : report'[r] = IF r \in reached /\ m.run = r /\ m.batch = batch[r]
                                      THEN m ELSE report[r]
      /\ \A r \in Runs : \/ since'[r] = since[r] /\ known'[r] = known[r]
                         \/ known'[r] = epoch
    BY DEF OnReport, Mine
<1>2. staIn = <<>> /\ Present(job)
    BY DEF TInv, Turns
<1>3. Asked'
    BY <1>1, <1>2 DEF HInv, Asked, NoJob, BInv
<1>4. Told'
    <2> SUFFICES ASSUME NEW r \in Runs, NEW a \in Aps, Trusted(r, a)'
                 PROVE  \/ report'[r].fresh[a] = AllOf(batch'[r])
                        \/ /\ \A f \in heard' : IsFor(f, r)' /\ f.ap = a =>
                                                    Key(f) \in report'[r].fresh[a]
                           /\ Ended(r, a)'
        BY DEF Told
    <2>1. /\ Ended(r, a) => Ended(r, a)'
          /\ \A f \in heard' : IsFor(f, r)' => IsFor(f, r)
        BY DEF Ended, IsFor, SameRound
    <2>2. CASE report'[r] = report[r]
        <3>1. Trusted(r, a)
            BY <2>2 DEF Trusted
        <3> QED BY <2>1, <2>2, <3>1 DEF HInv, Told
    <2>3. CASE m.run = r /\ m.batch = batch[r] /\ report'[r] = m
        <3>1. a \in m.watching /\ m.coverage[a] = "full" /\ Comparable(job.run)
            BY <2>3 DEF Trusted, Comparable
        <3> QED BY <2>1, <2>3, <3>1
    <2> QED BY <1>1, <2>2, <2>3
<1>5. Judged'
    <2>1. \A r \in Runs : phase[r] = "idle" => report'[r] = report[r]
        BY <1>1, <1>2 DEF Present
    <2> QED BY <2>1, JudgedKept DEF HInv
<1>6. HeardTypes' /\ Held'
    BY DEF HInv, HeardTypes, Held, NoJob
<1> QED BY <1>3, <1>4, <1>5, <1>6 DEF HInv

LEMMA FailHolds ==
    ASSUME NInv, TInv, BInv, HInv, NEW reached, StationFails(reached) PROVE HInv'
<1> DEFINE m == [given |-> TRUE, run |-> job.run, batch |-> job.batch, error |-> "failed",
                epoch |-> epoch, ordinal |-> 0, alive |-> FALSE, watching |-> {},
                fresh |-> [a \in Aps |-> {}], coverage |-> [a \in Aps |-> "full"]]
<1>1. /\ OnReport(m, reached) /\ job.active /\ job' = NoJob
      /\ UNCHANGED <<phase, batch, result, asked, apIn, staIn, epoch, runId, buckets, ordinal,
                     air, heard>>
    BY DEF StationFails, Publish, vars, airVars
<1>2. m.epoch = epoch /\ m.run = job.run /\ m.batch = job.batch /\ m.watching = {}
    OBVIOUS
<1> HIDE DEF m
<1> QED BY <1>1, <1>2, ReportHolds

\* The keys of a round: a range that does not fold, of one key per shot.
LEMMA RoundKeys ==
    ASSUME FirstLap, NEW b \in 1 .. MaxRounds
    PROVE  /\ SeqBase(b) \in Wire /\ Shots \in 1 .. Modulus - SeqBase(b)
           /\ \A s \in Slots : WireOf(b, s) \in WireRange(SeqBase(b), Shots)
           /\ IsFiniteSet(AllOf(b)) /\ Cardinality(AllOf(b)) = Shots * Cardinality(Idxs)
<1>1. Shots \in Nat \ {0} /\ 0 \in Slots /\ Shots - 1 \in Slots
    BY RoundAssumption DEF Slots
<1> DEFINE lo == SeqBase(b)
<1>2. lo = Number(b, 0) /\ lo \in Wire
    BY <1>1, Unfolded
<1>3. \A s \in Slots : WireOf(b, s) = Number(b, s) /\ Number(b, s) \in Wire
    BY Unfolded
<1>4. \A s \in Slots : Number(b, s) = lo + s
    BY <1>2, RoundAssumption DEF Number, Slots
<1>5. lo \in 0 .. Modulus - 1 /\ lo + (Shots - 1) <= Modulus - 1 /\ Modulus \in Nat
    BY <1>1, <1>2, <1>3, <1>4, ModulusAssumption DEF Wire
<1>6. WireRange(lo, Shots) = {WireOf(b, s) : s \in Slots}
    BY DEF WireRange, WireOf, Slots
<1> HIDE DEF lo
<1>7. WireRange(lo, Shots) = lo .. lo + (Shots - 1)
    <2>1. ASSUME NEW k \in lo .. lo + (Shots - 1) PROVE \E s \in Slots : k = WireOf(b, s)
        <3>1. k - lo \in Slots /\ lo + (k - lo) = k
            BY <1>1, <1>5 DEF Slots
        <3> QED BY <1>3, <1>4, <3>1
    <2>2. \A s \in Slots : WireOf(b, s) \in lo .. lo + (Shots - 1)
        BY <1>1, <1>3, <1>4, <1>5 DEF Slots
    <2> QED BY <1>6, <2>1, <2>2
<1>8. IsFiniteSet(WireRange(lo, Shots)) /\ Cardinality(WireRange(lo, Shots)) = Shots
    <2>1. lo \in Int /\ lo + (Shots - 1) \in Int /\ lo <= lo + (Shots - 1)
        BY <1>1, <1>5
    <2> QED BY <1>1, <1>5, <1>7, <2>1, FS_Interval
<1>9. IsFiniteSet(Idxs)
    BY RoundAssumption
<1>10. /\ IsFiniteSet(WireRange(lo, Shots) \X Idxs)
       /\ Cardinality(WireRange(lo, Shots) \X Idxs) = Shots * Cardinality(Idxs)
    BY <1>8, <1>9, FS_Product
<1> QED BY <1>1, <1>2, <1>5, <1>6, <1>10 DEF AllOf, lo

LEMMA AnswerHolds ==
    ASSUME Orderly, Late = {}, FirstLap, NInv, TInv, BInv, HInv,
           NEW reached, StationAnswer(reached)
    PROVE  HInv'
<1> DEFINE m == [given |-> TRUE, run |-> job.run, batch |-> job.batch, error |-> "none",
                epoch |-> epoch, ordinal |-> ordinal, alive |-> otherFrames # job.other,
                watching |-> Aps, fresh |-> [a \in Aps |-> FreshNow(a)],
                coverage |-> [a \in Aps |-> Coverage(buckets[runId][a],
                                                     SeqBase(job.batch), Shots)]]
<1>1. /\ OnReport(m, reached) /\ job.active /\ job' = NoJob /\ (AllIn \/ DeadlinePassed)
      /\ UNCHANGED <<phase, batch, result, asked, apIn, staIn, epoch, runId, buckets, ordinal,
                     air, heard>>
    BY DEF StationAnswer, Publish, vars, airVars
<1>2. /\ m.epoch = epoch /\ m.run = job.run /\ m.batch = job.batch
      /\ \A a \in Aps : /\ m.fresh[a] = FreshNow(a)
                        /\ m.coverage[a] = Coverage(buckets[runId][a], SeqBase(job.batch), Shots)
    OBVIOUS
<1> HIDE DEF m
<1>3. /\ job.run = runId /\ runId \in Runs /\ job.batch = batch[runId] /\ job.since \in Nat
      /\ job.batch \in 1 .. MaxRounds
    <2>1. /\ job.run = runId /\ job.run \in Runs /\ job.batch \in 1 .. batch[job.run]
          /\ job.since \in Nat
        BY <1>1 DEF NInv, AllCommanded, Commanded
    <2>2. job.batch = batch[job.run]
        BY <1>1 DEF TInv, Turns, Present
    <2>3. batch[job.run] \in 0 .. MaxRounds /\ MaxRounds \in Nat
        BY <2>1, RoundAssumption DEF NInv, NTypes
    <2>4. job.batch \in 1 .. MaxRounds
        BY <2>1, <2>3
    <2> QED BY <2>1, <2>2, <2>4
<1>4. ASSUME NEW a \in Aps, m.coverage[a] = "full", Comparable(job.run)
      PROVE  \/ m.fresh[a] = AllOf(m.batch)
             \/ /\ \A f \in heard : IsFor(f, job.run) /\ f.ap = a => Key(f) \in m.fresh[a]
                /\ Ended(job.run, a)
    <2>1. CASE AllIn
        <3>1. FreshNow(a) \subseteq AllOf(job.batch)
            BY DEF FreshNow, Fresh, AllOf
        <3>2. Cardinality(FreshNow(a)) >= Shots * Cardinality(Idxs)
            BY <2>1 DEF AllIn
        <3>3. IsFiniteSet(AllOf(job.batch)) /\ Cardinality(AllOf(job.batch)) = Shots * Cardinality(Idxs)
            BY <1>3, RoundKeys
        <3>4. /\ Cardinality(FreshNow(a)) <= Cardinality(AllOf(job.batch))
              /\ IsFiniteSet(FreshNow(a))
              /\ Cardinality(AllOf(job.batch)) = Cardinality(FreshNow(a)) =>
                     AllOf(job.batch) = FreshNow(a)
            BY <3>1, <3>3, FS_Subset
        <3>5. Cardinality(FreshNow(a)) \in Nat /\ Cardinality(AllOf(job.batch)) \in Nat
            BY <3>3, <3>4, FS_CardinalityType
        <3> QED BY <1>2, <3>2, <3>3, <3>4, <3>5
    <2>2. CASE DeadlinePassed
        <3>1. Ended(job.run, a)
            <4>1. a \in Plan \ Late
                BY RoundAssumption
            <4>2. /\ \A i \in DOMAIN apIn[a] : ~SameRound(apIn[a][i], job)
                  /\ \A f \in air : f.ap = a => ~SameRound(f, job)
                BY <2>2, <4>1 DEF DeadlinePassed
            <4> QED BY <1>3, <4>2 DEF Ended, IsFor, SameRound
        <3>2. ASSUME NEW f \in heard, IsFor(f, job.run), f.ap = a PROVE Key(f) \in m.fresh[a]
            <4>1. f.batch = job.batch /\ f.shot \in Slots /\ f.idx \in Idxs
                BY <1>3, <3>2 DEF IsFor, SameRound, HInv, HeardTypes
            <4>2. Key(f) = <<WireOf(job.batch, f.shot), f.idx>>
                BY <4>1 DEF Key
            <4> DEFINE w == WireOf(job.batch, f.shot)
            <4>3. w \in WireRange(SeqBase(job.batch), Shots)
                BY <1>3, <4>1, RoundKeys
            <4>4. WireRange(SeqBase(job.batch), Shots) \cap buckets[runId][a].forgotten = {}
                <5>1. FullMeansNothingForgotten
                    BY FullForgotNothing DEF NInv
                <5>2. SeqBase(job.batch) \in Wire /\ Shots \in 1 .. Modulus - SeqBase(job.batch)
                    BY <1>3, RoundKeys
                <5> QED BY <1>2, <1>3, <1>4, <5>1, <5>2 DEF FullMeansNothingForgotten
            <4> HIDE DEF w
            <4>5. \/ buckets[runId][a].got[w][f.idx] > job.since
                  \/ w \in buckets[runId][a].forgotten
                <5>1. Key(f)[1] = w
                    BY <4>2 DEF w
                <5> QED BY <1>1, <1>4, <3>2, <5>1 DEF HInv, Held
            <4>6. <<w, f.idx>> \in FreshNow(a)
                BY <4>1, <4>3, <4>4, <4>5 DEF FreshNow, Fresh
            <4> QED BY <1>2, <4>2, <4>6 DEF w
        <3> QED BY <3>1, <3>2
    <2> QED BY <1>1, <2>1, <2>2
<1> QED BY <1>1, <1>2, <1>4, ReportHolds

\* A frame on air is captured: if the receiver is in its round, it is counted.
LEMMA HearHolds ==
    ASSUME FirstLap, OwnAir, NInv, TInv, BInv, HInv, NEW f \in air, Hear(f)
    PROVE  HInv'
<1>1. /\ IF runId = NoRun THEN Unmatched ELSE Matched(f.ap, Key(f)[1], f.idx)
      /\ air' = air \ {f} /\ heard' = IF IsFor(f, f.run) THEN heard \cup {f} ELSE heard
      /\ UNCHANGED <<phase, batch, since, known, report, result, asked, apIn, staIn, job, epoch>>
    BY DEF Hear, Captured, sessionVars, stationVars
<1>2. /\ f.run \in Runs /\ f.batch \in 1 .. batch[f.run] /\ f.batch \in 1 .. MaxRounds
      /\ f.ap \in Aps /\ f.shot \in Slots /\ f.idx \in Idxs
    <2>1. Commanded(f) /\ f.ap \in Aps /\ f.shot \in Slots /\ f.idx \in Idxs
        BY DEF NInv, AllCommanded
    <2>2. f.batch \in 1 .. batch[f.run] /\ batch[f.run] \in 0 .. MaxRounds
        BY <2>1 DEF Commanded, NInv, NTypes
    <2> QED BY <2>1, <2>2, RoundAssumption DEF Commanded
<1>3. HeardTypes'
    BY <1>1, <1>2 DEF HInv, HeardTypes
<1>4. runId' = runId /\ ordinal' \in {ordinal, ordinal + 1} /\ ordinal \in Nat
    BY <1>1 DEF Matched, Unmatched, BInv
<1>5. Asked'
    <2>1. staIn # <<>> => staIn[1].since \in Nat
        <3>1. staIn # <<>> => staIn[1] \in Commands
            BY DEF NInv, NTypes
        <3> QED BY <3>1 DEF Commands
    <2>2. job.active => job.since \in Nat
        BY DEF NInv, AllCommanded
    <2> QED BY <1>1, <1>4, <2>1, <2>2 DEF HInv, Asked, Comparable
<1>6. Told'
    <2>1. \A r \in Runs, a \in Aps : Ended(r, a) => Ended(r, a)'
        BY <1>1 DEF Ended, IsFor, SameRound
    <2> QED BY <1>1, <2>1, ToldKept DEF HInv
<1>7. Judged'
    BY <1>1, JudgedKept DEF HInv
<1>8. Held'
    <2> SUFFICES ASSUME job.active, Comparable(job.run), NEW g \in heard', IsFor(g, job.run)
                 PROVE  \/ buckets'[runId][g.ap].got[Key(g)[1]][g.idx] > job.since
                        \/ Key(g)[1] \in buckets'[runId][g.ap].forgotten
        BY <1>1, <1>4 DEF Held, Comparable, IsFor, SameRound, Key, WireOf, SeqBase
    <2>1. job.run = runId /\ runId \in Runs /\ job.since \in Nat /\ job.since <= ordinal
        BY DEF NInv, AllCommanded, Commanded, HInv, Asked
    <2>2. runId # NoRun
        BY <2>1, RunAssumption
    <2> DEFINE w == WireOf(f.batch, f.shot)
               IsCounted(a, v, j) == \/ buckets[runId][a].got[v][j] > job.since
                                   \/ v \in buckets[runId][a].forgotten
    <2>3. Key(f) = <<w, f.idx>> /\ Key(f)[1] = w /\ w \in Wire
        BY <1>2, Unfolded DEF Key
    <2> HIDE DEF w
    <2>4. Matched(f.ap, w, f.idx)
        BY <1>1, <2>2, <2>3
    <2> DEFINE b == buckets[runId][f.ap]
               c == Record(b, w, f.idx, ordinal + 1)
    <2>5. /\ BucketOK(b) /\ b \in Buckets /\ ordinal + 1 \in Nat \ {0}
          /\ \A x \in Aps : buckets'[runId][x] = IF x = f.ap THEN c ELSE buckets[runId][x]
          /\ c \in Buckets
          /\ \A v \in Wire, j \in Idxs :
                 c.got[v][j] \in {0, IF b.got[v][j] = 0 THEN ordinal + 1 ELSE b.got[v][j]}
        BY <1>2, <1>4, <2>1, <2>3, <2>4, MatchedBuckets DEF NInv, IInv, BucketOK
    <2>6. /\ c.got[w][f.idx] # 0 /\ b.forgotten \subseteq c.forgotten
          /\ \A v \in Wire, j \in Idxs :
                 b.got[v][j] # 0 => c.got[v][j] # 0 \/ v \in c.forgotten
        BY <1>2, <2>3, <2>5, RecordKeeps
    <2> HIDE DEF b, c
    <2>7. ASSUME NEW a \in Aps, NEW v \in Wire, NEW j \in Idxs, IsCounted(a, v, j)
          PROVE  \/ buckets'[runId][a].got[v][j] > job.since
                 \/ v \in buckets'[runId][a].forgotten
        <3>1. CASE a # f.ap
            BY <2>5, <2>7, <3>1
        <3>2. CASE a = f.ap
            <4>1. buckets'[runId][a] = c
                BY <2>5, <3>2
            <4>2. b.got[v][j] > job.since \/ v \in b.forgotten
                BY <2>7, <3>2 DEF b
            <4>3. CASE v \in b.forgotten
                BY <2>6, <4>1, <4>3
            <4>4. CASE b.got[v][j] > job.since
                <5>1. b.got[v][j] \in Nat
                    BY <2>5 DEF Buckets
                <5>2. b.got[v][j] # 0
                    BY <2>1, <4>4, <5>1
                <5>3. c.got[v][j] = b.got[v][j] \/ v \in c.forgotten
                    BY <2>5, <2>6, <5>2
                <5> QED BY <4>1, <4>4, <5>3
            <4> QED BY <4>2, <4>3, <4>4
        <3> QED BY <3>1, <3>2
    <2>8. \A h \in heard : IsFor(h, runId) =>
              /\ h.ap \in Aps /\ h.idx \in Idxs /\ Key(h)[1] \in Wire /\ Key(h)[2] = h.idx
              /\ IsCounted(h.ap, Key(h)[1], h.idx)
        <3> SUFFICES ASSUME NEW h \in heard, IsFor(h, runId)
                     PROVE  /\ h.ap \in Aps /\ h.idx \in Idxs /\ Key(h)[1] \in Wire
                            /\ Key(h)[2] = h.idx
                            /\ IsCounted(h.ap, Key(h)[1], h.idx)
            OBVIOUS
        <3>1. /\ h.ap \in Aps /\ h.idx \in Idxs /\ h.batch \in 1 .. MaxRounds /\ h.shot \in Slots
            BY DEF HInv, HeardTypes
        <3>2. Key(h)[1] \in Wire /\ Key(h)[2] = h.idx
            BY <3>1, Unfolded DEF Key
        <3>3. IsCounted(h.ap, Key(h)[1], h.idx)
            BY <2>1 DEF HInv, Held
        <3> QED BY <3>1, <3>2, <3>3
    <2> HIDE DEF IsCounted
    <2>9. CASE g \in heard
        BY <2>1, <2>7, <2>8, <2>9
    <2>10. CASE g = f
        <3>1. f.run = runId /\ f.batch = batch[runId]
            BY <2>1, <2>10 DEF IsFor, SameRound
        <3>2. CASE b.got[w][f.idx] = 0
            <4>1. c.got[w][f.idx] = ordinal + 1
                BY <1>2, <2>3, <2>5, <2>6, <3>2
            <4>2. ordinal + 1 > job.since
                BY <1>4, <2>1
            <4> QED BY <1>2, <2>3, <2>5, <2>10, <4>1, <4>2
        <3>3. CASE b.got[w][f.idx] # 0
            <4>1. PICK d \in 1 .. batch[runId], s \in Slots :
                      /\ WireOf(d, s) = w
                      /\ d = batch[runId] => WasHeard(runId, f.ap, <<w, f.idx>>)
                BY <1>2, <2>1, <2>3, <3>3 DEF NInv, Stored, b
            <4>2. batch[runId] \in 0 .. MaxRounds /\ MaxRounds \in Nat
                BY <2>1, RoundAssumption DEF NInv, NTypes
            <4>3. d \in 1 .. MaxRounds
                BY <4>1, <4>2
            <4>4. Number(d, s) = Number(f.batch, f.shot)
                BY <1>2, <4>1, <4>3, Unfolded DEF w
            <4>5. d = f.batch
                BY <1>2, <4>3, <4>4, NumberTells
            <4>6. PICK h \in heard : IsFor(h, runId) /\ h.ap = f.ap /\ Key(h) = <<w, f.idx>>
                BY <3>1, <4>1, <4>5 DEF WasHeard
            <4>7. IsCounted(f.ap, w, f.idx)
                <5>1. Key(h)[1] = w /\ Key(h)[2] = f.idx
                    BY <4>6
                <5> QED BY <2>8, <4>6, <5>1
            <4> QED BY <1>2, <2>3, <2>7, <2>10, <4>7
        <3> QED BY <3>2, <3>3
    <2> QED BY <1>1, <2>9, <2>10
<1> QED BY <1>3, <1>5, <1>6, <1>7, <1>8 DEF HInv

\* The inductive invariant.
GInv == LInv /\ BInv /\ HInv

LEMMA InitHInv == InitRound => HInv
BY DEF InitRound, HInv, HeardTypes, Asked, Held, Told, Trusted, Judged, LinkOK, Measured, NoResult,
       NoJob, Silent

LEMMA NextHInv ==
    ASSUME Orderly, Late = {}, FirstLap, MaxResets = 0, GInv, [NextRound]_allVars
    PROVE  HInv'
<1> USE DEF GInv, LInv
<1>1. CASE \E r \in Runs, reach \in SUBSET Plan, toStation \in BOOLEAN :
              Command(r, reach, toStation)
    BY <1>1, CommandHolds
<1>2. CASE Controllers
    BY <1>2, JudgeHolds DEF Controllers
<1>3. CASE \E a \in Plan, x \in Firings, reached \in {{}, Runs} : ApFire(a, x, reached)
    BY <1>3, FireHolds
<1>4. CASE Take
    BY <1>4, TakeHolds
<1>5. CASE \E reached \in {{}, Runs} : StationAnswer(reached) \/ StationFails(reached)
    BY <1>5, AnswerHolds, FailHolds
<1>6. CASE \E f \in air : Hear(f)
    BY <1>6, HearHolds DEF OwnRun
<1>7. CASE StationRestart
    BY <1>7, RestartHolds
<1>8. CASE StationReset
    BY <1>8 DEF StationReset, BInv
<1>9. CASE HearOther \/ (\E f \in air : Lose(f)) \/ UNCHANGED allVars
    <2>1. /\ UNCHANGED <<phase, batch, since, known, report, result, asked, apIn, staIn, job,
                         epoch, runId, buckets, ordinal, heard>>
          /\ air' \subseteq air
        BY <1>9 DEF HearOther, Unmatched, Lose, allVars, vars, sessionVars, stationVars, airVars
    <2> QED BY <2>1, QuietHolds
<1> QED BY <1>1, <1>2, <1>3, <1>4, <1>5, <1>6, <1>7, <1>8, <1>9 DEF NextRound, Nodes

\* Where the nodes keep to their deadlines, a measured link is credited with
\* every frame the receiver captured in the round, unless its barrier came
\* from another instance of the receiver's agent: what is missing was lost on
\* air, whatever the bus and the air lose and whenever the agent dies.  It
\* holds until the numbers come round again, for a controller that is alone
\* and for several that take turns as long as no command misses the receiver
\* (_await_round, _on_report, link_results).
THEOREM NothingHeardLostHolds ==
    ASSUME Orderly, Late = {}, FirstLap, MaxResets = 0, ToldApart
    PROVE  SpecRound => []NothingHeardLost
<1>1. InitRound => GInv
    BY InitLInv, InitBInv, InitHInv DEF GInv
<1>2. GInv /\ [NextRound]_allVars => GInv'
    BY NextLInv, NextBInv, NextHInv DEF GInv
<1>3. GInv => NothingHeardLost
    <2> SUFFICES ASSUME LInv, HInv, NEW r \in Runs, NEW a \in Aps, LinkOK(r, a),
                        asked[r] \in {0, report[r].epoch}, NEW k \in TrulyHeard(r, a)
                 PROVE  k \in result[r].counted[a]
        BY DEF GInv, NothingHeardLost
    <2>1. /\ Trusted(r, a)
          /\ result[r].counted[a] = CountedOf(report[r], a, result[r].joint)
        BY DEF HInv, Judged, Trusted
    <2>2. PICK f \in heard : /\ IsFor(f, r) /\ f.ap = a /\ k = Key(f)
                             /\ WireOf(f.batch, f.shot) \in result[r].joint
        BY DEF TrulyHeard
    <2>3. k[1] \in result[r].joint
        BY <2>2 DEF Key
    <2>4. f.batch = batch[r] /\ f.batch \in 1 .. MaxRounds /\ f.shot \in Slots /\ f.idx \in Idxs
        BY <2>2 DEF IsFor, SameRound, HInv, HeardTypes
    <2>5. Key(f) \in AllOf(batch[r])
        BY <2>4, RoundKeys DEF Key, AllOf
    <2>6. k \in report[r].fresh[a]
        BY <2>1, <2>2, <2>5 DEF HInv, Told
    <2> QED BY <2>1, <2>3, <2>6 DEF CountedOf
<1> QED BY <1>1, <1>2, <1>3, PTL DEF SpecRound
=============================================================================
