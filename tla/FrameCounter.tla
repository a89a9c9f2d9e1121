---------------------------- MODULE FrameCounter ----------------------------
(***************************************************************************)
(* The counters one receiver keeps: class FrameCounter of cosr/counter.py. *)
(*                                                                         *)
(* A stamped frame carries the sequence number of its shot, folded onto    *)
(* the wire field, and its position inside the aggregate.  The counter     *)
(* remembers, per run and per transmitter, the ordinal under which each    *)
(* (seq, idx) was first matched; it forgets the keys that arrived first    *)
(* once more than SeqRetain are resident, and the oldest run once more     *)
(* than RunRetain are held.  A report is a pure function of that state.    *)
(*                                                                         *)
(* Signal levels, receive times, modulation indices and the observed       *)
(* channel are data that no decision of this class depends on: left out.   *)
(***************************************************************************)
EXTENDS Integers, Sequences, FiniteSets, Functions

CONSTANTS
    Runs,        \* run identifiers
    NoRun,       \* the counter has been told of no run yet (run_id is None)
    Aps,         \* addresses watched
    Idxs,        \* subframe positions inside an aggregate
    Modulus,     \* values of the wire sequence field (65536 in the code)
    SeqRetain,   \* keys kept per (run, transmitter) (4096 in the code)
    RunRetain,   \* runs kept (2 in the code)
    MaxOrdinal,  \* bound: frames matched as ours
    MaxOther     \* bound: frames seen that are not ours

\* wire.SeqAllocator.check_retention refuses a window of half the field or
\* more, so does the model; a window of no key at all is no counter.
ASSUME ModulusAssumption ==
    /\ Modulus \in Nat
    /\ SeqRetain \in Nat \ {0}
    /\ 2 * SeqRetain < Modulus
ASSUME RunAssumption == RunRetain \in Nat \ {0} /\ NoRun \notin Runs
ASSUME BoundAssumption == MaxOrdinal \in Nat /\ MaxOther \in Nat

VARIABLES
    runOrder,    \* _run_order: the runs held, oldest first
    runId,       \* run_id: the run frames are counted in
    buckets,     \* _runs: what was matched, per run and transmitter
    ordinal,     \* frames matched as ours, all runs
    otherFrames  \* frames that are not ours

vars == <<runOrder, runId, buckets, ordinal, otherFrames>>

---------------------------------------------------------------------------
(* A bucket: one transmitter's observations within one run.                *)

Wire == 0 .. Modulus - 1

NothingYet == -1    \* evicted_max is None

Buckets == [got       : [Wire -> [Idxs -> Nat]],    \* 0: not resident
            order     : Seq(Wire),
            evicted   : {NothingYet} \cup Wire,
            forgotten : SUBSET Wire]    \* history: the keys ever evicted

EmptyBucket == [got       |-> [w \in Wire |-> [i \in Idxs |-> 0]],
                order     |-> <<>>,
                evicted   |-> NothingYet,
                forgotten |-> {}]

Forget(b, w) ==
    [got       |-> [b.got EXCEPT ![w] = [i \in Idxs |-> 0]],
     order     |-> Tail(b.order),
     evicted   |-> IF w > b.evicted THEN w ELSE b.evicted,
     forgotten |-> b.forgotten \cup {w}]

\* A plausible slip: one key more than the window is allowed to stay.
EvictLate(b) == IF Len(b.order) > SeqRetain + 1 THEN Forget(b, Head(b.order)) ELSE b

\* The earliest arrival goes.  One key enters at a time, so the loop of the
\* code runs at most once; WindowBounded checks that this is enough.
Evict(b) == IF Len(b.order) > SeqRetain THEN Forget(b, Head(b.order)) ELSE b

\* The key's first frame makes it resident and may push another key out.
Admit(b, w) == IF w \in Range(b.order)
               THEN b
               ELSE Evict([b EXCEPT !.order = Append(@, w)])

\* A plausible slip: a repeated (seq, idx) takes the new ordinal.
RecordAgain(b, w, i, o) == [Admit(b, w) EXCEPT !.got[w][i] = o]

\* A repeated (seq, idx) changes nothing: it keeps the ordinal of the first.
Record(b, w, i, o) ==
    LET c == Admit(b, w)
    IN  IF c.got[w][i] = 0 THEN [c EXCEPT !.got[w][i] = o] ELSE c

---------------------------------------------------------------------------
(* Reports.                                                                *)

WireRange(lo, n) == {(lo + k) % Modulus : k \in 0 .. n - 1}

\* A plausible slip: the frame that set the barrier counts again.
FreshInclusive(b, lo, n, since) ==
    {k \in WireRange(lo, n) \X Idxs : b.got[k[1]][k[2]] \notin {0} \cup (1 .. since - 1)}

\* The subframes a report counts; rx is how many there are.
Fresh(b, lo, n, since) ==
    {k \in WireRange(lo, n) \X Idxs : b.got[k[1]][k[2]] > since}

CoverageOffByOne(b, lo, n) ==
    IF b.evicted = NothingYet \/ lo >= b.evicted THEN "full"
    ELSE IF lo + n - 1 <= b.evicted THEN "evicted"
    ELSE "partial"

Coverage(b, lo, n) ==
    IF b.evicted = NothingYet \/ lo > b.evicted THEN "full"
    ELSE IF lo + n - 1 <= b.evicted THEN "evicted"
    ELSE "partial"

---------------------------------------------------------------------------
(* Operations.                                                             *)

Init ==
    /\ runOrder = <<>>
    /\ runId = NoRun
    /\ buckets = [r \in Runs |-> [a \in Aps |-> EmptyBucket]]
    /\ ordinal = 0
    /\ otherFrames = 0

\* A plausible slip: a new run is added and none is ever dropped.
SetRunDropsNone(r) ==
    /\ runId' = r
    /\ runOrder' = IF r \in Range(runOrder) THEN runOrder ELSE Append(runOrder, r)
    /\ UNCHANGED <<buckets, ordinal, otherFrames>>

\* set_run: begin a run, or resume one still held.
SetRun(r) ==
    /\ runId' = r
    /\ IF r \in Range(runOrder)
       THEN UNCHANGED <<runOrder, buckets>>
       ELSE LET held == Append(runOrder, r)
            IN  IF Len(held) > RunRetain
                THEN /\ runOrder' = Tail(held)
                     /\ buckets' = [buckets EXCEPT ![Head(held)] =
                                        [a \in Aps |-> EmptyBucket]]
                ELSE /\ runOrder' = held
                     /\ UNCHANGED buckets
    /\ UNCHANGED <<ordinal, otherFrames>>

\* observe_parsed, a frame stamped for this station by a watched address
\* once a run is known.
Matched(a, w, i) ==
    /\ runId # NoRun
    /\ ordinal < MaxOrdinal
    /\ ordinal' = ordinal + 1
    /\ buckets' = [buckets EXCEPT ![runId][a] = Record(@, w, i, ordinal + 1)]
    /\ UNCHANGED <<runOrder, runId, otherFrames>>

\* observe and observe_parsed, any other frame: not parsed, no stamp, another
\* source, another station's, or no run known yet.
Unmatched ==
    /\ otherFrames < MaxOther
    /\ otherFrames' = otherFrames + 1
    /\ UNCHANGED <<runOrder, runId, buckets, ordinal>>

Next ==
    \/ \E r \in Runs : SetRun(r)
    \/ \E a \in Aps, w \in Wire, i \in Idxs : Matched(a, w, i)
    \/ Unmatched

Spec == Init /\ [][Next]_vars

---------------------------------------------------------------------------
(* Properties.                                                             *)

TypeOK ==
    /\ runOrder \in Seq(Runs)
    /\ runId \in Runs \cup {NoRun}
    /\ buckets \in [Runs -> [Aps -> Buckets]]
    /\ ordinal \in Nat
    /\ otherFrames \in Nat

\* The current run is always one of those held, so a matched frame always
\* has a bucket: _bucket never finds its run evicted (counter.py:90-99).
CurrentRunHeld == runId # NoRun => runId \in Range(runOrder)

RunsBounded == Len(runOrder) <= RunRetain /\ IsInjective(runOrder)

\* Only the runs held have anything in their buckets.
DroppedRunsEmpty ==
    \A r \in Runs \ Range(runOrder) : buckets[r] = [a \in Aps |-> EmptyBucket]

\* What a run is counted in is bounded and inherits nothing: the runs held
\* never exceed the limit, the current one is among them, and a run that was
\* dropped starts again from nothing (set_run, counter.py:81-88).
RunMemory == CurrentRunHeld /\ RunsBounded /\ DroppedRunsEmpty

\* `order` lists exactly the resident keys, each once, and never more than
\* the window: the two structures _evict keeps in step (counter.py:162-176).
InStep(b) ==
    /\ IsInjective(b.order)
    /\ Len(b.order) <= SeqRetain
    /\ \A w \in Wire : w \in Range(b.order) <=> \E i \in Idxs : b.got[w][i] # 0

WindowBounded == \A r \in Runs, a \in Aps : InStep(buckets[r][a])

\* A report whose barrier is the counter's present ordinal counts nothing:
\* what a round saw cannot leak into the next one (counter.py:190-196).
BarrierExcludesPast ==
    \A r \in Runs, a \in Aps, lo \in Wire :
        Fresh(buckets[r][a], lo, Modulus, ordinal) = {}

\* Coverage "full" is a promise that nothing in the range was ever forgotten
\* in this run, for every range that does not straddle the fold of the wire
\* field; anything else is a lower bound the caller must see
\* (_coverage and report, counter.py:180-196).
FullMeansNothingForgotten ==
    \A r \in Runs, a \in Aps, lo \in Wire :
        \A n \in 1 .. Modulus - lo :
            Coverage(buckets[r][a], lo, n) = "full" =>
                WireRange(lo, n) \cap buckets[r][a].forgotten = {}

\* The ordinal of an observation is that of its first frame for as long as
\* it is resident: a retransmission heard after the barrier does not move an
\* old observation into the new round (counter.py:151-157).
NeverRedated ==
    [][\A r \in Runs, a \in Aps, w \in Wire, i \in Idxs :
        (buckets[r][a].got[w][i] # 0 /\ buckets'[r][a].got[w][i] # 0) =>
        buckets'[r][a].got[w][i] = buckets[r][a].got[w][i]]_vars
=============================================================================
