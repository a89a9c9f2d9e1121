---------------------------- MODULE CounterRounds ----------------------------
(***************************************************************************)
(* One receiver's counters under the rounds of one controller: the         *)
(* sequence numbers of cosr/wire.py (SeqAllocator), the barrier of         *)
(* cosr/session.py (_since) and the counters of cosr/counter.py, with the  *)
(* frames of a round reaching the receiver late, repeated or never.        *)
(*                                                                         *)
(* The history `captured` records what the wire field cannot carry: which  *)
(* shot, counted from the start of the run, each frame really belonged to. *)
(***************************************************************************)
EXTENDS FrameCounter

CONSTANTS
    Repeats,   \* shots of a round (repeats)
    MaxShots   \* bound: shots of the run

\* A frame may be captured until the round after next is commanded (the
\* actions below), so three rounds must not span the wire field: at 65536
\* values they are far from it.
ASSUME ShotsAssumption ==
    /\ Repeats \in Nat \ {0}
    /\ 3 * Repeats <= Modulus
    /\ MaxShots \in Nat

VARIABLES
    nextSeq,   \* SeqAllocator._next
    base,      \* first shot of the round last commanded
    open,      \* the receiver has been told of the round and has not answered
    barrier,   \* Session._since: the ordinal of the receiver's last report
    flying,    \* frames that may still reach the receiver
    captured   \* history: the frames matched, with their ordinals

roundVars == <<nextSeq, base, open, barrier, flying, captured>>
counterVars == <<vars, roundVars>>

Frames == [ap : Aps, shot : Nat, idx : Idxs]
Captures == [ap : Aps, shot : Nat, idx : Idxs, at : Nat]

OnWire(shot) == shot % Modulus

InitRounds ==
    /\ Init
    /\ nextSeq = 0
    /\ base = 0
    /\ open = FALSE
    /\ barrier = 0
    /\ flying = {}
    /\ captured = {}

\* Session.run allocates the round's shots and commands it; the receiver's
\* on_fire begins the run; the frames go on air.  What an earlier round than
\* the last one has not delivered by now is lost.
StartRound(r) ==
    /\ ~open
    /\ nextSeq + Repeats <= MaxShots
    /\ base' = nextSeq
    /\ nextSeq' = nextSeq + Repeats
    /\ open' = TRUE
    /\ flying' = {f \in flying : f.shot >= base}
                  \cup [ap : Aps, shot : base' .. base' + Repeats - 1, idx : Idxs]
    /\ SetRun(r)
    /\ UNCHANGED <<barrier, captured>>

\* A frame is captured; it may be captured again (a retransmission).
Capture(f) ==
    /\ f \in flying
    /\ Matched(f.ap, OnWire(f.shot), f.idx)
    /\ captured' = captured \cup {[ap |-> f.ap, shot |-> f.shot, idx |-> f.idx, at |-> ordinal']}
    /\ flying' \in {flying, flying \ {f}}
    /\ UNCHANGED <<nextSeq, base, open, barrier>>

\* A plausible slip: the barrier is never moved.
AnswerNoBarrier ==
    /\ open
    /\ open' = FALSE
    /\ UNCHANGED <<vars, nextSeq, base, flying, captured, barrier>>

\* The receiver answers with everything counted (StationAgent.on_fire) and
\* the controller takes the ordinal of the answer as its next barrier
\* (Session._on_report).
Answer ==
    /\ open
    /\ open' = FALSE
    /\ barrier' = ordinal
    /\ UNCHANGED <<vars, nextSeq, base, flying, captured>>

NextRounds ==
    \/ \E r \in Runs : StartRound(r)
    \/ \E f \in flying : Capture(f)
    \/ Answer

SpecRounds == InitRounds /\ [][NextRounds]_counterVars

---------------------------------------------------------------------------
ThisRound == base .. base + Repeats - 1

\* What an answer given now counts for the round.
Counted(a) == Fresh(buckets[runId][a], OnWire(base), Repeats, barrier)

\* What the receiver has matched of this round from a.
OfThisRound(a) == {h \in captured : h.ap = a /\ h.shot \in ThisRound}
TrulyCaptured(a) == {<<OnWire(h.shot), h.idx>> : h \in OfThisRound(a)}

RoundCoverage(a) == Coverage(buckets[runId][a], OnWire(base), Repeats)

TypeOKRounds ==
    /\ TypeOK
    /\ nextSeq \in Nat /\ base \in Nat /\ barrier \in Nat
    /\ open \in BOOLEAN
    /\ flying \subseteq Frames
    /\ captured \subseteq Captures

\* No round is credited with a frame of another one, nor a transmitter with
\* one of another's, however late frames arrive, however often they are
\* repeated, and however many times the wire field has folded: the failure
\* that would inflate delivery (wire.py:126-130, counter.py:193-196).
NothingInflated == open => \A a \in Aps : Counted(a) \subseteq TrulyCaptured(a)

\* Within the first lap of the wire field an answer with full coverage leaves
\* out nothing the receiver has matched of the round, so a shortfall is a
\* loss on air (report, counter.py:190-196).
NothingMissed ==
    (open /\ nextSeq <= Modulus) =>
        \A a \in Aps : RoundCoverage(a) = "full" => TrulyCaptured(a) \subseteq Counted(a)

\* wire.py:126-132 says the retention window is kept below half the field so
\* that a wire value still resident is not reused: when a round begins, none
\* of its wire values is resident.
ResidentNeverReused ==
    [][(open' /\ ~open) =>
         \A a \in Aps, k \in 0 .. Repeats - 1 :
             OnWire(base' + k) \notin Range(buckets[runId'][a].order)]_counterVars

\* counter.py:162-170 and 193-196: "evicted" and "partial" say that part of
\* the range was forgotten; a round of which every frame heard is still
\* resident, under the ordinal it was heard at, is reported "full".
Intact(a) == \A h \in OfThisRound(a) :
                 buckets[runId][a].got[OnWire(h.shot)][h.idx] = h.at

IntactMeansFull ==
    open => \A a \in Aps : Intact(a) /\ TrulyCaptured(a) # {} => RoundCoverage(a) = "full"
=============================================================================
