----------------------------- MODULE Accounting -----------------------------
(***************************************************************************)
(* The verdict on one link of a round: joint_seqs and link_results of      *)
(* cosr/accounting.py, as functions of the transmitters' answers and of    *)
(* the receiver's.                                                         *)
(*                                                                         *)
(* An answer is a record whose field `given` tells it from silence.  A     *)
(* transmitter's answer has the shots it reports FIRED; a receiver's has,  *)
(* per transmitter it watches, the coverage of the round's range and the   *)
(* (seq, idx) pairs it counts.  Fields of the wire format that are always  *)
(* there between agents of one build, the modulation index and the signal  *)
(* levels decide no verdict or are checked elsewhere: left out.  So is the *)
(* observed channel, which the receiver's tuning, not its agent, decides.  *)
(***************************************************************************)
EXTENDS Integers, FiniteSets

Verdicts == {"UNKNOWN", "WEDGED", "NOT_FIRED", "NOT_COUNTED", "OK"}

\* A plausible slip: a shot that any participant fired counts.
JointSeqsAny(statuses, aps) == UNION {statuses[a].fired : a \in aps}

\* The shots every participant fired; a participant that gave no answer fired
\* none, and no participant means no shot.
JointSeqs(statuses, aps) ==
    {s \in UNION {statuses[a].fired : a \in aps} :
        \A a \in aps : statuses[a].given /\ s \in statuses[a].fired}

\* What the link is credited with: the frames of concurrent shots only.
CountedOf(rep, a, joint) == {k \in rep.fresh[a] : k[1] \in joint}

\* deagg_ok: frames of an aggregate arrived and some is not the first one.
Deaggregated(rep, a, idxs) ==
    \/ Cardinality(idxs) <= 1
    \/ rep.fresh[a] = {}
    \/ \E k \in rep.fresh[a] : k[2] > 0

\* The faults that make a receiver's count no measurement, in any order: each
\* of them gives the same verdict.
Uncountable(a, rep, joint, idxs) ==
    \/ ~rep.given
    \/ a \notin rep.watching
    \/ rep.coverage[a] # "full"
    \/ CountedOf(rep, a, joint) = {} /\ ~rep.alive
    \/ CountedOf(rep, a, joint) # {} /\ ~Deaggregated(rep, a, idxs)

\* The verdict on the link from a, the transmitter's faults before the
\* receiver's.
LinkVerdict(a, st, rep, joint, idxs) ==
    IF ~st.given THEN "UNKNOWN"
    ELSE IF st.error = "WEDGED" THEN "WEDGED"
    ELSE IF st.error # "none" THEN "UNKNOWN"
    ELSE IF ~st.power THEN "NOT_COUNTED"
    ELSE IF joint = {} THEN "NOT_FIRED"
    ELSE IF Uncountable(a, rep, joint, idxs) THEN "NOT_COUNTED"
    ELSE "OK"
=============================================================================
