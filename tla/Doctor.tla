-------------------------------- MODULE Doctor --------------------------------
(***************************************************************************)
(* The controller's health check (cosr/session.py, Session.doctor, over    *)
(* cosr/timing.py) together with the clock graph it examines.              *)
(*                                                                         *)
(* The check goes through its stages on one thread; observations keep      *)
(* arriving on the client's reader thread, so each stage looks at another  *)
(* state of the graph than the one before.  Two timing rounds are          *)
(* commanded: in each, every transmitter goes on air displaced by the      *)
(* error of its map at that moment, and the observer receives some of them.*)
(*                                                                         *)
(* Scatter, rates of change and the gate's refusals are measured, not      *)
(* computed here: their verdicts are chosen freely.  A transmitter counts  *)
(* as received if enough of its shots were for any of them to pair.        *)
(***************************************************************************)
EXTENDS ClockGraph

CONSTANTS
    Plans,           \* sequences of transmitters, the reference first
    Sync,            \* the declared source: "beacon", "monitor" or "none"
    BiasLimit,       \* bias_us
    PathLimit,       \* path_us
    StabilityLimit,  \* stability_us
    Outlier,         \* OUTLIER_US
    MaxChanges,      \* bound: observations arriving during the check
    Before           \* bound: what may have been heard when the check begins

ASSUME DoctorAssumption ==
    /\ \A p \in Plans : p \in Seq(Clocks) /\ p # <<>> /\ p[1] = Ref
    /\ {BiasLimit, PathLimit, StabilityLimit, Outlier, MaxChanges} \subseteq Nat

VARIABLES
    plan,       \* the transmitters of this session
    at,         \* the stage the check is in
    reachable,  \* those the last status could reach, while of use
    rounds,     \* per timing round: the transmitters received, how displaced
    out,        \* the verdicts recorded
    changes     \* bound's counter

checkVars == <<plan, at, reachable, rounds, out>>
allVars == <<graphVars, checkVars, changes>>

Stages == {"agents", "clock_graph", "extrapolation", "path_consistency",
           "coincidence", "divergence", "stability", "fire"}

InitDoctor ==
    /\ InitGraph
    /\ plan \in Plans /\ at = "before"
    /\ reachable = {} /\ rounds = <<>> /\ out = <<>> /\ changes = 0

Recorded(records) == out' = out \o records
Verdict(stage, v) == [stage |-> stage, verdict |-> v]
Verdicts == {out[i].verdict : i \in DOMAIN out}

\* _verdict: FAIL beats INCONCLUSIVE beats PASS.
Overall == IF "FAIL" \in Verdicts THEN "FAIL"
           ELSE IF "SKIP" \in Verdicts THEN "INCONCLUSIVE" ELSE "PASS"

Observe ==
    /\ at \notin {"done", "raised"} /\ (at # "before" => changes < MaxChanges)
    /\ GraphStep
    /\ changes' = IF at = "before" THEN changes ELSE changes + 1
    /\ UNCHANGED checkVars

---------------------------------------------------------------------------
(* The stages before anything is commanded.                                *)

\* wait_for_agents; without agents nothing else is examined.
Agents ==
    /\ at = "before" /\ heard \in Before
    /\ \/ Recorded(<<Verdict("agents", "PASS")>>) /\ at' = "clock_graph"
       \/ Recorded(<<Verdict("agents", "FAIL")>>) /\ at' = "done"
    /\ UNCHANGED <<graphVars, plan, reachable, rounds, changes>>

\* ClockD.status: without a reading of the reference nothing is reachable.
Reachable == IF anchored THEN DOMAIN Solve(Edges) ELSE {}

Sources == {IF r.by \in Clocks THEN "beacon" ELSE "monitor" : r \in ToSet(heard)}

Declared == Sync # "none" => Sync \in Sources

ClockGraphStage ==
    /\ at = "clock_graph"
    /\ reachable' = Reachable
    /\ IF ToSet(plan) \subseteq Reachable
       THEN /\ Recorded(<<Verdict("clock_graph", IF Declared THEN "PASS" ELSE "FAIL")>>)
            /\ at' = "extrapolation"
       ELSE Recorded(<<Verdict("clock_graph", "FAIL")>>) /\ at' = "done"
    /\ UNCHANGED <<graphVars, plan, rounds, changes>>

\* Whether the relations are tight enough, as of that status or a later one.
Extrapolation ==
    /\ at = "extrapolation"
    /\ \E v \in IF reachable = {Ref} THEN {"NA"} ELSE {"PASS", "FAIL"} :
          Recorded(<<Verdict("extrapolation", v)>>)
    /\ at' = "path_consistency"
    /\ reachable' = {}
    /\ UNCHANGED <<graphVars, plan, rounds, changes>>

PathVerdict ==
    LET d == Disagreement(Edges)
    IN  IF DOMAIN d = {} THEN "NA"
        ELSE IF \E m \in DOMAIN d : d[m].redundant /\ d[m].max > PathLimit THEN "FAIL"
        ELSE IF \E m \in DOMAIN d : ~d[m].redundant THEN "SKIP"
        ELSE "PASS"

NotMeasured == <<Verdict("coincidence", "SKIP"), Verdict("divergence", "SKIP"),
                 Verdict("stability", "SKIP")>>

\* One transmitter has nothing to coincide with: a plain round is fired.
PathStage ==
    /\ at = "path_consistency"
    /\ Recorded(<<Verdict("path_consistency", PathVerdict)>>
                \o IF Len(plan) >= 2 THEN <<>> ELSE NotMeasured)
    /\ at' = "round"
    /\ UNCHANGED <<graphVars, plan, reachable, rounds, changes>>

---------------------------------------------------------------------------
(* A round under _guarded.  Refused for want of a relation, or of one tight *)
(* enough, it is tried once more after a wait: the wait is Observe, and as *)
(* a node may fail to answer either attempt, which of the two is the one   *)
(* that fails makes no difference.                                         *)

CanCommand == ToSet(plan) \subseteq Reachable

Enough == IF Len(plan) >= 2 THEN 2 ELSE 1

\* The instant is mapped for everyone; the observer receives some of them.
Command ==
    /\ at = "round" /\ CanCommand
    /\ \E received \in SUBSET ToSet(plan) :
          rounds' = Append(rounds, [ap \in received |-> Solve(Edges)[ap]])
    /\ at' = IF Len(rounds') = Enough THEN "judge" ELSE "round"
    /\ UNCHANGED <<graphVars, plan, reachable, out, changes>>

\* A plausible slip: the verdicts of what could not be measured are left out.
ImpossibleSilent ==
    /\ at = "round"
    /\ Recorded(<<>>) /\ at' = "done"
    /\ UNCHANGED <<graphVars, plan, reachable, rounds, changes>>

\* The clock did not recover, or a node did not answer the round.
Impossible ==
    /\ at = "round"
    /\ Recorded(<<Verdict("fire", "FAIL")>> \o IF Len(plan) >= 2 THEN NotMeasured ELSE <<>>)
    /\ at' = "done"
    /\ UNCHANGED <<graphVars, plan, reachable, rounds, changes>>

\* An error nobody turns into a verdict ends the check without a report: the
\* connection is closed when a round is published, or the reader's thread
\* enters a pair heard for the first time into a dictionary that status,
\* solve or path_disagreement is going through (to find the relations tight
\* enough asks for one only if there are any).
Raise ==
    /\ at \in {"clock_graph", "extrapolation", "path_consistency", "round"}
    /\ at = "extrapolation" => reachable # {Ref}
    /\ at' = "raised"
    /\ UNCHANGED <<graphVars, plan, reachable, rounds, out, changes>>

---------------------------------------------------------------------------
(* The verdicts over the rounds.                                           *)

Others == ToSet(Tail(plan))

Near(n) == Magnitude(n) <= Outlier

\* timing.stats: no displacement (bias_us None) without an inlier.
Paired(i, ap) == {Ref, ap} \subseteq DOMAIN rounds[i] /\ Near(rounds[i][ap] - rounds[i][Ref])
Bias(i, ap) == rounds[i][ap] - rounds[i][Ref]

Pairs == {ap \in Others : Paired(1, ap)}

\* A plausible slip: the displacement's sign is kept.
CoincidenceSigned ==
    IF Pairs = {} \/ \E ap \in Pairs : Bias(1, ap) > BiasLimit
    THEN {"FAIL"} ELSE {"PASS", "FAIL"}

\* FAIL for scatter is possible whatever the displacement.
CoincidenceVerdicts ==
    IF Pairs = {} \/ \E ap \in Pairs : Magnitude(Bias(1, ap)) > BiasLimit
    THEN {"FAIL"} ELSE {"PASS", "FAIL"}

\* Too few shots, or a rate of change within or above its limit.
DivergenceVerdicts == IF Pairs = {} THEN {"SKIP"} ELSE {"PASS", "FAIL", "SKIP"}

StabilityVerdict ==
    LET both == {ap \in Pairs : Paired(2, ap)}
    IN  IF both = {} THEN "SKIP"
        ELSE IF \E ap \in both : Magnitude(Bias(2, ap) - Bias(1, ap)) > StabilityLimit
        THEN "FAIL" ELSE "PASS"

Judge ==
    /\ at = "judge" /\ at' = "done"
    /\ \E gate \in {"PASS", "FAIL"} :
          IF Len(plan) = 1 THEN Recorded(<<Verdict("fire", gate)>>)
          ELSE \E c \in CoincidenceVerdicts, d \in DivergenceVerdicts :
                  Recorded(<<Verdict("fire", gate), Verdict("coincidence", c),
                             Verdict("divergence", d), Verdict("stability", StabilityVerdict)>>)
    /\ UNCHANGED <<graphVars, plan, reachable, rounds, changes>>

---------------------------------------------------------------------------
NextDoctor ==
    \/ Observe
    \/ Agents \/ ClockGraphStage \/ Extrapolation \/ PathStage
    \/ Command \/ Impossible \/ Judge \/ Raise

SpecDoctor == InitDoctor /\ [][NextDoctor]_allVars

---------------------------------------------------------------------------
(* Properties.                                                             *)

\* A report that is made is whole, whichever failure ended the check early: no
\* check is recorded twice, and one is missing only from a report that is a
\* FAIL (the early returns of doctor, _guarded).  That one is made is another
\* matter (AlwaysReports).
ReportComplete ==
    at = "done" =>
        /\ \A i, j \in DOMAIN out : out[i].stage = out[j].stage => i = j
        /\ Overall # "FAIL" => {out[i].stage : i \in DOMAIN out} = Stages

\* A rig is declared healthy only if, in both rounds, every transmitter was
\* received and was displaced by no more than the limits allow - though the
\* graph changes between the checks, routes change with it, and what does
\* not pair is left out of the figures (pairs, walk, timing.stats).
PassMeansCoincided ==
    at = "done" /\ Overall = "PASS" =>
        \A i \in {1, 2} : \A ap \in ToSet(plan) :
            /\ {Ref, ap} \subseteq DOMAIN rounds[i]
            /\ Magnitude(Bias(i, ap)) <= BiasLimit + (i - 1) * StabilityLimit

\* The check ends in a report, never in an exception ("A health check that
\* raises is useless precisely when it is needed").  It does not hold.
AlwaysReports == at # "raised"

\* A rig is declared healthy only if the routes to every transmitter of a session of several were
\* compared ("genuinely nothing to check rather than a check that passed").
PassMeansCompared ==
    at = "done" /\ Overall = "PASS" /\ Len(plan) >= 2 =>
        \E i \in DOMAIN out : out[i] = Verdict("path_consistency", "PASS")

===============================================================================
