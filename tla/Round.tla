-------------------------------- MODULE Round --------------------------------
(***************************************************************************)
(* Rounds of measurement: the controllers (class Session of                *)
(* cosr/session.py), the transmitters' agents, one receiver's agent        *)
(* (class StationAgent of cosr/agent.py) with its counters (FrameCounter), *)
(* the broadcast bus between them and the frames on air.                   *)
(*                                                                         *)
(* A controller commands a round, the transmitters fire it, the receiver   *)
(* counts what it captures and answers, the controller collects the        *)
(* answers and judges the link (Accounting).  Each controller is one run:  *)
(* Session gives every instance an identifier of its own.  Receivers do    *)
(* not interact, so one stands for each of them.  How a transmitter fires  *)
(* a round once is ApAgent's subject; here its answer comes in one step.   *)
(*                                                                         *)
(* The bus delivers in order to each node, at most once: a command may     *)
(* miss any node and an answer any controller.  An answer that comes late  *)
(* is one whose node takes its step late.  Only the loss of an answer at   *)
(* the controller it is for makes a difference, so an answer reaches all   *)
(* controllers or none.                                                    *)
(***************************************************************************)
EXTENDS FrameCounter, Accounting

CONSTANTS
    Plan,         \* transmitters of the plan
    Shots,        \* shots of a round (repeats)
    Late,         \* transmitters staggered past the receiver's deadline
    Orderly,      \* controllers take turns and nodes keep to the deadlines
    Misses,       \* a command may miss the receiver
    Power,        \* what asserting the transmit power may come to
    MaxRounds,    \* bound: rounds of all controllers
    MaxRestarts,  \* bound: restarts of the receiver's agent
    MaxResets     \* bound: resets of the receiver's agent

ASSUME RoundAssumption ==
    /\ Aps \subseteq Plan /\ Late \subseteq Plan
    /\ Shots \in Nat \ {0}
    /\ Orderly \in BOOLEAN /\ Misses \in BOOLEAN /\ Power \subseteq BOOLEAN
    /\ MaxRounds \in Nat /\ MaxRestarts \in Nat /\ MaxResets \in Nat
    /\ 0 \in Idxs /\ IsFiniteSet(Idxs) /\ IsFiniteSet(Runs)

VARIABLES
    phase,     \* the controller is between rounds, or awaits answers (_collect)
    batch,     \* Session.batch
    since,     \* Session._since: the receiver's ordinal at its last report
    known,     \* Session._epochs: the instance that report came from, 0 if none
    status,    \* Session._status of the present batch
    report,    \* Session._reports of the present batch
    result,    \* what the last round came to
    apIn,      \* commands a transmitter has yet to take up
    staIn,     \* commands the receiver has yet to take up
    job,       \* the round the receiver is in (StationAgent.on_fire)
    epoch,     \* StationAgent.epoch: which instance of the agent runs
    resets,    \* bound's counter
    air,       \* frames for this receiver on air
    aired,     \* history: every frame of the last rounds put on air
    heard,     \* history: those of them the receiver captured
    asked      \* history: `known` when the last round was commanded

sessionVars == <<phase, batch, since, known, status, report, result, asked>>
stationVars == <<job, epoch, resets>>
airVars == <<air, aired, heard>>
allVars == <<vars, sessionVars, apIn, staIn, stationVars, airVars>>

Slots == 0 .. Shots - 1

\* A plausible slip: every round numbers its shots from zero.
SeqBaseSame(b) == 0

\* The round's first sequence number: Session.run allocates Shots a round and
\* every session begins at zero.
SeqBase(b) == ((b - 1) * Shots) % Modulus
WireOf(b, s) == (SeqBase(b) + s) % Modulus

FramesOf(r, b, a, shots) == [run : {r}, batch : {b}, ap : {a}, shot : shots, idx : Idxs]

Key(f) == <<WireOf(f.batch, f.shot), f.idx>>

Silent == [given |-> FALSE]
NoStatus == [given |-> FALSE, fired |-> {}]
NoResult == [state |-> "none"]
NodeMissing == [state |-> "missing"]
NoJob == [active |-> FALSE]

InitRound ==
    /\ Init
    /\ phase = [r \in Runs |-> "idle"]
    /\ batch = [r \in Runs |-> 0]
    /\ since = [r \in Runs |-> 0]
    /\ known = [r \in Runs |-> 0]
    /\ status = [r \in Runs |-> [a \in Plan |-> NoStatus]]
    /\ report = [r \in Runs |-> Silent]
    /\ result = [r \in Runs |-> NoResult]
    /\ apIn = [a \in Plan |-> <<>>]
    /\ staIn = <<>>
    /\ job = NoJob
    /\ epoch = 1
    /\ resets = 0
    /\ air = {} /\ aired = {} /\ heard = {}
    /\ asked = [r \in Runs |-> 0]

---------------------------------------------------------------------------
(* The controller.                                                         *)

\* Frames of r's earlier rounds leave the histories.
Forgotten(frames, r) == {f \in frames : f.run # r}

\* Session.run: numbers are allocated and the round is published; it reaches
\* the transmitters in `reach`, and the receiver unless it misses it.
Command(r, reach, toStation) ==
    LET m == [run |-> r, batch |-> batch[r] + 1, since |-> since[r]]
    IN  /\ phase[r] = "idle"
        /\ toStation \/ Misses
        /\ Cardinality({n \in Runs \X (1 .. MaxRounds) : n[2] <= batch[n[1]]}) < MaxRounds
        /\ Orderly => air = {} /\ \A q \in Runs : phase[q] = "idle"
        /\ phase' = [phase EXCEPT ![r] = "waiting"]
        /\ batch' = [batch EXCEPT ![r] = @ + 1]
        /\ status' = [status EXCEPT ![r] = [a \in Plan |-> NoStatus]]
        /\ report' = [report EXCEPT ![r] = Silent]
        /\ result' = [result EXCEPT ![r] = NoResult]
        /\ asked' = [asked EXCEPT ![r] = known[r]]
        /\ apIn' = [a \in Plan |-> IF a \in reach THEN Append(apIn[a], m) ELSE apIn[a]]
        /\ staIn' = IF toStation THEN Append(staIn, m) ELSE staIn
        /\ aired' = Forgotten(aired, r) /\ heard' = Forgotten(heard, r)
        /\ UNCHANGED <<vars, since, known, air, stationVars>>

\* _mine: answers are broadcast, and only those to this run are taken.
Mine(m, r) == m.run = r

\* _on_status in every controller the answer reaches.  Answers to an earlier
\* batch are filed under it and never read again.
OnStatus(a, m, reached) ==
    status' = [r \in Runs |->
        IF r \in reached /\ Mine(m, r) /\ m.batch = batch[r]
        THEN [status[r] EXCEPT ![a] = m] ELSE status[r]]

\* A plausible slip: the barrier never moves back.
BarrierMonotone(m, r) == IF m.ordinal > since[r] THEN m.ordinal ELSE since[r]

\* An ordinal is comparable only within one instance of the agent.
Barrier(m, r) == IF known[r] \notin {0, m.epoch} THEN 0 ELSE m.ordinal

\* _on_report likewise; the barrier moves with every report of the run, of
\* whichever batch.
OnReport(m, reached) ==
    LET taken == {r \in reached : Mine(m, r)}
    IN  /\ report' = [r \in Runs |-> IF r \in taken /\ m.batch = batch[r]
                                     THEN m ELSE report[r]]
        /\ since' = [r \in Runs |-> IF r \in taken THEN Barrier(m, r) ELSE since[r]]
        /\ known' = [r \in Runs |-> IF r \in taken THEN m.epoch ELSE known[r]]

Complete(r) == report[r].given /\ \A a \in Plan : status[r][a].given

\* build_status flattens what the agent adds, and Session.run looks for it
\* where it was before (proto.py:107-108, session.py:346): no failure to set
\* the power is ever seen.
Seen(st) == [st EXCEPT !.power = TRUE]

\* _collect returns and the answers are judged (link_results).
Collect(r) ==
    /\ phase[r] = "waiting" /\ Complete(r)
    /\ LET joint == JointSeqs(status[r], Plan)
       IN  result' = [result EXCEPT ![r] =
               [state   |-> "measured",
                joint   |-> joint,
                verdict |-> [a \in Aps |->
                                LinkVerdict(a, Seen(status[r][a]), report[r], joint, Idxs)],
                counted |-> [a \in Aps |-> IF a \in report[r].watching
                                           THEN CountedOf(report[r], a, joint) ELSE {}]]]
    /\ phase' = [phase EXCEPT ![r] = "idle"]
    /\ UNCHANGED <<vars, batch, since, known, status, report, asked, apIn, staIn,
                   stationVars, airVars>>

Refused(r) == (report[r].given /\ report[r].error # "none")
              \/ \E a \in Plan : status[r][a].given /\ status[r][a].error # "none"

SameRound(m, n) == m.run = n.run /\ m.batch = n.batch

IsFor(m, r) == SameRound(m, [run |-> r, batch |-> batch[r]])

\* Some node still has the round before it.
Pending(r) ==
    \/ \E a \in Plan : \E i \in DOMAIN apIn[a] : IsFor(apIn[a][i], r)
    \/ \E i \in DOMAIN staIn : IsFor(staIn[i], r)
    \/ job.active /\ IsFor(job, r)

\* A plausible slip: silence is waited out for ever.
TimeoutRefusedOnly(r) ==
    /\ phase[r] = "waiting" /\ Refused(r)
    /\ Orderly => ~Pending(r)
    /\ phase' = [phase EXCEPT ![r] = "idle"]
    /\ result' = [result EXCEPT ![r] = NodeMissing]
    /\ UNCHANGED <<vars, batch, since, known, status, report, asked, apIn, staIn,
                   stationVars, airVars>>

\* The deadline passes: NodeMissing, whether an answer is missing or one of
\* them is a refusal.  COLLECT_MARGIN_S leaves a punctual node time to answer.
Timeout(r) ==
    /\ phase[r] = "waiting" /\ (~Complete(r) \/ Refused(r))
    /\ Orderly => ~Pending(r)
    /\ phase' = [phase EXCEPT ![r] = "idle"]
    /\ result' = [result EXCEPT ![r] = NodeMissing]
    /\ UNCHANGED <<vars, batch, since, known, status, report, asked, apIn, staIn,
                   stationVars, airVars>>

---------------------------------------------------------------------------
(* A transmitter.                                                          *)

\* What one transmitter did: which shots it reports FIRED, which went out
\* (an outcome other than FIRED does not mean the shot did not), the error of
\* the answer; an exception leaves no outcome in it.
Firings == {x \in [fired : SUBSET Slots, out : SUBSET Slots,
                   error : {"none", "WEDGED", "failed"}, power : Power] :
                /\ x.error # "failed" => x.fired \subseteq x.out
                /\ x.error = "failed" => x.fired = {}}

\* ApAgent.on_fire.  The lead before the first instant gives the receiver the
\* time to take the round up.
ApFire(a, x, reached) ==
    /\ apIn[a] # <<>>
    /\ LET m == Head(apIn[a])
           shots == {WireOf(m.batch, s) : s \in x.fired}
           out == FramesOf(m.run, m.batch, a, x.out)
       IN  /\ Orderly => m \notin Range(staIn)
           /\ apIn' = [apIn EXCEPT ![a] = Tail(@)]
           /\ air' = IF a \in Aps THEN air \cup out ELSE air
           /\ aired' = IF IsFor(m, m.run) THEN aired \cup out ELSE aired
           /\ OnStatus(a, [given |-> TRUE, run |-> m.run, batch |-> m.batch, fired |-> shots,
                           error |-> x.error, power |-> x.power], reached)
    /\ UNCHANGED <<vars, phase, batch, since, known, report, result, asked, staIn,
                   stationVars, heard>>

---------------------------------------------------------------------------
(* The receiver.                                                           *)

Captured(f) == heard' = IF IsFor(f, f.run) THEN heard \cup {f} ELSE heard

\* A stamped frame addressed to this receiver is captured; before any run is
\* known it is just another frame.
Hear(f) ==
    /\ f \in air
    /\ IF runId = NoRun THEN Unmatched ELSE Matched(f.ap, Key(f)[1], f.idx)
    /\ air' = air \ {f}
    /\ Captured(f)
    /\ UNCHANGED <<sessionVars, apIn, staIn, stationVars, aired>>

\* A frame addressed to another receiver is captured, or one of other traffic.
HearOther ==
    /\ Unmatched
    /\ UNCHANGED <<sessionVars, apIn, staIn, stationVars, airVars>>

\* A frame ends without reaching the receiver.
Lose(f) ==
    /\ f \in air
    /\ air' = air \ {f}
    /\ UNCHANGED <<vars, sessionVars, apIn, staIn, stationVars, aired, heard>>

\* on_fire begins: the run is set and what was seen so far is noted.
Take ==
    /\ ~job.active /\ staIn # <<>>
    /\ LET m == Head(staIn)
       IN  /\ SetRun(m.run)
           /\ job' = [active |-> TRUE, run |-> m.run, batch |-> m.batch,
                      since |-> m.since, other |-> otherFrames]
    /\ staIn' = Tail(staIn)
    /\ UNCHANGED <<sessionVars, apIn, epoch, resets, airVars>>

\* counter.report for the job's round.
FreshNow(a) == Fresh(buckets[runId][a], SeqBase(job.batch), Shots, job.since)

\* A plausible slip: one frame short counts as all.
AllInAlmost == \A a \in Aps : Cardinality(FreshNow(a)) + 1 >= Shots * Cardinality(Idxs)

\* _complete: all that is expected of every transmitter has been counted.
AllIn == \A a \in Aps : Cardinality(FreshNow(a)) >= Shots * Cardinality(Idxs)

\* report_deadline_s has passed.  It covers the lead, the firing sequence and
\* a margin for the last frame, but not the stagger between transmitters.
DeadlinePassed ==
    Orderly => \A a \in Plan \ Late :
        /\ \A i \in DOMAIN apIn[a] : ~SameRound(apIn[a][i], job)
        /\ \A f \in air : f.ap = a => ~SameRound(f, job)

Publish(m, reached) ==
    /\ OnReport(m, reached)
    /\ UNCHANGED <<phase, batch, status, result, asked>>

\* The receiver answers with what it has counted: as soon as all is in, or at
\* the deadline.
StationAnswer(reached) ==
    /\ job.active
    /\ AllIn \/ DeadlinePassed
    /\ Publish([given |-> TRUE, run |-> job.run, batch |-> job.batch, error |-> "none",
                epoch |-> epoch, ordinal |-> ordinal, alive |-> otherFrames # job.other,
                watching |-> Aps, fresh |-> [a \in Aps |-> FreshNow(a)],
                coverage |-> [a \in Aps |-> Coverage(buckets[runId][a],
                                                     SeqBase(job.batch), Shots)]], reached)
    /\ job' = NoJob
    /\ UNCHANGED <<vars, apIn, staIn, epoch, resets, airVars>>

\* on_fire raises (the counters are read while the capture thread writes
\* them): the answer names the error, counts nothing and has ordinal zero.
StationFails(reached) ==
    /\ job.active
    /\ Publish([given |-> TRUE, run |-> job.run, batch |-> job.batch, error |-> "failed",
                epoch |-> epoch, ordinal |-> 0, alive |-> FALSE, watching |-> {},
                fresh |-> [a \in Aps |-> {}], coverage |-> [a \in Aps |-> "full"]], reached)
    /\ job' = NoJob
    /\ UNCHANGED <<vars, apIn, staIn, epoch, resets, airVars>>

\* A new FrameCounter: nothing counted, no run known.
CounterAnew ==
    /\ runOrder' = <<>> /\ runId' = NoRun
    /\ buckets' = [r \in Runs |-> [a \in Aps |-> EmptyBucket]]
    /\ ordinal' = 0 /\ otherFrames' = 0

\* The reset command, between rounds: counters anew, same instance.
StationReset ==
    /\ ~job.active
    /\ resets < MaxResets
    /\ resets' = resets + 1
    /\ CounterAnew
    /\ UNCHANGED <<sessionVars, apIn, staIn, job, epoch, airVars>>

\* The agent dies and is started again under a new epoch.
StationRestart ==
    /\ epoch <= MaxRestarts
    /\ epoch' = epoch + 1
    /\ CounterAnew
    /\ job' = NoJob /\ staIn' = <<>>
    /\ UNCHANGED <<sessionVars, apIn, resets, airVars>>

---------------------------------------------------------------------------
Nodes ==
    \/ \E a \in Plan, x \in Firings, reached \in {{}, Runs} : ApFire(a, x, reached)
    \/ Take
    \/ \E reached \in {{}, Runs} : StationAnswer(reached) \/ StationFails(reached)
    \/ \E f \in air : Hear(f) \/ Lose(f)

Controllers == \E r \in Runs : Collect(r) \/ Timeout(r)

NextRound ==
    \/ \E r \in Runs, reach \in SUBSET Plan, toStation \in BOOLEAN : Command(r, reach, toStation)
    \/ Controllers
    \/ Nodes
    \/ HearOther
    \/ StationReset
    \/ StationRestart

SpecRound == InitRound /\ [][NextRound]_allVars

\* Frames end, every agent takes its commands up one by one and answers
\* within its deadline, and a controller's own deadline comes.
FairSpecRound == SpecRound /\ WF_allVars(Nodes) /\ WF_allVars(Controllers)

---------------------------------------------------------------------------
(* Properties.                                                             *)

Commands == [run : Runs, batch : 1 .. MaxRounds, since : Nat]

TypeOKRound ==
    /\ TypeOK
    /\ phase \in [Runs -> {"idle", "waiting"}]
    /\ batch \in [Runs -> 0 .. MaxRounds]
    /\ since \in [Runs -> Nat]
    /\ known \in [Runs -> 0 .. MaxRestarts + 1]
    /\ asked \in [Runs -> 0 .. MaxRestarts + 1]
    /\ \A r \in Runs : result[r].state \in {"none", "missing", "measured"}
    /\ apIn \in [Plan -> Seq(Commands)]
    /\ staIn \in Seq(Commands)
    /\ job.active => job.run = runId
    /\ epoch \in 1 .. MaxRestarts + 1
    /\ heard \subseteq aired

Measured(r) == result[r].state = "measured"

LinkOK(r, a) == Measured(r) /\ result[r].verdict[a] = "OK"

\* What the receiver captured of the concurrent shots of r's last round.
TrulyHeard(r, a) == {Key(f) : f \in {g \in heard : /\ IsFor(g, r) /\ g.ap = a
                                                   /\ WireOf(g.batch, g.shot) \in result[r].joint}}

\* A measured link is never credited with a frame the receiver did not
\* capture in that very round, whatever is lost, late or restarted
\* (session.py:302-340, counter.py:190-196).
NeverInflated ==
    \A r \in Runs, a \in Aps : LinkOK(r, a) => result[r].counted[a] \subseteq TrulyHeard(r, a)

\* The shots a delivery is divided by were put on air by every transmitter of
\* the plan, in that very round: no answer to another run or batch, and no
\* silence, stands in for one (session.py:158-174, accounting.py:51-65).
DenominatorWasConcurrent ==
    \A r \in Runs : Measured(r) =>
        \A s \in result[r].joint, a \in Plan :
            \E f \in aired : IsFor(f, r) /\ f.ap = a /\ WireOf(f.batch, f.shot) = s

\* A measured link is credited with every frame the receiver captured in the
\* round, so a shortfall is a loss on air, provided the barrier came from the
\* instance that answered (agent.py:150-179, session.py:176-194).
NothingHeardLost ==
    \A r \in Runs, a \in Aps : (LinkOK(r, a) /\ asked[r] \in {0, report[r].epoch}) =>
        TrulyHeard(r, a) \subseteq result[r].counted[a]

\* Once a controller has heard from the instance that runs, its barrier does
\* not lie ahead of that instance's counter: a stale barrier lasts one round
\* (session.py:184-194).  Provided the receiver is not reset (MaxResets = 0): a
\* reset takes the counter back under the same epoch (agent.py:201-209).
BarrierHeals == \A r \in Runs : known[r] = epoch => since[r] <= ordinal

\* The same promise without the proviso: "a plumbing failure can never be
\* read as a channel result" (accounting.py:9-11).
ShortfallIsLoss ==
    \A r \in Runs, a \in Aps : LinkOK(r, a) => TrulyHeard(r, a) \subseteq result[r].counted[a]

\* A link that did not run at the power it states is not measured
\* (accounting.py:162-170).
PowerFailureShows ==
    \A r \in Runs, a \in Aps : LinkOK(r, a) => status[r][a].power

\* Every round a controller commands comes to an end: answers, or NodeMissing
\* (session.py:364-391).
RoundEnds == \A r \in Runs : phase[r] = "waiting" ~> phase[r] = "idle"
=============================================================================
