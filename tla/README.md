# Verification of the coordinated-transmission testbed

TLA+ models of the testbed in `src/`, TLC configurations that check them on
small instances, and theorems proved with TLAPS.

The testbed measures coordinated spatial reuse. A controller places an instant
on a common clock; the agents of several access points (transmitters) arm their
radios for it; the radios fire at that instant; an agent at the receiver counts
what it captured; and the controller turns the answers into one delivery figure
per link. The figure is right only if everything between "fire" and "counted"
either worked or is seen not to have worked. `src/cosr/accounting.py:9-11` puts
it as a promise: *a plumbing failure can never be read as a channel result*.
Most of what is checked here is a part of that promise.

## 1. Inventory

| Component | State | Operations | Where |
|---|---|---|---|
| Receiver's frame counter | runs held, current run, per run and transmitter the (number, subframe) pairs with the ordinal of their capture, order of arrival, highest number evicted, ordinal, beacons | `set_run`, `observe`, `observe_parsed`, `report`, `beacons` | `src/cosr/counter.py` |
| Sequence numbers | next number of a session | `allocate`, `check_retention`, folding onto 16 bits | `src/cosr/wire.py` |
| Transmitter's agent | rounds carried out and their answers, order for forgetting, unusable radio, kernel-log position | `on_fire`, firing loop, `reset`, death and start | `src/cosr/agent.py` |
| Receiver's agent | the counter, epoch | `on_fire`, early answer, `reset`, restart | `src/cosr/agent.py` |
| Forwarding of beacons | driver's ring of rows, keys already forwarded | poll, publish, un-mark on failure, prune | `src/cosr/agent.py`, `src/driver.diff` |
| Agent's connection | current client; of each connection its socket, reader thread and subscriptions | `connect`, `run_forever`, callbacks on the reader thread | `src/cosr/agent.py`, `src/cosr/natsc.py` |
| Controller's session | batch, barrier per receiver, epoch per node, answers per batch | `run`, `_collect`, message handlers, `sync`, `calibrate` | `src/cosr/session.py`, `src/cosr/proto.py` |
| Controller's health check | verdicts recorded, two timing rounds | `doctor`, `_guarded`, verdicts per stage | `src/cosr/session.py`, `src/cosr/timing.py` |
| Accounting | none | concurrent shots, verdict per link | `src/cosr/accounting.py` |
| Gate in the firmware | handler's place, frames in hand, queue, buffer pool, interrupts, medium access, clock | `ath_cosr_gated_tx` and the waits it makes | `src/firmware.diff` |
| Clock observations | window of samples per pair of clocks, anchor | `add`, `_note_reference`, `shared_instant` | `src/cosr/clockd.py` |
| Clock graph | relations in the order first heard, the fit of each | `edges`, `monitor_edges`, `solve_offsets`, `path_disagreement`, least squares | `src/cosr/clockd.py`, `src/cosr/clockgraph.py` |
| Bus client | pending requests, ping event, socket, reader thread | `request`, `ping`, `publish`, `close`, `_drain` | `src/cosr/natsc.py` |
| Driver's trigger file | kernel log lines | write, read | `src/driver.diff` |
| Deployment | files and processes of each node | `up`, `down`: stop, push, verify, start; `wait_for_agents` | `src/cosr/deploy.py`, `src/cosr/session.py` |
| Netlink and scans | none | requests to the kernel, parsing | `src/cosr/nl80211.py`, `scan.py` |
| Plans and command line | none | read, validate, print | `src/cosr/topo.py`, `cli.py` |
| Radiotap parser | none | decode headers | `src/cosr/radiotap.py` |

**How they interact.** The controller publishes a round on the bus; every agent gets
it at most once, in order, from its own reader thread. A transmitter's agent writes
one trigger per shot into the driver's file; the driver waits for the firmware's
answer, which appears as a line in the kernel log. The frames carry a stamp
(transmitter, number, subframe, receiver). The receiver's capture thread feeds its
counter while its agent waits, and the agent answers with counts, coverage, ordinal
and epoch. Both kinds of answer are broadcast. The ordinal becomes the barrier of the
next round. In the background, agents poll beacons and forward them; the controller
builds clock relations from them on its reader thread, while its main thread maps
instants and judges the rig by the same relations. Before any of this the controller
places the agents on the nodes over ssh, and accepts them over the bus.

**What is hard about it.** Answers and frames that come late belong to an earlier
round. Numbers are sixteen bits and come round again. Memory is bounded everywhere:
runs, numbers, rounds, rows, buffers. Agents restart and lose what they remembered,
and the controller goes on with what it remembers of them. Clocks are reset and stop.
The gate runs with interrupts off and carrier sense ignored. Threads share a
connection that may break, and an agent that dials again may have a reader of the old
connection still at work. A check of the rig takes several rounds, in the course of
which its clock relations change. A command over ssh may fail after it has taken
effect. `PROJECT.json` lists each of these hazards at the line where it bites, with
the properties that watch it.

**What makes each component correct.**

- *counter*: bounded memory that stays in step; what was seen before the barrier
  is not reported past it; coverage `full` means nothing was forgotten.
- *numbers*: no round is credited with another round's frames.
- *transmitter*: a remembered round is fired once, answered while process and connection
  last, and the answer is honest about each shot.
- *rounds*: every round ends; a link is credited with frames of that round only,
  and with all of them; it is divided by shots that were concurrent.
- *gate*: registers and buffers are returned, the answer is what happened, every
  trigger is answered.
- *clock*: a window never spans a step; fit and anchor recover; by a reading of the
  reference clock's present life an instant is never further ahead than asked.
- *bus client*: a request gets its own reply; nobody waits on a dead connection.
- *connection*: commands are carried out one at a time; an agent is announced only
  when commands reach it; it serves again after a break.
- *clock graph*: exactly the connected clocks have a map; a wrong observation is
  contradicted or the clock is called uncorroborated.
- *health check*: its report is whole, and a rig that passes was coincident.
- *deployment*: one agent on a node, started from a whole copy; an accepted
  deployment runs the controller's build. (A look that fails breaks the first and the
  last: section 4.)

## 2. Modules

| Module | Models | Built on |
|---|---|---|
| `FrameCounter` | class `FrameCounter` | |
| `CounterRounds` | `SeqAllocator`, the controller's barrier, one receiver, many rounds | `FrameCounter` |
| `FireOnce` | what a transmitter promises about a round (abstract) | |
| `ApAgent` | class `ApAgent`, the agent's callbacks, kernel log, process | implements `FireOnce` |
| `Accounting` | `joint_seqs`, `link_results` as functions | |
| `Round` | controllers, transmitters, one receiver, bus, air | `FrameCounter`, `Accounting` |
| `Gate` | `ath_cosr_gated_tx`, queue, completion interrupt, pool, clock | |
| `ClockFeed` | driver's ring or station's list, forwarding, `clockd` | |
| `ClockGraph` | `ClockD.edges`, `path_disagreement`, `clockgraph.monitor_edges`, `solve_offsets` | |
| `Doctor` | `Session.doctor`, `_guarded`, the verdicts over two timing rounds | `ClockGraph` |
| `NatsClient` | `natsc.Client` and the broker | |
| `AgentLink` | `Agent.connect`, `run_forever`, `main`, `natsc.connect` and the dropping of sockets | |
| `Deploy` | `Deployer.up`, `down`, `source_hash`, `Session.wait_for_agents` | |
| `RoundProofs` | theorems | `FrameCounter`, `CounterRounds`, `Round` |
| `DoctorProofs` | theorems | `ClockGraph`, `Doctor` |
| `ApAgentProofs`, `GateProofs`, `NatsClientProofs`, `AgentLinkProofs`, `DeployProofs`, `ClockFeedProofs` | theorems | the module named |
| `MC_*` | constants for TLC | the module named |

A definition called *a plausible slip* in its comment is not part of a model. It is
the definition that follows it, changed as a mistake in the code would change it;
replacing the one by the other must break the property `PROJECT.json` names beside it.
Histories (`forgotten`, `heard`, `captured`, `aired`, `onAir`, `handed`, `unseen`, `calm`,
`torn`, `sent` of `ClockFeed`, `flushed`, `placed`, `overlooked`, `asked`) are read by
properties and by no action's guard.

### Correspondence

**`FrameCounter`.** `runOrder`, `runId`, `buckets`, `ordinal` are `_run_order`,
`run_id`, `_runs`, `ordinal`. In a bucket `got[w][i]` is the ordinal stored in
`_Bucket.seqs` for number `w` and subframe `i` (zero: absent), `order` the deque,
`evicted` is `evicted_max`. `SetRun`, `Matched` and `Unmatched` are `set_run` and the
two ways through `observe_parsed`; `Fresh` and `Coverage` are `report` and
`_coverage`. Levels, rates and frequencies only accumulate and are left out.

**`CounterRounds`.** `nextSeq` is `SeqAllocator._next`, `barrier` is the session's
`_since`. `StartRound`, `Answer` are a command reaching the receiver and its answer
reaching the controller. A frame is `flying` until the round after next is commanded,
and may be captured more than once. The history `captured` keeps the transmitter and
the true, unfolded shot of each frame.

**`ApAgent`.** One action per way through `on_fire` (`Repeat`, `RefuseWedged`,
`Begin`), per way a shot ends (`Shot`, `ShotOverrun`, `WriteFails`, `ReadFails`,
`Skip`), and `Finish`, `Reset`, `Die`, `Start`. The gate below it answers FIRED, DRAIN
or one of its refusals. A process may die between any two of them; the kernel's log
stays, and a process that starts reads on from its end. `link` says whether the
connection stands: `Break` and `Redial` change it, a command is handed over that was
read before it broke, and `Publish` on a broken connection raises, which the bus
client swallows, so that the answer is in the record alone.

**`Round`.** `Command` is `Session.run` up to the publish, `OnStatus` and `OnReport`
the handlers, `Collect` and `Timeout` the two ends of `_collect` with the verdict of
`link_results`. `Take` and `StationAnswer`, `StationFails` are the beginning and the
ends of `StationAgent.on_fire`; between them frames arrive, as they do from the
capture thread. `ApFire` is a transmitter's whole round in one step: which shots went
out and which were reported are chosen freely within what `FireOnce` promises.
Receivers do not interact, so one stands for each of them.

**`Gate`.** `pc` is where the handler stands between two readings of the clock or two
changes of the radio. `Trigger` is the entry with its refusals, `BuildFrame` and
`BuildFails` are `cosr_build_frame` and `cosr_build_ampdu`, `Recheck` is the second look
at the clock, `EnterWait` the first reading of either call of `cosr_wait_tsf`
(`approach` before the coarse wait, `closing` before the fine one), which it compares
with nothing read earlier; `Coarse`, `FineWait` and `DrainWait` are one turn of each
wait, `Fire` the hand-over, `Drop` the way out. Around it the queue drains, the
completion interrupt returns buffers, and the clock ticks, is reset or stops. `unseen`
notes that the clock went back where no wait compares two readings (`Unlooked`).

**`ClockFeed`.** `Tick` makes one beacon, heard or not. `Read` is one `read(2)` of the
driver's file; two halves stand for the bytes of a row, so that a read may end inside a
row, and `Chunk` is how many halves a read returns at most: like the ring of the code,
which takes several reads, the ring of the runs takes two. A beacon between them moves
the rows of a full ring up under the offset reached (`InTheRing`), which `torn` notes.
`Forward` is the end of a poll with its three outcomes (published, raised, lost on the
way). `Observe` is `_Series.add` and `_note_reference`. `Kept` is a loop over rows that
keeps some of them: those not seen (`Unread`), those in the window (`InWindow`); it is a
recursive function, so that it can be proved about. Both clocks run at one tick a tick,
so their relation is exact and changes only at a reset; what a fit makes of noisy
samples is not modelled.

**`NatsClient`.** One action per step of a thread between two points where another
thread may run: registering, sending, waiting, giving up, popping; dispatching,
noticing the end, taking the socket away, waking; closing and waking. The broker takes
messages in order and answers pings at once and requests at any time.

**`AgentLink`.** `pc` is where the main thread is: dialling, in the handshake
(`greet`, or `mute` when the other end has fallen silent in it), sending one of two
subscriptions or the announcement, serving. `conns` keeps every connection made, since
an earlier one's reader may outlive it: its line, whether a break gives a sign, the
socket, the reader, what the broker has of it and the commands delivered. `TakeUp` and
`Answer` enclose a callback, which runs on the reader thread and lasts as long as a
round; `Drop` is `_drop_socket` at the end of `_drain`. The agent's `client` is the
last of `conns`. What a command does is left to `ApAgent` and `Round`.

**`ClockGraph`.** A relation says who heard whom. Its fit is represented by its error
against the truth, so that inverting negates and composing adds; the value itself is
real arithmetic. `heard` keeps the order of first hearing because it is the order of
every dictionary, which decides what route `Solve` takes and which of two edges with
one key stays. The dictionary `edges` returns is a set of entries numbered by when their
key was put (`Turn`); `Entry` is what stands under a key when several were put there: the
place of the first, the value of the last. In the search, `queue` keeps the clocks taken
from it, and `Discover` goes on to the next map found: the first edge in order of the
first clock in the queue that leads to a clock without one (`Frontier`, `Sooner`).

**`Doctor`.** `at` is the stage of the one thread that checks. `Observe` is anything
the reader thread may do to the graph, before the check and between any two of its
stages. `Command` fires a timing round: each transmitter is displaced by the error of
its map at that moment, and some of them are received. Scatter, rates of change,
tightness and the gate's refusals are measurements; their verdicts are chosen freely.
`Impossible` is the failures `_guarded` turns into a verdict, `Raise` those it does not:
the connection closed when a round is published, a dictionary that grows while it is
gone through.
`Before` restricts in what order relations may have been heard when the check begins.

**`Deploy`.** A build is a number, zero a copy that is not whole. `Begin` to
`NotThere` are the commands `up` and `down` send a node, one action each with its
outcomes: taken effect or not, reported or not. `Exit`, `Die` and `Edit` are the
processes and the source going their own way. `Ask`, `Accept` and `Refuse` are
`wait_for_agents`; what a node says is the hash of its files, `answers` remembers
which process said it. Any command may fail. A `pgrep` that does reads as no process, which
`SeenGone` includes; `overlooked` notes the node, until a look finds it empty.

## 3. Runs

| Run | Shows | Instance |
|---|---|---|
| `counter` | the counter's memory stays in step and bounded; coverage and barrier mean what they say | all orders of three runs, five numbers, four frames |
| `counter_rounds` | over rounds that wrap the number space a round is counted with its own frames, and with all of them on the first lap | five rounds of two shots over six numbers |
| `ap_agent` | the agent implements `FireOnce`; its record is in step; an unusable radio stays silent; every command it has is answered unless it dies or the connection breaks first | three rounds, two remembered, three commands |
| `rounds` | nothing is inflated and every denominator was concurrent, with no assumption on timing; every commanded round ends | two transmitters, two rounds, one restart, one reset |
| `rounds_in_turn` | with the timing the controller plans for, and commands that reach it, a receiver serving two controllers loses nothing of what it captured, and a stale barrier lasts one round | three rounds, one restart |
| `gate` | registers and pool restored, answer honest, a reset noticed by the wait that looks, every trigger answered while the clock advances | instants at once, near and too far; three buffers; three triggers; two resets; a clock that may stop |
| `clock` | windows are sound, fit and anchor recover, no instant is too far by a reading of the present life; a row not handed over is offered again; unless a poll was torn, none is handed over twice | a transmitter or a receiver hears, either clock is the reference; polls of two reads; two resets, one fault, seven ticks |
| `nats_client` | own replies, no leftovers, nobody left waiting, a broken connection is noticed | two requests, a ping, a publish |
| `agent_link` | one command at a time across connections, announced only when commandable; with the broker back, a started agent serves again | three breaks, three commands |
| `deploy` | two agents on a node only where a failed look hid one; none started from half a copy, and none of another build than the one reported unless overlooked | two nodes, three builds, five launches, four faults |
| `doctor` | exactly the connected clocks have maps; a transmitter's wrong observation is seen; a report that is made is whole; a pass means coincident in both rounds | a session of one or two of three transmitters, a station; errors 0 and 9; four relations, three of them heard beforehand in any order; one window thrown away, one change during the check |
| `doctor_passes_apart` | with a third transmitter in the session the last of these fails | errors 0 and 99, four relations |

`doctor_passes_apart` is meant to fail; section 4 says how.

`AnswerHonest`, `FiresOnce`, `NeverInflated` and `DenominatorWasConcurrent`
together are the path of one figure: the gate tells the truth about a shot, the
agent about a round, and the controller divides by no more than was fired and
credits no more than was heard.

### Bounds

Bounds are constants named *bound* in their modules and stand in guards. They
were chosen for what has to happen at least once:

- five or six numbers with two retained: eviction, the wrap of the number space
  (in `counter_rounds` almost a whole second lap) and a number used again;
- two remembered rounds, three keys, three commands: a round pushes another out of
  the record, and a round in it is asked for again after another one;
- two rounds with one restart and one reset: an answer of the earlier round, an old instance
  and a new one can all meet the later round; `rounds_in_turn` needs a third so
  that a barrier can heal;
- a pool of three and three triggers: aggregates of every size, a pool
  emptied by what the queue still holds, a trigger after each way out;
- two resets of a clock: one of each clock, or one in each of two waits;
- a ring of two rows read in two reads, with one fault: polls that are torn and polls that
  are not, rows that leave the ring before they are forwarded, that are lost on the way, and
  that are sent again after a failure or a restart. A tick is a beacon interval,
  102.4 ms, and so more than `MAX_SKEW_US`: a skew of no tick. The anchor lives for one
  tick, so that it can expire, be replaced and expire again within seven;
- three breaks of a connection: the broker goes while an earlier connection's
  reader still carries out a command, and a break meets the dialling that follows it;
- two nodes with three builds, five launches, three looks and four faults: an agent that
  outlasts both signals, a look that fails and hides it, a second agent beside it and a
  later `up` that clears both away, a copy that stops half way in between, a node accepted
  before the other is deployed again;
- three transmitters and a station with four relations: a clock reached over
  another, two routes to one clock, a route that appears or goes between two
  stages. Two errors, on either side of every limit, let one relation be wrong or several.

Larger values repeat these cases. Where there is a theorem (section 5) it removes
the bounds: it holds for every number space, retention, pool, lead, number of nodes,
of breaks, of requests.

The type invariants (`TypeOK`, `TypeOKRounds`, `TypeOKRound`) are not among the runs'
properties. Each holds on its module's instance when it is added to the configuration,
and the parts that matter are conjuncts of the inductive invariants.

### Timing assumptions

`Round` has no clock. With `Orderly = FALSE` nothing is assumed: any command, frame or
answer may be arbitrarily late. With `Orderly = TRUE` the margins the code plans
for are taken to suffice, and each is a guard that can be read:

- a transmitter fires after the receiver has taken the round up (the lead, 400 ms);
- the receiver's deadline comes after the commanded transmitters that are not in
  `Late` have fired and their frames have landed (the 0.1 s margin of
  `report_deadline_s`);
- a controller's own deadline comes after the nodes' (`COLLECT_MARGIN_S`, 2 s);
- controllers take turns, and a round is commanded when the air is quiet.

A command may still miss any transmitter, and the receiver where `Misses` is true: the
bus promises nothing. `rounds_in_turn` has it false, since a command that misses the
receiver leaves it counting for the controller before (section 4).

`ClockFeed` assumes that at most `Backlog` rows (none, in `clock`) are under way when
the next beacon is due (the poll is faster than the beacons), and that a clock is not
reset before it has run for longer than `MAX_SKEW_US` (a reset of so young a clock is
within the tolerance by design). `Gate` does not let the clock be reset in the few
instructions between the reading that ends the wait and the hand-over of the frame
(anywhere else it may be), and leaves out instants smaller than `COSR_FINE_US`: the
firmware's subtraction of the two is unsigned, and a target is the clock plus a lead of
400 ms, far above 2 ms.

### Fairness

- `FairSpec` of `ApAgent` is weak fairness of the agent's own steps: the reader
  thread hands commands over while the process lives, and a trigger write
  returns within two seconds because the driver gives up. Nothing is assumed of
  sending, dying and starting, nor of the connection breaking and being dialled again.
- `FairSpecRound` is weak fairness of the nodes together and of the controllers
  together: frames end, agents take commands up one at a time and answer at
  their deadline, and a controller's `_collect` has a deadline of its own.
- `FairSpec` of `Gate` is weak fairness of the handler, which is a processor
  running code, and of the clock's advance. Nothing is assumed of the queue.
- `FairSpec` of `NatsClient` is weak fairness of the reader thread, whose receive times
  out twice a second. That a broken line is reported to it is the kernel's doing.
- `Fairness` of `AgentLink` is weak fairness of the main thread, which looks every
  half second, and of the readers, whose callbacks have deadlines. That the broker
  comes back, and that broken connections give a sign, are premises of `ServedAgain`.

`Doctor` and `Deploy` state no fairness: their properties are about what may be
concluded, not about whether it ever is.

Deadlock is not checked where the bounds, or a quiet system, may stop every
action; liveness is stated as a property instead.

## 4. Where the code and what it says differ

TLC finds each property below violated, with the configuration beside it.
`PROJECT.json` quotes the lines that disagree. `MC_Doctor_Apart.cfg` is one of its runs;
the others can be shown again by hand. TLC stops at the first violation: of a
configuration that names several properties, leave the others out to see one.

| Configuration | Property | What happens |
|---|---|---|
| `MC_Round_Power.cfg` | `PowerFailureShows` | `power_error` is put where `Session.run` does not look for it (`proto.py:107`, `session.py:346`), so a link that ran at another power is measured |
| `MC_Round_Restart.cfg` | `ShortfallIsLoss` | the round after a receiver's restart is asked for with the dead instance's barrier (`session.py:327`); its frames read as lost |
| `MC_CounterRounds_Wrap.cfg` | `IntactMeansFull` | `evicted_max` is compared across a wrap (`counter.py:184`); a round of which nothing was evicted is reported short |
| `MC_Round_Restart.cfg`, with `MaxResets = 1` and `MaxRestarts = 0` | `ShortfallIsLoss` | a reset discards counters and keeps the epoch (`agent.py:208`, against the docstring at 65); the controller keeps its barrier |
| `MC_Round_Stagger.cfg` | `ShortfallIsLoss` | the receiver's deadline leaves the stagger out (`proto.py:92`); a late transmitter's frames read as lost |
| `MC_Round_Two.cfg` | `NeverInflated` | a stamp does not name its run (`counter.py:139`); with overlapping rounds, frames of one controller are credited to the other |
| `MC_Round_Turns.cfg`, with `Misses = TRUE` and `MaxRounds = 4` | `NeverInflated` (named in its place) | the same for controllers that take turns: a receiver that missed a command counts the frames of that round for the controller before, under numbers it will use itself |
| `MC_CounterRounds_Wrap.cfg` | `ResidentNeverReused` | numbers may be resident when they are used again if the receiver heard little (`wire.py:126-132`); the barrier, not the retention rule, keeps counts apart |
| `MC_Gate_Stopped.cfg` | `EveryTriggerAnswered` | a clock that stops keeps the gate waiting for ever (`firmware.diff:216`), which `docs/ARCHITECTURE.md:124-126` says is detected |
| `MC_Gate_Drain.cfg`, with the property in place of `DrainBounded` | `LeadAlwaysKept` | each wait compares its readings only with its own first one (`firmware.diff:215`); a reset before the coarse wait begins, or between the two waits, goes unnoticed and the wait lasts as long as the clock had come |
| `MC_Gate_Drain.cfg` | `DrainBounded` | the wait for the queue does not notice a clock that moves back (`firmware.diff:362`), and its bound grows by as much |
| `MC_ClockFeed_Torn.cfg` | `RowsWereHeard` | the ring's file is printed anew at every `read(2)` (`driver.diff:99-137`); a beacon in between yields a row made of two, and the row passed over may be pruned from what was seen (`agent.py:617-618`) and sent again |
| `MC_ClockFeed_Stale.cfg` | `AnchorAgeTrue` | a row sent again is dated by its arrival (`clockd.py:161`) and makes an old anchor young |
| `MC_ClockFeed_Stale.cfg`, with `MaxResets = 1`, `MaxFaults = 0` and the property in place of `AnchorAgeTrue` | `NeverAhead` | an anchor of the life before is kept until it expires (`clockd.py:160`); until then instants are as far ahead as the clock had come |
| `MC_ClockFeed_Stale.cfg`, with `Stations = {TRUE}` and the property, as a `PROPERTY`, in place of `AnchorAgeTrue` | `DrainedIsSent` | a station's list is emptied before its rows are published (`agent.py:196`); rows whose publish raised are lost, though `agent.py:634` says they are sent again |
| `MC_NatsClient_Flush.cfg` | `PongFlushes` | the PONG of a ping that timed out answers the next one (`natsc.py:343`) |
| `MC_Doctor_Apart.cfg` | `PassMeansCoincided` | whoever lies beyond `OUTLIER_US`, or does not pair, is left out of the figures (`session.py:734`); one other transmitter that pairs is enough for a pass |
| `MC_Doctor_Reset.cfg` | `PassMeansCompared` | relations discarded after the graph was looked at make `path_consistency` not applicable (`session.py:596`), which does not count against a pass |
| `MC_Doctor_Reset.cfg` | `AlwaysReports` | a connection closed when a round is published (`session.py:435`), or a dictionary growing under its reader (`clockd.py:177`), ends the check with no report |
| `MC_ClockGraph.cfg` | `OneWrongIsSeen` | a station's fit of one transmitter is in every edge the station contributes with it (`clockd.py:296`); leaving one edge out leaves the error in |
| `MC_ClockGraph.cfg` | `TwoObserversCorroborate` | a station's edge replaces another under the same key (`clockd.py:195`), so two observers count as one |
| `MC_Deploy_Faults.cfg` | `AcceptedRunsThisBuild` | a `pgrep` that fails reads as no process (`deploy.py:120`); the old agent goes on over new files, and its status hashes the files (`agent.py:46`) |
| `MC_Deploy_Faults.cfg` | `NeverTwo` | the same failed look puts a second agent beside the first |
| `MC_Deploy_Faults.cfg` | `MissingWereAsked` | one deadline serves all nodes (`session.py:224`); those after a silent one are reported missing unasked |
| `MC_AgentLink_Silent.cfg` | `ServedAgainAlways` | a peer that vanishes without a sign, in the handshake or later, is waited for for ever (`agent.py:700`, `natsc.py:177`) |

`IntactMeansFull` errs on the safe side: a good measurement is refused. In
`MC_Round_Restart.cfg` the proviso missing from `ShortfallIsLoss` is the one
`NothingHeardLost` states, and `BarrierHeals` bounds the damage to one round where the
receiver is not reset: a reset leaves the epoch as it was, and nothing heals the barrier
then but the count itself.

## 5. Proofs

All proofs are checked by TLAPS without gaps, from the assumptions named in the modules.
Every safety property that a passing run checks is a theorem, under the premises stated
below; what is left to TLC is at the end of this section.

**`RoundProofs`**, first on the counter (from `ModulusAssumption`, `RunAssumption`,
`BoundAssumption`): `TypeOK`, `RunMemory`, `WindowBounded`, `BarrierExcludesPast`,
`FullMeansNothingForgotten` as invariants and `NeverRedated` as an action property.
They are not inductive alone. The invariant `IInv` says of each bucket that it is in
order (`BucketOK`: the window bounded and in step with what is resident, the watermark
above every forgotten number) and dated no later than the counter's ordinal
(`DatedUpTo`), and that runs held are distinct, few, and the only ones with anything
in their buckets. Lemmas about sequences and about `Admit` and `Record` carry the step
for a matched frame.

On the rounds at one receiver (also from `ShotsAssumption`): `RoundsImplementCounter` maps
every step to a step of the counter or a stutter, so all of the above holds of it.
`NothingInflatedHolds` is the main result: no number space, however small against the
retention, lets a round be credited with another's frames. The counter alone cannot
tell a shot from one a lap later. What keeps them apart is the barrier: `RInv` says
that whatever is stored above it was heard since the last answer, hence belongs to at
most three consecutive rounds, and these never span the number space. It is also why
the retention rule is not what protects the count (section 4).
`NothingMissedHolds` is the converse, on the first lap: `Remembered`, a part of
`RInv`, says that a captured frame is still dated as it was captured or has been
forgotten; a forgotten number is at most the watermark, and full coverage puts the
watermark below the round. Both results are per transmitter.

**`GateProofs`** (from `GateAssumption`): `TypeOK`, `RadioRestored`, `PoolConserved`,
`AnswerHonest` and `LeadKept` for every lead, pool and clock. The invariant says for each
place of the handler which registers are changed (`RegistersByPlace`), which frames it and
the queue hold (`FramesByPlace`), and what the answer and the history are
(`AnswerByPlace`). `LeadKept` needs that the fine wait is no longer than the lead
(2 ms against 600) and that a gated instant was within the lead when it was accepted:
from then on the clock either only advanced, or went back under a wait that will read
less than it read last, or went back where `unseen` says so.

**`ApAgentProofs`** (from `ApAssumption`): `FiresOnceHolds` is the refinement: every
step of the agent is a step of `FireOnce` or a stutter. `RecordInStep` and
`SilentWhileWedged` come with it. The invariant adds to `RecordInStep` that an unknown
round has left no trace on air and one in progress no answer (`NoTrace`), that a
firing round's outcomes so far agree with the air and its later shots have not gone
out (`SoFarHonest`), and that an unusable radio has cost the round in progress a shot
(`LostByAShot`). The promise is about rounds while they are remembered: one pushed out
of the record, reset or lost with the process is unknown again on both sides, and its
history begins anew. What was left in the kernel's log by a process that died does not
disturb it, since a new one begins at the end of the log; nor does an answer lost with
the connection, since the promise is about the record.

**`RoundProofs`**, then on rounds with everything between the nodes (from
`RoundAssumption`): `DenominatorWasConcurrent`, with
`FiredWasAired`: an answer that was kept is about the present round and names only
shots on air, and a round's frames stay on record as long as it is the present one.
`BarrierHeals` where the receiver is not reset (`MaxResets = 0`), from the epochs: a
controller knows none that is ahead of the receiver's. Neither assumes anything about
timing, and the other two build on them:

- `NeverInflated` where the numbers do not come round (`FirstLap`,
  `MaxRounds * Shots <= Modulus`) and the frames counted are the controller's own
  (`ToldApart`): it is alone, with no assumption on timing, or the controllers take turns
  and no command misses the receiver. A key then tells its round, so with `NInv`, in which
  all that travels belongs to a round that was commanded (`AllCommanded`) and what is
  stored is of an earlier round or was heard in this one (`Stored`), a subframe past the
  barrier can only be credited to the round that heard it. That a frame is counted for
  its own controller is `OwnRun`; for several it rests on `TInv`: one round is under
  way at a time, each node has it once, and no frame is on air before the receiver has
  taken the round up.
- `NothingHeardLost` under the same premises, where also the timing is as planned
  (`Orderly`, no transmitter in `Late`) and the receiver is not reset. What was captured of
  the round in progress is dated after its barrier or forgotten (`Held`), since the
  barrier is not ahead of the counter (`Asked`, from `BarrierHeals`) and a key stored
  earlier cannot be this round's; a report says "full" only when nothing was
  forgotten (`FullForgotNothing`, of the counter); and a report counts either all
  there is of the round or all that was captured with nothing left to come (`Told`), which
  is where the early answer and the deadline part.

The premises are those the runs show to be needed: without `Orderly` or with a command
that misses the receiver frames are credited to the wrong controller, with a transmitter
in `Late` or a reset they are lost. `MC_Round.cfg` is an instance of the premises of
`NeverInflated`, `MC_Round_Turns.cfg` of all of them.

**`NatsClientProofs`** (from `NatsAssumption`): `OwnReply`, `NoEntryLeft`,
`NobodyLeftWaiting`. A request number is used once and travels with the reply; there
is an entry exactly while a request is being asked; and the socket is taken away
before the waiting are woken (`SocketFirst`), so whoever registers after the waking
fails to send.

**`AgentLinkProofs`** (from `LinkAssumption`): `OneHandler` and
`HelloMeansSubscribed`. The agent dials only when its connection's socket is gone, and
only the reader, on its way out, lets it go: `NobodyWhileDialling` and `EarlierGone`.
This is what lets the agent's state do without a lock.

**`DeployProofs`** (from `DeployAssumption`): `OneAgent` and `RunsWhole`. From the
moment a node is seen empty until an agent is started nobody runs there, unless the look
had failed and the node is overlooked (`EmptyMeanwhile`); so away from the overlooked
nodes a start never comes on top of another. An agent is started from what was verified
(`VerifiedFirst`), which holds whether or not another one still runs. The invariant follows
a failed look through everything that comes after it, since one look that finds the node
empty makes it good.

**`ClockFeedProofs`** (from `FeedAssumption`), in five invariants. `PInv` needs no
premise: rows are of the past, and what the agent takes for forwarded was handed over as
long as the ring shows it. It gives `TypeOK` and `UnsentIsOffered`. The others say what
holds as long as no poll was torn (`[](~torn => ...)`, and for `NeverSentTwice` of steps):
any number of reads may make up a poll and beacons may come between them, but not one that
moves a full ring up under the reads. After that two rows may be mixed in one line and a
row be sent twice (`MC_ClockFeed_Torn.cfg`), and nothing is claimed. That the run `clock`
checks its other invariants in torn states as well is more than the theorems say.

- `SInv` gives `RowsWereHeard` and `NeverSentTwice`. A key pruned from what was seen
  must not come back: it is older than all the log holds and than all the poll under
  way has read (`ForgottenIsGone`), since a poll shows every row handed over that is
  still within reach (`PollShowsAll`), and a read goes on where the one before it ended in an
  unmoved ring.
- `WInv` gives `WindowSound` where the clocks are reset at most twice (`FewResets`).
  `_Series.add` compares a row with the last sample only, so near must be transitive:
  `KnownRelations` says that every row under way is of one of three relations, each
  a step apart from the one before it. With four resets two steps within `MaxSkew`, each
  the sum of two resets, can add up to more: TLC finds that (a gap of four ticks, a
  skew of one, a window of twelve, eleven ticks), and the theorem does not claim it.
- `AInv` gives `AnchorRecovers`. While beacons arrive undisturbed only the latest is
  under way (`Quiet`), and either the anchor is of the present life (`Current`) or it has
  not changed since the disturbance and grows old (`AnchorOnItsWay`). With it comes
  `NeverTooFar`: an anchor of the present life was dated when it arrived or later than it
  was read.
- `FInv` gives `FitRecovers`, also where a fit asks for one sample at least and for no
  more than the window holds (`Fitting`). `TakenUp` is the three cases after a
  disturbance: nothing to compare with, beacons taken for late ones until they overtake
  the last sample, or a window whose latest samples are the latest beacons.

`MC_ClockFeed.cfg` is an instance of both premises. That `Kept` leaves the rows
asked for, in their order, is an induction over the rows: its step is proved of a least
counterexample, which exists since the naturals are well-founded (`NatMinimal`,
`KeptUnfolds`, `KeptPlaces`, `KeptSuffix`).

**`DoctorProofs`** (from `GraphAssumption` and `DoctorAssumption`). `SolveFindsTree` is
about any edges at all: what `solve_offsets` leaves is a tree of shortest routes. The
queue stays in the order of distance and no edge spans more than one level (`Levels`),
each clock was found from one before it and by an edge no other was found by (`Parents`),
and with as many steps as there are clocks nothing is left to find. From it:

- `ReachesAll`: the tree reaches every clock its edges lead to, and the edges that are put
  join exactly the clocks that observations relate (`PutsJoin`, `EdgesJoin`), also where
  one value has replaced another under its key.
- `WrongIsSeen`: if one observation between transmitters is wrong, at most one edge is. A route
  uses it once at most, so a map is right or wrong by all of it (`TreeUsesOnce`). The
  disagreement is the greatest over the trees that lack one edge each. The tree without
  the wrong edge shows the error in full; what has to be excluded is a tree that shows
  twice the error, because it follows the wrong edge in the other direction. It would have
  to be shorter to one end in the one tree and to the other end in the other, and an edge
  less makes nothing nearer: `SameDirection`. For an observation by a station this is
  false, since it is in several edges (`OneWrongIsSeen`, section 4).
- `ReportComplete`: what is recorded is a prefix of one order of the eight checks, which
  depends on the number of transmitters alone (`ReportInv`), and a check that ends in a
  report ends with all of them or with a FAIL.
- `PassRestsOnOne` and `PassMeansCoincided`: `RoundsInv` says which figures the verdicts at
  the end were taken from, whatever happened to the graph since. A PASS then means that
  the reference and one other transmitter were received in both rounds within the limits.
  For sessions of one or two transmitters that is everybody; the premise of
  `PassMeansCoincidedHolds`, plans of at most two, is what `doctor_passes_apart` shows to
  be needed.

`MC_Doctor.cfg` is an instance of all premises. As for `Kept`, the search is a recursive
function and its invariant is proved of a least counterexample (`SearchGrows`,
`TreeInduction`).

**Only model-checked.** Liveness under fairness (`EveryFireAnswered`, `RoundEnds`,
`AnsweredWhileClockRuns`, `BreakNoticed`, `ServedAgain`), which the prover does not
reach. `NeverInflated` and `NothingHeardLost` past the first lap, where the counting
part is `NothingInflatedHolds` and `NothingMissedHolds` for one receiver.

## 6. Not modelled

- `sync`, `calibrate`, `wait_for_clock` and the gate's timing: rounds as modelled
  whose answers are read for figures. `status` prints what `Doctor` examines.
- The value of a fit, its uncertainty, airtimes and the statistics of captured times:
  real arithmetic.
- Bringing up the radios on a node: a list of commands none of which depends on the
  one before.
- Netlink and scans, plans, printing: input and output around programs modelled here.
  The radiotap parser: a pure function of bytes that tests enumerate.
- Unsubscribing and the framing of messages on the bus: nothing modelled here depends
  on them.
- Bytes of stamps, triggers, descriptors and frames; levels, rates, histograms.

## 7. Plan

Done, in this order: the counter and its proofs; numbers and rounds at one
receiver with the theorem that nothing is inflated; the transmitter against its
promise; the gate and its proofs; whole rounds; the clock's feed; the bus client;
the agent's connection; deployment; the clock graph and the health check; the
proofs of the transmitter, the rounds, the bus client, the connection and the
deployment; the proofs of the clock's feed; that nothing heard in a round is lost; the
search of the clock graph and what it implies; the health check.

Left, in order of worth:

1. `NeverInflated` and `NothingHeardLost` of `Round` past the first lap, reusing the
   invariant of `CounterRounds`.
2. `AgentLink` under `ApAgent`: that a command delivered just before a break is
   answered on the connection after it, or repeated.

## 8. Running

```
tlc -config MC_Gate.cfg MC_Gate.tla
tlapm GateProofs.tla
```

`PROJECT.json` lists the runs with their configurations and properties, the
changed definitions with the property each must break, the source lines each definition
stands for, the differences of section 4, the hazards and the theorems.
