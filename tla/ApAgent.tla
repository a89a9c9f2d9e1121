------------------------------- MODULE ApAgent -------------------------------
(***************************************************************************)
(* A transmitter's agent: class ApAgent of cosr/agent.py behind the        *)
(* callbacks of class Agent, with the driver and the gate below it and the *)
(* process itself coming and going.                                        *)
(*                                                                         *)
(* The bus client hands messages to the agent one at a time and in order,  *)
(* from one thread: a command is taken up only when the one before it has  *)
(* been answered.  Firing a round is several steps because the process can *)
(* die, the radio can stop accepting commands, and the connection to the   *)
(* bus can break, between two shots.  How the agent dials again is the     *)
(* matter of AgentLink; whether a published answer arrives is Round's.     *)
(*                                                                         *)
(* The gate's outcomes are FIRED, DRAIN (handed to the radio, not a clean  *)
(* shot) and REFUSED, which stands for NOBF, LATE, TOOFAR and CLKLOST: the *)
(* gate gave up before the frame was handed to the radio.                  *)
(***************************************************************************)
EXTENDS Integers, Sequences, SequencesExt, Functions

CONSTANTS
    Keys,         \* rounds: (run, batch)
    Shots,        \* shots of a round
    Memory,       \* BATCH_MEMORY (256 in the code)
    MaxInbox,     \* bound: commands waiting
    MaxCommands   \* bound: commands ever sent

ASSUME ApAssumption ==
    /\ Shots \in Nat \ {0} /\ Memory \in Nat \ {0}
    /\ MaxInbox \in Nat /\ MaxCommands \in Nat

VARIABLES
    up,          \* the process is alive
    link,        \* its connection to the bus stands
    inbox,       \* commands the bus client has yet to hand over
    batches,     \* _batches: what is known of each round
    batchOrder,  \* _batch_order
    job,         \* the round being fired, its outcomes so far
    wedged,      \* the radio stopped accepting commands
    log,         \* gate outcomes in the kernel log not read yet
    reply,       \* the round of the last answer given to the connection
    sent,        \* commands sent so far
    onAir        \* history: transmissions per round and shot, while remembered

vars == <<up, link, inbox, batches, batchOrder, job, wedged, log, reply, sent, onAir>>

Gate == {"FIRED", "DRAIN", "REFUSED"}
Outcomes == Gate \cup {"SKIPPED", "UNKNOWN"}

Statuses == [shots : Seq(Outcomes), error : {"none", "WEDGED", "failed"}]

Empty == [shots |-> <<>>, error |-> "none"]

\* An entry of _batches: absent, None while in progress, or the answer.
Absent == [state |-> "unknown", status |-> Empty]
InProgress == [state |-> "firing", status |-> Empty]
Done(st) == [state |-> "answered", status |-> st]

Entries == [state : {"unknown", "firing", "answered"}, status : Statuses]

NoJob == [active |-> FALSE]
Jobs == [active : {TRUE}, key : Keys, shots : Seq(Outcomes), failed : BOOLEAN]

NoReply == [given |-> FALSE]
Replies == [given : {TRUE}, key : Keys]

Commands == [op : {"fire"}, key : Keys] \cup [op : {"reset"}]

Silence == [s \in 1 .. Shots |-> 0]
NothingOnAir == [k \in Keys |-> Silence]
NothingKnown == [k \in Keys |-> Absent]

NewJob(k) == [active |-> TRUE, key |-> k, shots |-> <<>>, failed |-> FALSE]

---------------------------------------------------------------------------
Init ==
    /\ up = TRUE
    /\ link = TRUE
    /\ inbox = <<>>
    /\ batches = NothingKnown
    /\ batchOrder = <<>>
    /\ job = NoJob
    /\ wedged = FALSE
    /\ log = <<>>
    /\ reply = NoReply
    /\ sent = 0
    /\ onAir = NothingOnAir

\* The controller, or the command line, publishes a command.  A node that is
\* down or off the bus never sees it.
Send(c) ==
    /\ sent < MaxCommands
    /\ Len(inbox) < MaxInbox
    /\ sent' = sent + 1
    /\ inbox' = IF up /\ link THEN Append(inbox, c) ELSE inbox
    /\ UNCHANGED <<up, link, batches, batchOrder, job, wedged, log, reply, onAir>>

---------------------------------------------------------------------------
(* Taking up a command.                                                    *)

Idle(op) ==
    /\ up /\ ~job.active
    /\ inbox # <<>> /\ Head(inbox).op = op
    /\ inbox' = Tail(inbox)

\* What the record has of round k is published.  On a broken connection the
\* publish raises, the bus client swallows the exception and nobody is told:
\* the answer is in the record alone.
Publish(k) == reply' = IF link THEN [given |-> TRUE, key |-> k] ELSE reply

\* A plausible slip: a repeated instruction is silently absorbed.
RepeatIgnored ==
    /\ Idle("fire")
    /\ batches[Head(inbox).key].state # "unknown"
    /\ UNCHANGED <<up, link, batches, batchOrder, job, wedged, log, reply, sent, onAir>>

\* A round already carried out is answered from the record.
Repeat ==
    /\ Idle("fire")
    /\ LET k == Head(inbox).key
       IN  /\ batches[k].state # "unknown"
           /\ Publish(k)
    /\ UNCHANGED <<up, link, batches, batchOrder, job, wedged, log, sent, onAir>>

\* A new round enters the record (first as None) and may push the oldest out
\* (_forget_old_batches).
Remember(k, e) ==
    LET order == Append(batchOrder, k)
        first == IF Len(order) > Memory THEN Len(order) - Memory + 1 ELSE 1
        gone == {order[i] : i \in 1 .. first - 1}
    IN  /\ batchOrder' = SubSeq(order, first, Len(order))
        /\ batches' = [j \in Keys |-> IF j = k THEN e
                                      ELSE IF j \in gone THEN Absent ELSE batches[j]]
        /\ onAir' = [j \in Keys |-> IF j \in gone THEN Silence ELSE onAir[j]]

WedgedAnswer == [shots |-> <<>>, error |-> "WEDGED"]

\* A radio known to be unusable is not touched.
RefuseWedged ==
    /\ Idle("fire")
    /\ wedged
    /\ LET k == Head(inbox).key
       IN  /\ batches[k].state = "unknown"
           /\ Remember(k, Done(WedgedAnswer))
           /\ Publish(k)
    /\ UNCHANGED <<up, link, job, wedged, log, sent>>

\* A plausible slip: the unusable radio is tried again.
BeginWedged ==
    /\ Idle("fire")
    /\ LET k == Head(inbox).key
       IN  /\ batches[k].state = "unknown"
           /\ Remember(k, InProgress)
           /\ job' = NewJob(k)
    /\ UNCHANGED <<up, link, wedged, log, reply, sent>>

\* Firing begins.  The power is set first; failing to is only noted in the
\* answer, where Round has it.
Begin ==
    /\ Idle("fire")
    /\ ~wedged
    /\ LET k == Head(inbox).key
       IN  /\ batches[k].state = "unknown"
           /\ Remember(k, InProgress)
           /\ job' = NewJob(k)
    /\ UNCHANGED <<up, link, wedged, log, reply, sent>>

\* reset: the record is discarded and the radio taken for usable again.
Reset ==
    /\ Idle("reset")
    /\ batches' = NothingKnown
    /\ batchOrder' = <<>>
    /\ wedged' = FALSE
    /\ onAir' = NothingOnAir
    /\ UNCHANGED <<up, link, job, log, reply, sent>>

---------------------------------------------------------------------------
(* Firing a round, shot by shot.                                           *)

Firing == up /\ job.active

\* Whether the radio was lost is looked at after a shot, not before it.
LostOnTheWay == wedged /\ job.shots # <<>>

MoreShots == Firing /\ ~LostOnTheWay /\ ~job.failed /\ Len(job.shots) < Shots

\* The shot next in turn gets outcome o.
Outcome(o) == job' = [job EXCEPT !.shots = Append(@, o)]

\* What the gate and the radio did with the shot.
Aired(o) == IF o \in {"FIRED", "DRAIN"}
            THEN onAir' = [onAir EXCEPT ![job.key][Len(job.shots) + 1] = @ + 1]
            ELSE UNCHANGED onAir

\* The loop is a slot behind, which it can be only after the first write.
Skip ==
    /\ MoreShots /\ job.shots # <<>>
    /\ Outcome("SKIPPED")
    /\ UNCHANGED <<up, link, inbox, batches, batchOrder, wedged, log, reply, sent, onAir>>

\* A plausible slip: the first unread line is taken for this shot's.
ShotFirstLine(o) ==
    /\ MoreShots
    /\ Aired(o)
    /\ Outcome(Head(Append(log, o)))
    /\ log' = <<>>
    /\ UNCHANGED <<up, link, inbox, batches, batchOrder, wedged, reply, sent>>

\* The gate's line is in the log when the write returns; the last unread line
\* is this shot's.
Shot(o) ==
    /\ MoreShots
    /\ Aired(o)
    /\ Outcome(Last(Append(log, o)))
    /\ log' = <<>>
    /\ UNCHANGED <<up, link, inbox, batches, batchOrder, wedged, reply, sent>>

\* The log was overwritten before it was read: nothing tells what happened.
ShotOverrun(o) ==
    /\ MoreShots
    /\ Aired(o)
    /\ Outcome("UNKNOWN")
    /\ log' = <<>>
    /\ UNCHANGED <<up, link, inbox, batches, batchOrder, wedged, reply, sent>>

\* The trigger write fails; the radio may have transmitted all the same.
WriteFails(o) ==
    /\ MoreShots
    /\ Aired(o)
    /\ Outcome("UNKNOWN")
    /\ wedged' = TRUE
    /\ UNCHANGED <<up, link, inbox, batches, batchOrder, log, reply, sent>>

\* Reading the log fails: the exception ends the round, its outcomes are lost
\* and its unread line stays behind.
ReadFails(o) ==
    /\ MoreShots
    /\ Aired(o)
    /\ job' = [job EXCEPT !.failed = TRUE]
    /\ log' = Append(log, o)
    /\ UNCHANGED <<up, link, inbox, batches, batchOrder, wedged, reply, sent>>

Over == Firing /\ (LostOnTheWay \/ job.failed \/ Len(job.shots) = Shots)

\* An exception leaves no outcome in the answer, only its text.
Verdict == IF job.failed
           THEN [shots |-> <<>>, error |-> "failed"]
           ELSE [shots |-> job.shots, error |-> IF wedged THEN "WEDGED" ELSE "none"]

\* A plausible slip: an answer is remembered only when nothing went wrong.
FinishCleanOnly ==
    /\ Over
    /\ batches' = IF Verdict.error = "none"
                  THEN [batches EXCEPT ![job.key] = Done(Verdict)] ELSE batches
    /\ Publish(job.key)
    /\ job' = NoJob
    /\ UNCHANGED <<up, link, inbox, batchOrder, wedged, log, sent, onAir>>

\* Every shot has its outcome, or the round ended early: the answer is
\* remembered and published.
Finish ==
    /\ Over
    /\ batches' = [batches EXCEPT ![job.key] = Done(Verdict)]
    /\ Publish(job.key)
    /\ job' = NoJob
    /\ UNCHANGED <<up, link, inbox, batchOrder, wedged, log, sent, onAir>>

---------------------------------------------------------------------------
(* The process.                                                            *)

\* The process dies, in mid-round or not, with all it remembered.  The
\* kernel's log is not its own: a trigger under way may still write its line.
Die ==
    /\ up
    /\ up' = FALSE /\ link' = FALSE
    /\ inbox' = <<>> /\ job' = NoJob
    /\ \/ UNCHANGED log
       \/ MoreShots /\ \E o \in Gate : log' = Append(log, o)
    /\ batches' = NothingKnown /\ batchOrder' = <<>> /\ onAir' = NothingOnAir
    /\ wedged' = FALSE
    /\ UNCHANGED <<reply, sent>>

\* It is started again: empty record, log read from its end (ApAgent.__init__,
\* KernelLog.__init__).
Start ==
    /\ ~up
    /\ up' = TRUE
    /\ log' = <<>>
    /\ UNCHANGED <<link, inbox, batches, batchOrder, job, wedged, reply, sent, onAir>>

\* The connection breaks.  The commands already read from it are handed over
\* all the same, those behind them are gone.
Break ==
    /\ up /\ link
    /\ link' = FALSE
    /\ \E n \in 0 .. Len(inbox) : inbox' = SubSeq(inbox, 1, n)
    /\ UNCHANGED <<up, batches, batchOrder, job, wedged, log, reply, sent, onAir>>

\* The reader is at its end, which it notices only between two commands, and
\* the agent has dialled again.
Redial ==
    /\ up /\ ~link
    /\ ~job.active /\ inbox = <<>>
    /\ link' = TRUE
    /\ UNCHANGED <<up, inbox, batches, batchOrder, job, wedged, log, reply, sent, onAir>>

Work ==
    \/ Repeat \/ RefuseWedged \/ Begin \/ Reset
    \/ Skip
    \/ \E o \in Gate : Shot(o) \/ ShotOverrun(o) \/ WriteFails(o) \/ ReadFails(o)
    \/ Finish

Next ==
    \/ \E c \in Commands : Send(c)
    \/ Work
    \/ Die
    \/ Start
    \/ Break
    \/ Redial

Spec == Init /\ [][Next]_vars

\* The reader thread keeps handing commands over while the process lives, and
\* a trigger write always returns: the driver gives up after two seconds.
FairSpec == Spec /\ WF_vars(Work)

---------------------------------------------------------------------------
(* Properties.                                                             *)

TypeOK ==
    /\ up \in BOOLEAN /\ link \in BOOLEAN /\ wedged \in BOOLEAN /\ sent \in Nat
    /\ inbox \in Seq(Commands)
    /\ batches \in [Keys -> Entries]
    /\ batchOrder \in Seq(Keys)
    /\ job \in Jobs \cup {NoJob}
    /\ log \in Seq(Gate)
    /\ reply \in Replies \cup {NoReply}
    /\ onAir \in [Keys -> [1 .. Shots -> Nat]]

\* The record and its order list the same rounds, each once and never more
\* than the limit, and a round is marked in progress exactly while it is being
\* fired: no round is left answering IN_PROGRESS for ever
\* (agent.py:370-395, 397-407).
RecordInStep ==
    /\ IsInjective(batchOrder) /\ Len(batchOrder) <= Memory
    /\ \A k \in Keys :
          /\ k \in Range(batchOrder) <=> batches[k].state # "unknown"
          /\ batches[k].state = "firing" <=> (job.active /\ job.key = k)

\* Once the radio has stopped accepting commands nothing goes on air until a
\* reset or a restart says it works again (agent.py:382-386, 450-451).
SilentWhileWedged ==
    [][wedged /\ wedged' => \A k \in Keys, s \in 1 .. Shots : onAir'[k][s] <= onAir[k][s]]_vars

\* What is promised about rounds, whatever the process goes through.
Promise == INSTANCE FireOnce WITH
    phase <- [k \in Keys |-> batches[k].state],
    verdict <- [k \in Keys |-> batches[k].status]

\* Within what it remembers the agent fires a round once, answers it honestly
\* and completely (agent.py:358-395, 409-463).
FiresOnce == Promise!Spec

Waiting(k) == \E i \in 1 .. Len(inbox) : inbox[i].op = "fire" /\ inbox[i].key = k

\* Every command to fire that the agent has is answered, refused and repeated
\* rounds included, unless the process dies or the connection breaks before it
\* is: then the publish raises, _dispatch swallows that, and the answer waits
\* in the record for the command to be repeated (agent.py:365-395, 638-653,
\* natsc.py:253-258).
EveryFireAnswered ==
    \A k \in Keys : Waiting(k) ~> (~up \/ ~link \/ (reply.given /\ reply.key = k))
=============================================================================
