-------------------------------- MODULE Deploy --------------------------------
(***************************************************************************)
(* Placing the agent on the nodes and accepting them (cosr/deploy.py, then *)
(* Session.wait_for_agents in cosr/session.py and source_hash in           *)
(* cosr/agent.py): for every node in turn, stop what runs there and see it *)
(* gone, copy the modules, compare what the node has with what this        *)
(* controller has, start the agent and see it there; then ask every node   *)
(* for its status and compare the builds.                                  *)
(*                                                                         *)
(* Commands go over ssh and may fail, before or after they took effect; a  *)
(* process told to end takes its time, or never does; agents die; the      *)
(* source is edited while all this goes on.  A build is a number, 0 is a   *)
(* copy that is not whole.                                                 *)
(***************************************************************************)
EXTENDS Integers, Sequences, FiniteSets

CONSTANTS
    Nodes,         \* number of nodes
    StopPolls,     \* how often stop() looks for the agent (20)
    InsistAt,      \* the look after which it insists (attempt == 8)
    StartPolls,    \* how often start() looks for it (20)
    MaxBuild,      \* bound: builds the source goes through
    MaxLaunches,   \* bound: agents launched
    MaxFaults      \* bound: commands that fail, agents that die

ASSUME DeployAssumption ==
    /\ {Nodes, StopPolls, StartPolls, MaxBuild} \subseteq Nat \ {0}
    /\ {InsistAt, MaxLaunches, MaxFaults} \subseteq Nat

VARIABLES
    source,    \* the build of the controller's own files
    disk,      \* per node: the build in REMOTE_DIR
    procs,     \* per node: the agents running
    pc,        \* where the controller is
    mode,      \* "up" or "down"
    node,      \* the node it is at
    polls,     \* looks taken
    placed,    \* history: per node, the build up() returned for it
    overlooked,   \* history: nodes where a look that failed hid an agent and
                  \* that have not been empty at a look since
    answers,   \* per node: the agent that answered, while it is asked
    asked,     \* history: nodes asked
    spent,     \* the time for all the answers is used up
    launched, faults   \* bounds' counters

deployVars == <<source, disk, procs, placed, overlooked, launched>>
askVars == <<answers, asked, spent>>
vars == <<deployVars, askVars, pc, mode, node, polls, faults>>

Builds == 0 .. MaxBuild
NodeIds == 1 .. Nodes

\* told: a signal to end has reached it; it may not heed it.
Processes == [id : Nat, build : Builds, told : BOOLEAN]
NoOne == [id |-> 0, build |-> 0, told |-> FALSE]

Init ==
    /\ source = 1
    /\ disk = [n \in NodeIds |-> 0]
    /\ procs = [n \in NodeIds |-> {}]
    /\ pc = "idle" /\ mode = "up" /\ node = 1 /\ polls = 0
    /\ placed = [n \in NodeIds |-> 0] /\ overlooked = {}
    /\ answers = [n \in NodeIds |-> NoOne] /\ asked = {} /\ spent = FALSE
    /\ launched = 0 /\ faults = 0

Fault == faults < MaxFaults /\ faults' = faults + 1

---------------------------------------------------------------------------
(* Whatever else happens.                                                  *)

Edit ==
    /\ source < MaxBuild /\ source' = source + 1
    /\ UNCHANGED <<disk, procs, placed, overlooked, launched, askVars, pc, mode, node, polls, faults>>

\* An agent that was told to ends.
Exit(n) ==
    /\ \E p \in procs[n] : p.told /\ procs' = [procs EXCEPT ![n] = @ \ {p}]
    /\ UNCHANGED <<source, disk, placed, overlooked, launched, askVars, pc, mode, node, polls, faults>>

Die(n) ==
    /\ Fault
    /\ \E p \in procs[n] : procs' = [procs EXCEPT ![n] = @ \ {p}]
    /\ UNCHANGED <<source, disk, placed, overlooked, launched, askVars, pc, mode, node, polls>>

---------------------------------------------------------------------------
(* Deployer.up and down.                                                   *)

Begin(m) ==
    /\ pc = "idle"
    /\ pc' = "stop" /\ mode' = m /\ node' = 1 /\ polls' = 0
    /\ placed' = [n \in NodeIds |-> 0]
    /\ UNCHANGED <<source, disk, procs, overlooked, launched, askVars, faults>>

Signalled == [procs EXCEPT ![node] = {[p EXCEPT !.told = TRUE] : p \in @}]

\* pkill, check=False: whether it arrived is not looked at.
Pkill ==
    /\ pc = "stop"
    /\ \/ procs' = Signalled /\ UNCHANGED faults
       \/ Fault /\ UNCHANGED procs
    /\ pc' = "gone" /\ polls' = 0
    /\ UNCHANGED <<source, disk, placed, overlooked, launched, askVars, mode, node>>

\* The next node, or the end.
Onward(next) ==
    IF node < Nodes THEN node' = node + 1 /\ pc' = "stop"
    ELSE node' = node /\ pc' = next

\* pgrep finds nothing - or fails, check=False, and its output is as empty.
SeenGone ==
    /\ pc = "gone"
    /\ IF procs[node] = {} THEN overlooked' = overlooked \ {node} /\ UNCHANGED faults
       ELSE Fault /\ overlooked' = overlooked \cup {node}
    /\ IF mode = "up" THEN pc' = "push" /\ UNCHANGED node ELSE Onward("idle")
    /\ UNCHANGED <<source, disk, procs, placed, launched, askVars, mode, polls>>

\* A plausible slip: having looked often enough it goes on.
StillThereGoesOn ==
    /\ pc = "gone" /\ procs[node] # {}
    /\ polls' = polls + 1
    /\ pc' = IF polls' = StopPolls THEN "push" ELSE "gone"
    /\ UNCHANGED <<deployVars, askVars, mode, node, faults>>

\* Ask once, then insist (check=False again); an agent that outlasts that
\* fails the deployment.
StillThere ==
    /\ pc = "gone" /\ procs[node] # {}
    /\ polls' = polls + 1
    /\ \/ procs' = (IF polls = InsistAt THEN Signalled ELSE procs) /\ UNCHANGED faults
       \/ polls = InsistAt /\ Fault /\ UNCHANGED procs
    /\ pc' = IF polls' = StopPolls THEN "idle" ELSE "gone"
    /\ UNCHANGED <<source, disk, placed, overlooked, launched, askVars, mode, node>>

\* The archive is sent and unpacked: all of it, or not, with or without an
\* error to show for it.
Push ==
    /\ pc = "push"
    /\ \/ /\ disk' = [disk EXCEPT ![node] = source]
          /\ pc' = "verify" /\ UNCHANGED faults
       \/ /\ Fault
          /\ disk' \in {disk, [disk EXCEPT ![node] = 0]}
          /\ pc' \in {"verify", "idle"}
    /\ UNCHANGED <<source, procs, placed, overlooked, launched, askVars, mode, node, polls>>

\* A plausible slip: the answer is taken down, not compared.
VerifyAny ==
    /\ pc = "verify"
    /\ placed' = [placed EXCEPT ![node] = disk[node]] /\ pc' = "start"
    /\ UNCHANGED <<source, disk, procs, overlooked, launched, askVars, mode, node, polls, faults>>

\* The node hashes what it has; no answer compares unequal.
Verify ==
    /\ pc = "verify"
    /\ \/ /\ disk[node] = source
          /\ placed' = [placed EXCEPT ![node] = source]
          /\ pc' = "start" /\ UNCHANGED faults
       \/ disk[node] # source /\ pc' = "idle" /\ UNCHANGED <<placed, faults>>
       \/ Fault /\ pc' = "idle" /\ UNCHANGED placed
    /\ UNCHANGED <<source, disk, procs, overlooked, launched, askVars, mode, node, polls>>

\* Launched in the background; the command may fail either way.
Start ==
    /\ pc = "start" /\ launched < MaxLaunches
    /\ \/ /\ launched' = launched + 1
          /\ procs' = [procs EXCEPT ![node] =
                         @ \cup {[id |-> launched', build |-> disk[node], told |-> FALSE]}]
       \/ faults < MaxFaults /\ UNCHANGED <<launched, procs>>
    /\ \/ launched' # launched /\ pc' = "there" /\ UNCHANGED faults
       \/ Fault /\ pc' = "idle"
    /\ polls' = 0
    /\ UNCHANGED <<source, disk, placed, overlooked, askVars, mode, node>>

SeenThere ==
    /\ pc = "there" /\ procs[node] # {}
    /\ Onward("ask")
    /\ answers' = [n \in NodeIds |-> NoOne] /\ asked' = {} /\ spent' = FALSE
    /\ UNCHANGED <<deployVars, mode, polls, faults>>

\* It has died, or the look failed.
NotThere ==
    /\ pc = "there"
    /\ \/ procs[node] = {} /\ UNCHANGED faults
       \/ procs[node] # {} /\ Fault
    /\ polls' = polls + 1
    /\ pc' = IF polls' = StartPolls THEN "idle" ELSE "there"
    /\ UNCHANGED <<deployVars, askVars, mode, node>>

---------------------------------------------------------------------------
(* Session.wait_for_agents: one deadline for all, node after node.         *)

Unasked == {n \in NodeIds : answers[n] = NoOne}

\* Of several agents of one name, the first to answer.
Ask(n) ==
    /\ pc = "ask" /\ ~spent /\ n \in Unasked /\ \A m \in Unasked : n <= m
    /\ asked' = asked \cup {n}
    /\ \/ /\ \E p \in procs[n] : answers' = [answers EXCEPT ![n] = p]
          /\ UNCHANGED <<spent, faults>>
       \/ /\ Fault \/ (procs[n] = {} /\ UNCHANGED faults)
          /\ spent' = TRUE /\ UNCHANGED answers
    /\ UNCHANGED <<deployVars, pc, mode, node, polls>>

\* status() hashes the files the node has when it is asked.
Said(n) == disk[n]

\* All answered, all with this controller's build.
Accept ==
    /\ pc = "ask" /\ \A n \in NodeIds : answers[n] # NoOne
    /\ \A n \in NodeIds : Said(n) = source
    /\ pc' = "accepted"
    /\ UNCHANGED <<deployVars, askVars, mode, node, polls, faults>>

\* Someone is missing, or has another build.
Refuse ==
    /\ pc = "ask"
    /\ \/ spent
       \/ /\ \A n \in NodeIds : answers[n] # NoOne
          /\ \E n \in NodeIds : Said(n) # source
    /\ pc' = "refused"
    /\ UNCHANGED <<deployVars, askVars, mode, node, polls, faults>>

\* A session asks, after whatever came of the deployments before it; or the
\* operator goes back to deploying.
Again ==
    /\ pc \in {"idle", "accepted", "refused"}
    /\ pc' \in {"ask", "idle"} \ {pc}
    /\ answers' = [n \in NodeIds |-> NoOne] /\ asked' = {} /\ spent' = FALSE
    /\ UNCHANGED <<deployVars, mode, node, polls, faults>>

---------------------------------------------------------------------------
Deployer ==
    \/ \E m \in {"up", "down"} : Begin(m)
    \/ Pkill \/ SeenGone \/ StillThere \/ Push \/ Verify \/ Start \/ SeenThere \/ NotThere

Session == (\E n \in NodeIds : Ask(n)) \/ Accept \/ Refuse \/ Again

Next == Deployer \/ Session \/ Edit \/ \E n \in NodeIds : Exit(n) \/ Die(n)

Spec == Init /\ [][Next]_vars

---------------------------------------------------------------------------
TypeOK ==
    /\ source \in 1 .. MaxBuild
    /\ disk \in [NodeIds -> Builds]
    /\ procs \in [NodeIds -> SUBSET Processes]
    /\ pc \in {"idle", "stop", "gone", "push", "verify", "start", "there",
               "ask", "accepted", "refused"}
    /\ mode \in {"up", "down"} /\ node \in NodeIds /\ polls \in Nat
    /\ placed \in [NodeIds -> Builds] /\ overlooked \subseteq NodeIds
    /\ answers \in [NodeIds -> Processes]
    /\ asked \subseteq NodeIds /\ spent \in BOOLEAN
    /\ launched \in Nat /\ faults \in Nat

\* Two agents on one node have one cause, a look for the first that failed and
\* passed for an empty one: short of it, never, whatever other commands fail,
\* whoever does not heed a signal, and however often up and down are repeated
\* after a failure; and one look that finds the node empty, in a later up or
\* down, makes good a failed one (stop: "leaving it running would mean two
\* agents answering for one node").
OneAgent == \A n \in NodeIds \ overlooked : \A p, q \in procs[n] : p = q

\* No agent is ever started from a copy that is not whole, however copying, or
\* a look, fails; and none runs from another copy than the build reported for
\* its node, unless a look passed it over (push).
RunsWhole ==
    \A n \in NodeIds : \A p \in procs[n] :
        p.build # 0 /\ (n \in overlooked \/ placed[n] \in {0, p.build})

---------------------------------------------------------------------------
(* What the documentation says and does not hold.                          *)

\* Stop, see it gone, then start: never two agents on one node (deploy.py:
\* "Starting first and hoping the old process exits leaves two agents on one
\* node, both answering, one of them stale").
NeverTwo == \A n \in NodeIds : \A p, q \in procs[n] : p = q

\* An accepted node runs the build it reports: the hash is taken of the files
\* it has, also when these were pushed over a running agent (source_hash,
\* wait_for_agents, up).
AcceptedRunsThisBuild ==
    pc = "accepted" => \A n \in NodeIds : answers[n].build = disk[n]

\* Nodes reported as not answering have been asked (wait_for_agents: "no
\* agent answered for: ...").
MissingWereAsked ==
    pc = "refused" /\ spent => {n \in NodeIds : answers[n] = NoOne} \subseteq asked

===============================================================================
